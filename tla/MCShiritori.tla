------------------------------ MODULE MCShiritori ------------------------------
(***************************************************************************)
(* Shiritori for TLC: two letters that can be followed, one of them in both  *)
(* cases, and a silent one; a word that ends in a silent letter, one that    *)
(* has no other, and one that differs from another only in case and whose    *)
(* first_letter is as it is written (learn-service/check.gurlf:82).          *)
(***************************************************************************)
EXTENDS Shiritori

MCLetters == {"a", "b", "s", "A"}

MCLower == [l \in MCLetters |-> IF l = "A" THEN "a" ELSE l]

MCFirstWords == <<<<"a", "b">>, <<"b", "a", "s">>, <<"A", "b">>>>

MCFirstInitials == [i \in DOMAIN MCFirstWords |-> MCFirstWords[i][1]]

MCWords == {MCFirstWords[i] : i \in DOMAIN MCFirstWords} \cup {<<"a", "a">>, <<"s", "s">>}

\* A new word; the same under a wrong letter; a word again; and a word that cannot be
\* followed, under a letter that is.
MCNewRows ==
  {<<<<"a", "a">>, "a">>, <<<<"a", "a">>, "b">>, <<<<"a", "b">>, "a">>, <<<<"s", "s">>, "b">>}
===============================================================================
