------------------------------- MODULE WordGame -------------------------------
(***************************************************************************)
(* The abstract promise of a Shiritori game, in terms of what is said in the *)
(* chat: a word of the user begins with the letter to follow and was said by *)
(* neither side before in the game; the bot answers with a word that leaves  *)
(* a letter to follow, that begins with the last letter of the user's and    *)
(* that it did not answer with before; and the game is on from its start to  *)
(* its end.  A turn is one step here: there are no handlers, no key, no      *)
(* session that is read and written back.  What the promise depends on is    *)
(* part of the state: that messages are handled one after the other, that no *)
(* word is in the table twice, and that the table has the first letter of    *)
(* every word.  Shiritori implements it.                                     *)
(***************************************************************************)
CONSTANTS
  Words,
  First,     \* the first letter of every word
  Last,      \* the letter to go on with after it, NoLetter when there is none
  NoLetter

VARIABLES
  playing,   \* whether a game is on
  letter,    \* the letter to follow, NoLetter at the beginning
  said,      \* the words of the user in this game
  answered,  \* those of the bot
  orderly,   \* whether messages have been handled one after the other in this game
  unique,    \* whether no word is in the table twice
  truthful   \* whether the table gives every word its first letter

talkVars == <<letter, said, answered>>
tableVars == <<unique, truthful>>
gameVars == <<playing, talkVars, orderly, tableVars>>

Blank == letter' = NoLetter /\ said' = {} /\ answered' = {}

GameInit ==
  /\ playing = FALSE /\ letter = NoLetter /\ said = {} /\ answered = {}
  /\ orderly = TRUE

Start == playing' /\ Blank /\ orderly' \in BOOLEAN /\ UNCHANGED tableVars

End == ~playing' /\ Blank /\ (orderly' => orderly) /\ UNCHANGED tableVars

\* The user says w and the bot answers r.
Turn(w, r) ==
  /\ orderly =>
       /\ playing /\ letter \in {NoLetter, First[w]}
       /\ w \notin said \cup answered
  /\ Last[r] # NoLetter
  /\ unique /\ truthful => First[r] = Last[w]
  /\ orderly /\ unique => r \notin answered
  /\ playing' /\ letter' = Last[r]
  /\ said' = said \cup {w} /\ answered' = answered \cup {r}
  /\ UNCHANGED <<orderly, tableVars>>

\* Out of order, a handler may go back to a session it read before.
GoBack ==
  /\ ~orderly
  /\ playing' /\ UNCHANGED <<said, answered, orderly, tableVars>>

\* Two messages meet.
Meet == ~orderly' /\ UNCHANGED <<playing, talkVars, tableVars>>

\* A word is added to the table.
AddWord ==
  /\ unique' => unique
  /\ truthful' => truthful
  /\ UNCHANGED <<playing, talkVars, orderly>>

GameNext ==
  Start \/ End \/ GoBack \/ Meet \/ AddWord \/ \E w, r \in Words : Turn(w, r)

GameSpec == GameInit /\ [][GameNext]_gameVars
===============================================================================
