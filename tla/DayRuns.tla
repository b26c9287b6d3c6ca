------------------------------- MODULE DayRuns -------------------------------
(***************************************************************************)
(* What the columns of a row of `users` mean, said of a HISTORY: the set of  *)
(* days on which the user was credited and the set of answers that were      *)
(* applied.  StreakLedger promises them, AnswerStream computes them one      *)
(* UPDATE at a time.                                                         *)
(***************************************************************************)
EXTENDS Integers

\* n is the length of the longest run of consecutive days of `days` that ends at
\* `last`, the latest of them; no day at all is a run of 0.
IsRun(days, last, n) ==
  IF days = {}
    THEN n = 0
    ELSE /\ last \in days
         /\ \A d \in days : d <= last
         /\ n > 0
         /\ \A d \in (last - n + 1) .. last : d \in days
         /\ last - n \notin days

\* (theme, n) is the highest counter among `answers`, from 0 up, with a theme it
\* was reached in.
IsBest(answers, theme, n, noTheme) ==
  /\ n >= 0
  /\ \A a \in answers : a.counter <= n
  /\ IF n = 0 THEN theme = noTheme
              ELSE \E a \in answers : a.counter = n /\ a.theme = theme

\* (theme, n) is the lowest counter among `answers`, from 0 down.
IsWorst(answers, theme, n, noTheme) ==
  /\ n <= 0
  /\ \A a \in answers : n <= a.counter
  /\ IF n = 0 THEN theme = noTheme
              ELSE \E a \in answers : a.counter = n /\ a.theme = theme
===============================================================================
