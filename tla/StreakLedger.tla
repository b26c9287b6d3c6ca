----------------------------- MODULE StreakLedger -----------------------------
(***************************************************************************)
(* The abstract promise of the users table: an answer of one user, taken     *)
(* into account on a day no earlier than any day before it, leaves a row     *)
(* that says what the whole history says, and no other row changes.  There   *)
(* is no queue, no retry and no crash here, and nothing is incremental: the  *)
(* row is described from the history.  AnswerStream implements it.           *)
(***************************************************************************)
EXTENDS DayRuns

CONSTANTS Users, Themes, NoTheme, FirstDay

VARIABLES
  table,     \* the users table: the statistics columns of every user
  credited,  \* the days each user was credited with
  seen       \* the answers, [theme, counter], each user was credited for

ledgerVars == <<table, credited, seen>>

Rows ==
  [streak : Nat, lastDoneDay : Nat,
   bestTheme : Themes \cup {NoTheme}, bestCounter : Int,
   worstTheme : Themes \cup {NoTheme}, worstCounter : Int]

\* A row agrees with a history.
RowOf(row, days, answers) ==
  /\ IsRun(days, row.lastDoneDay, row.streak)
  /\ IsBest(answers, row.bestTheme, row.bestCounter, NoTheme)
  /\ IsWorst(answers, row.worstTheme, row.worstCounter, NoTheme)

LedgerInit ==
  /\ credited = [u \in Users |-> {}]
  /\ seen = [u \in Users |-> {}]
  /\ \A u \in Users : RowOf(table[u], credited[u], seen[u])

\* One answer of u is taken into account on day d.
Credit(u, d, answer) ==
  /\ \A e \in credited[u] : e <= d
  /\ credited' = [credited EXCEPT ![u] = @ \cup {d}]
  /\ seen' = [seen EXCEPT ![u] = @ \cup {answer}]
  /\ RowOf(table'[u], credited'[u], seen'[u])
  /\ table' = [table EXCEPT ![u] = table'[u]]

LedgerNext ==
  \E u \in Users : \E d \in credited'[u], answer \in seen'[u] :
    d >= FirstDay /\ Credit(u, d, answer)

LedgerSpec == LedgerInit /\ [][LedgerNext]_ledgerVars
===============================================================================
