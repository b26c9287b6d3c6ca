-------------------------- MODULE AnswerStream_proofs --------------------------
(***************************************************************************)
(* What AnswerStream guarantees for all users, answers, days and bounds.     *)
(***************************************************************************)
EXTENDS AnswerStream, TLAPS

\* The UPDATE writes columns of the columns' types, whatever they were.
LEMMA UpdatedRowIsRow ==
  ASSUME NEW row \in Rows, NEW a \in [user : Users, theme : Themes, counter : Int],
         today \in Nat
  PROVE  UpdatedRow(row, a) \in Rows
<1>1. StreakCase(row) \in Nat
  BY DEF StreakCase, Rows
<1>2. /\ a.theme \in Themes /\ a.counter \in Int
      /\ row.bestTheme \in Themes \cup {NoTheme} /\ row.bestCounter \in Int
      /\ row.worstTheme \in Themes \cup {NoTheme} /\ row.worstCounter \in Int
  BY DEF Rows
<1>3. /\ (IF Improves(row, a) THEN a.theme ELSE row.bestTheme) \in Themes \cup {NoTheme}
      /\ (IF Improves(row, a) THEN a.counter ELSE row.bestCounter) \in Int
  BY <1>2
<1>4. /\ (IF Worsens(row, a) THEN a.theme ELSE row.worstTheme) \in Themes \cup {NoTheme}
      /\ (IF Worsens(row, a) THEN a.counter ELSE row.worstCounter) \in Int
  BY <1>2
<1> QED
  BY <1>1, <1>3, <1>4 DEF UpdatedRow, Rows

\* The types of the stream's state are kept: in particular the record that
\* ApplyAnswer has in hand is always an answer of the topic.
THEOREM TypeCorrect == Spec => []TypeOK
<1> USE DaysAssumption, BoundsAssumption, AnswersAssumption
<1>1. Init => TypeOK
  BY DEF Init, TypeOK, NewRow, Rows
<1>2. TypeOK /\ [Next]_vars => TypeOK'
  <2> SUFFICES ASSUME TypeOK, [Next]_vars PROVE TypeOK'
    OBVIOUS
  <2> USE DEF TypeOK
  <2>1. ASSUME pc = "update", ExecUpdate(log[position])
        PROVE  /\ table' \in [Users -> Rows]
               /\ credited' \in [Users -> SUBSET Nat]
               /\ seen' \in [Users -> SUBSET Stats]
    <3> DEFINE a == log[position]
    <3>1. a \in [user : Users, theme : Themes, counter : Int]
      <4>1. a \in Answers
        BY <2>1
      <4> QED
        BY <4>1, AnswersAssumption
    <3>2. \A row \in Rows : UpdatedRow(row, a) \in Rows
      BY <3>1, UpdatedRowIsRow
    <3>3. StatsOf(a) \in Stats
      BY <3>1 DEF StatsOf, Stats
    <3> QED
      BY <2>1, <3>1, <3>2, <3>3 DEF ExecUpdate
  <2>0. /\ [settled EXCEPT !.applied = @ \cup {position}]
              \in [applied : SUBSET Nat, failed : SUBSET Nat]
        /\ [settled EXCEPT !.failed = @ \cup {position}]
              \in [applied : SUBSET Nat, failed : SUBSET Nat]
        /\ faults + 1 \in Nat
    <3>1. position \in Nat /\ faults \in Nat
      OBVIOUS
    <3> HIDE DEF TypeOK
    <3>2. settled \in [applied : SUBSET Nat, failed : SUBSET Nat]
      BY DEF TypeOK
    <3> QED
      BY <3>1, <3>2
  <2>2. CASE UNCHANGED vars
    BY <2>2 DEF vars, gatewayVars, consumerVars, rowVars
  <2>3. CASE NextDay
    BY <2>3 DEF NextDay, gatewayVars, consumerVars, rowVars
  <2>4. ASSUME NEW answer \in Answers, UpdateByAnswer(answer) PROVE TypeOK'
    BY <2>4 DEF UpdateByAnswer, gatewayVars, consumerVars, rowVars
  <2>5. CASE Deliver
    BY <2>5 DEF Deliver, consumerVars, rowVars
  <2>6. CASE DeliverUnacknowledged
    BY <2>6 DEF DeliverUnacknowledged, Fault, gatewayVars, consumerVars, rowVars
  <2>7. CASE GiveUp
    BY <2>7 DEF GiveUp, Fault, consumerVars, rowVars
  <2>8. CASE GatewayCrash
    BY <2>8 DEF GatewayCrash, Fault, consumerVars, rowVars
  <2>9. CASE PublishUnreadable
    BY <2>9 DEF PublishUnreadable, consumerVars, rowVars
  <2>10. CASE Fetch
    BY <2>10 DEF Fetch, gatewayVars, rowVars
  <2>11. CASE SkipUnreadable
    BY <2>11 DEF SkipUnreadable, Fault, gatewayVars, rowVars
  <2>12. CASE UpdateStreak
    <3>1. settled' \in [applied : SUBSET Nat, failed : SUBSET Nat]
      BY <2>0, <2>12 DEF UpdateStreak
    <3>2. UNCHANGED <<day, today, pending, sent, log, committed, position, faults>>
      BY <2>12 DEF UpdateStreak, gatewayVars
    <3> QED
      BY <2>1, <2>12, <3>1, <3>2 DEF UpdateStreak
  <2>13. CASE UpdateStreakFails
    <3>1. settled' \in [applied : SUBSET Nat, failed : SUBSET Nat] /\ faults' \in Nat
      <4> HIDE DEF TypeOK
      <4> QED
        BY <2>0, <2>13 DEF UpdateStreakFails, Fault
    <3>2. pc' = "fetch" /\ UNCHANGED <<day, today, pending, sent, log, committed, position,
                                      table, credited, seen>>
      BY <2>13 DEF UpdateStreakFails, gatewayVars, rowVars
    <3> QED
      BY <3>1, <3>2
  <2>14. CASE UpdateStreakUnanswered
    <3> HIDE DEF TypeOK
    <3>1. /\ pc = "update" /\ ExecUpdate(log[position]) /\ pc' = "fetch"
          /\ UNCHANGED <<day, today, pending, sent, log, committed, position>>
      BY <2>14 DEF UpdateStreakUnanswered, gatewayVars
    <3>2. settled' \in [applied : SUBSET Nat, failed : SUBSET Nat] /\ faults' \in Nat
      BY <2>0, <2>14 DEF UpdateStreakUnanswered, Fault
    <3>3. /\ table' \in [Users -> Rows] /\ credited' \in [Users -> SUBSET Nat]
          /\ seen' \in [Users -> SUBSET Stats]
      BY <2>1, <3>1
    <3>4. /\ day' \in Nat /\ today' \in Nat /\ pending' \in Seq(Answers) /\ sent' \in Nat
          /\ log' \in Seq(Answers \cup {Unreadable})
          /\ position' \in 0 .. Len(log') /\ committed' \in 0 .. position'
      BY <3>1 DEF TypeOK
    <3> QED
      BY <3>1, <3>2, <3>3, <3>4 DEF TypeOK
  <2>15. CASE Commit
    <3>1. /\ committed' = position /\ pc' = "fetch"
          /\ UNCHANGED <<day, pending, sent, log, position, today, table, faults,
                         credited, seen, settled>>
      BY <2>15 DEF Commit, gatewayVars, rowVars
    <3> QED
      BY <3>1
  <2>16. CASE CommitFails
    <3>1. /\ pc' = "fetch" /\ faults' = faults + 1
          /\ UNCHANGED <<day, pending, sent, log, committed, position, today, table,
                         credited, seen, settled>>
      BY <2>16 DEF CommitFails, Fault, gatewayVars, rowVars
    <3> QED
      BY <3>1
  <2>17. CASE Restart
    <3>1. /\ position' = committed /\ pc' = "fetch" /\ faults' = faults + 1
          /\ UNCHANGED <<day, pending, sent, log, committed, today, table,
                         credited, seen, settled>>
      BY <2>17 DEF Restart, StartOffset, Fault, gatewayVars, rowVars
    <3>2. position' \in 0 .. Len(log') /\ committed' \in 0 .. position' /\ faults' \in Nat
      BY <3>1
    <3>3. pc' = "fetch"
      BY <3>1
    <3>4. /\ day' \in Nat /\ today' \in Nat /\ pending' \in Seq(Answers) /\ sent' \in Nat
          /\ log' \in Seq(Answers \cup {Unreadable})
      BY <3>1
    <3>5. /\ table' \in [Users -> Rows] /\ credited' \in [Users -> SUBSET Nat]
          /\ seen' \in [Users -> SUBSET Stats]
          /\ settled' \in [applied : SUBSET Nat, failed : SUBSET Nat]
      BY <3>1
    <3>6. pc' # "fetch" => position' > 0 /\ log'[position'] \in Answers
      BY <3>3
    <3>7. pc' \in {"fetch", "update", "commit"}
      BY <3>3
    <3> HIDE DEF TypeOK
    <3> QED
      BY <3>2, <3>4, <3>5, <3>6, <3>7, Zenon DEF TypeOK
  <2> QED
    BY <2>2, <2>3, <2>4, <2>5, <2>6, <2>7, <2>8, <2>9, <2>10, <2>11, <2>12, <2>13,
       <2>14, <2>15, <2>16, <2>17 DEF Next, Produce, Consume
<1> QED
  BY <1>1, <1>2, PTL DEF Spec

-------------------------------------------------------------------------------

\* ApplyAnswer walks over no record it has not decided on: everything before the
\* reader's offset, hence everything before the committed one, was executed,
\* reported an error, or cannot be read; the one record in hand is excepted.
NothingPassedOver ==
  /\ \A i \in 1 .. position : IsSettled(i) \/ (i = position /\ pc = "update")
  /\ \A i \in 1 .. committed : IsSettled(i)

\* No record of the topic is passed over: the offset a restart goes back to has
\* only settled records before it, however failures, restarts and commits are
\* interleaved.
THEOREM NoRecordPassedOver == Spec => []NothingPassedOver
<1> USE DEF TypeOK
<1>1. Init => NothingPassedOver
  BY DEF Init, NothingPassedOver
<1>2. TypeOK /\ NothingPassedOver /\ [Next]_vars => NothingPassedOver'
  <2> SUFFICES ASSUME TypeOK, NothingPassedOver, [Next]_vars PROVE NothingPassedOver'
    OBVIOUS
  <2> USE DEF NothingPassedOver
  <2>1. ASSUME UNCHANGED <<committed, position, settled>>,
               log' = log \/ (\E e : log' = Append(log, e)),
               pc' = pc
        PROVE  NothingPassedOver'
    <3>1. ASSUME NEW i \in 1 .. position PROVE log'[i] = log[i]
      <4>1. CASE log' = log
        BY <4>1
      <4>2. CASE \E e : log' = Append(log, e)
        <5>1. PICK e : log' = Append(log, e)
          BY <4>2
        <5>2. log \in Seq(Answers \cup {Unreadable}) /\ i \in 1 .. Len(log)
          OBVIOUS
        <5> QED
          BY <5>1, <5>2
      <4> QED
        BY <2>1, <4>1, <4>2
    <3> HIDE DEF TypeOK, NothingPassedOver
    <3>2. position' = position /\ committed' = committed /\ settled' = settled /\ pc' = pc
      BY <2>1
    <3>3. ASSUME NEW i \in 1 .. position, IsSettled(i) PROVE IsSettled(i)'
      BY <3>1, <3>2, <3>3 DEF IsSettled
    <3>4. \A i \in 1 .. position : IsSettled(i)' \/ (i = position /\ pc = "update")
      BY <3>3 DEF NothingPassedOver
    <3>5. 1 .. committed \subseteq 1 .. position
      BY DEF TypeOK
    <3>6. \A i \in 1 .. committed : IsSettled(i)'
      BY <3>3, <3>5 DEF NothingPassedOver
    <3> QED
      BY <3>2, <3>4, <3>6 DEF NothingPassedOver
  <2>2. CASE UNCHANGED vars
    BY <2>1, <2>2 DEF vars, consumerVars
  <2>3. CASE NextDay
    BY <2>1, <2>3 DEF NextDay, consumerVars
  <2>4. CASE Produce
    BY <2>1, <2>4 DEF Produce, UpdateByAnswer, Deliver, DeliverUnacknowledged, GiveUp,
                     GatewayCrash, PublishUnreadable, gatewayVars, consumerVars
  <2>5. CASE Fetch
    BY <2>5 DEF Fetch, IsSettled
  <2>6. CASE SkipUnreadable
    BY <2>6 DEF SkipUnreadable, IsSettled
  <2>7. CASE UpdateStreak
    BY <2>7 DEF UpdateStreak, IsSettled
  <2>8. CASE UpdateStreakFails
    BY <2>8 DEF UpdateStreakFails, IsSettled
  <2>9. CASE UpdateStreakUnanswered
    BY <2>9 DEF UpdateStreakUnanswered, IsSettled
  <2>10. CASE Commit
    BY <2>10 DEF Commit, IsSettled
  <2>11. CASE CommitFails
    BY <2>11 DEF CommitFails, IsSettled
  <2>12. CASE Restart
    BY <2>12 DEF Restart, StartOffset, IsSettled
  <2> QED
    BY <2>2, <2>3, <2>4, <2>5, <2>6, <2>7, <2>8, <2>9, <2>10, <2>11, <2>12
       DEF Next, Consume
<1> QED
  BY <1>1, <1>2, TypeCorrect, PTL DEF Spec
-------------------------------------------------------------------------------
(* The UPDATE computes from the row what IsRun, IsBest and IsWorst say of the   *)
(* history.                                                                    *)

\* The CASE expression of the streak, one day at a time, keeps the run.
LEMMA RunGrows ==
  ASSUME NEW days \in SUBSET Nat, NEW last \in Nat, NEW n \in Nat,
         IsRun(days, last, n), days = {} => last = 0,
         NEW t \in Nat \ {0}, \A d \in days : d > 0 /\ d <= t
  PROVE  IsRun(days \cup {t}, t,
               CASE last = t -> n [] last = t - 1 -> n + 1 [] OTHER -> 1)
<1> DEFINE k == CASE last = t -> n [] last = t - 1 -> n + 1 [] OTHER -> 1
<1>1. CASE days = {}
  <2>1. k = 1
    BY <1>1 DEF IsRun
  <2> QED
    BY <1>1, <2>1 DEF IsRun
<1>2. CASE days # {} /\ last = t
  <2>1. k = n /\ days \cup {t} = days
    BY <1>2 DEF IsRun
  <2> QED
    BY <1>2, <2>1
<1>3. CASE days # {} /\ last = t - 1
  <2>1. k = n + 1
    BY <1>3
  <2>2. \A d \in (t - k + 1) .. t : d \in days \cup {t}
    BY <1>3, <2>1 DEF IsRun
  <2>3. t - k \notin days \cup {t}
    BY <1>3, <2>1 DEF IsRun
  <2> QED
    BY <1>3, <2>1, <2>2, <2>3 DEF IsRun
<1>4. CASE days # {} /\ last # t /\ last # t - 1
  <2>1. k = 1
    BY <1>4
  <2>2. t - 1 \notin days
    BY <1>4 DEF IsRun
  <2> QED
    BY <1>4, <2>1, <2>2 DEF IsRun
<1> QED
  BY <1>1, <1>2, <1>3, <1>4

\* The invariant behind the theorems about the rows: no user was credited with a day
\* after the last one UpdateStreak read from the clock, a row that was never updated
\* still has its default, and every row says what its history says.
RowsAgree ==
  /\ FirstDay <= today /\ today <= day
  /\ \A u \in Users : \A d \in credited[u] : d > 0 /\ d <= today
  /\ \A u \in Users : credited[u] = {} => table[u].lastDoneDay = 0
  /\ StreakIsRun
  /\ ThemesAreExtremes

\* One UPDATE for the answer in hand: the row of its user agrees with the longer
\* history, and every other row is as it was.
LEMMA UpdateKeepsRows ==
  ASSUME TypeOK, RowsAgree, NEW a \in Answers, ExecUpdate(a)
  PROVE  /\ table' = [table EXCEPT ![a.user] = table'[a.user]]
         /\ table'[a.user].lastDoneDay = today
         /\ IsRun(credited'[a.user], table'[a.user].lastDoneDay, table'[a.user].streak)
         /\ IsBest(seen'[a.user], table'[a.user].bestTheme, table'[a.user].bestCounter,
                   NoTheme)
         /\ IsWorst(seen'[a.user], table'[a.user].worstTheme, table'[a.user].worstCounter,
                    NoTheme)
<1> DEFINE u == a.user
           row == table[u]
           new == UpdatedRow(row, a)
<1>1. /\ u \in Users /\ a.theme \in Themes /\ a.counter \in Int
      /\ row \in Rows /\ credited[u] \in SUBSET Nat /\ seen[u] \in SUBSET Stats
  BY AnswersAssumption DEF TypeOK
<1>2. /\ table' = [table EXCEPT ![u] = new] /\ table'[u] = new
      /\ credited'[u] = credited[u] \cup {today}
      /\ seen'[u] = seen[u] \cup {StatsOf(a)}
  BY <1>1 DEF TypeOK, ExecUpdate
<1>3. IsRun(credited[u] \cup {today}, today, StreakCase(row))
  <2> DEFINE days == credited[u]
             last == row.lastDoneDay
             n == row.streak
  <2>1. /\ days \in SUBSET Nat /\ last \in Nat /\ n \in Nat
        /\ IsRun(days, last, n) /\ (days = {} => last = 0)
        /\ today \in Nat \ {0}
        /\ \A d \in days : d > 0 /\ d <= today
    BY <1>1, DaysAssumption DEF TypeOK, RowsAgree, StreakIsRun, Rows
  <2>2. StreakCase(row)
          = CASE last = today -> n [] last = today - 1 -> n + 1 [] OTHER -> 1
    BY DEF StreakCase
  <2> HIDE DEF days, last, n
  <2>3. IsRun(days \cup {today}, today,
              CASE last = today -> n [] last = today - 1 -> n + 1 [] OTHER -> 1)
    BY <2>1, RunGrows
  <2> QED
    BY <2>2, <2>3 DEF days
<1>4. StatsOf(a).counter = a.counter /\ StatsOf(a).theme = a.theme
  BY DEF StatsOf
<1>5. IsBest(seen'[u], new.bestTheme, new.bestCounter, NoTheme)
  <2>1. /\ IsBest(seen[u], row.bestTheme, row.bestCounter, NoTheme)
        /\ row.bestCounter \in Int /\ \A e \in seen[u] : e.counter \in Int
    BY <1>1 DEF RowsAgree, ThemesAreExtremes, Rows, Stats
  <2>2. CASE Improves(row, a)
    BY <1>1, <1>2, <1>4, <2>1, <2>2 DEF Improves, UpdatedRow, IsBest
  <2>3. CASE ~Improves(row, a)
    BY <1>1, <1>2, <1>4, <2>1, <2>3 DEF Improves, UpdatedRow, IsBest
  <2> QED
    BY <2>2, <2>3
<1>6. IsWorst(seen'[u], new.worstTheme, new.worstCounter, NoTheme)
  <2>1. /\ IsWorst(seen[u], row.worstTheme, row.worstCounter, NoTheme)
        /\ row.worstCounter \in Int /\ \A e \in seen[u] : e.counter \in Int
    BY <1>1 DEF RowsAgree, ThemesAreExtremes, Rows, Stats
  <2>2. CASE Worsens(row, a)
    BY <1>1, <1>2, <1>4, <2>1, <2>2 DEF Worsens, UpdatedRow, IsWorst
  <2>3. CASE ~Worsens(row, a)
    BY <1>1, <1>2, <1>4, <2>1, <2>3 DEF Worsens, UpdatedRow, IsWorst
  <2> QED
    BY <2>2, <2>3
<1>7. new.lastDoneDay = today /\ new.streak = StreakCase(row)
  BY DEF UpdatedRow
<1> QED
  BY <1>2, <1>3, <1>5, <1>6, <1>7
\* Every step either executes one UPDATE, for the answer in hand, or leaves the rows
\* and their history alone.
LEMMA OnlyUpdatesTouchRows ==
  ASSUME TypeOK, [Next]_vars
  PROVE  \/ pc = "update" /\ log[position] \in Answers /\ ExecUpdate(log[position])
            /\ UNCHANGED <<today, day>>
         \/ UNCHANGED rowVars /\ today' \in {today, day} /\ day' \in {day, day + 1}
<1>1. CASE UpdateStreak \/ UpdateStreakUnanswered
  BY <1>1 DEF TypeOK, UpdateStreak, UpdateStreakUnanswered
<1>2. CASE UNCHANGED vars \/ NextDay
  BY <1>2 DEF vars, NextDay, consumerVars, rowVars
<1>3. CASE Produce
  BY <1>3 DEF Produce, UpdateByAnswer, Deliver, DeliverUnacknowledged, GiveUp,
              GatewayCrash, PublishUnreadable, consumerVars
<1>4. CASE Fetch \/ SkipUnreadable \/ UpdateStreakFails \/ Commit \/ CommitFails \/ Restart
  BY <1>4 DEF Fetch, SkipUnreadable, UpdateStreakFails, Commit, CommitFails, Restart
<1> QED
  BY <1>1, <1>2, <1>3, <1>4 DEF Next, Consume

\* RowsAgree is inductive.
THEOREM RowsAgreeWithHistory == Spec => []RowsAgree
<1>1. Init => RowsAgree
  BY DaysAssumption DEF Init, RowsAgree, StreakIsRun, ThemesAreExtremes, NewRow, IsRun,
                        IsBest, IsWorst
<1>2. TypeOK /\ RowsAgree /\ [Next]_vars => RowsAgree'
  <2> SUFFICES ASSUME TypeOK, RowsAgree, [Next]_vars PROVE RowsAgree'
    OBVIOUS
  <2>1. CASE UNCHANGED rowVars /\ today' \in {today, day} /\ day' \in {day, day + 1}
    <3>1. today \in Nat /\ day \in Nat /\ FirstDay \in Nat
          /\ credited \in [Users -> SUBSET Nat]
      BY DaysAssumption DEF TypeOK
    <3>2. FirstDay <= today' /\ today' <= day' /\ today <= today'
      BY <2>1, <3>1 DEF RowsAgree
    <3>3. \A u \in Users : \A d \in credited'[u] : d > 0 /\ d <= today'
      <4> SUFFICES ASSUME NEW u \in Users, NEW d \in credited[u]
                   PROVE  d > 0 /\ d <= today'
        BY <2>1 DEF rowVars
      <4>1. d \in Nat /\ d > 0 /\ d <= today
        BY <3>1 DEF RowsAgree
      <4>2. today' \in Nat
        BY <2>1, <3>1
      <4> QED
        BY <3>1, <3>2, <4>1, <4>2
    <3>4. (StreakIsRun /\ ThemesAreExtremes)'
      BY <2>1 DEF RowsAgree, StreakIsRun, ThemesAreExtremes, rowVars
    <3>5. \A u \in Users : credited'[u] = {} => table'[u].lastDoneDay = 0
      BY <2>1 DEF RowsAgree, rowVars
    <3> QED
      BY <3>2, <3>3, <3>4, <3>5 DEF RowsAgree
  <2>2. ASSUME NEW a \in Answers, ExecUpdate(a), UNCHANGED <<today, day>>
        PROVE  RowsAgree'
    <3>1. /\ a.user \in Users
          /\ today \in Nat /\ FirstDay \in Nat \ {0} /\ FirstDay <= today
          /\ table \in [Users -> Rows] /\ credited \in [Users -> SUBSET Nat]
          /\ seen \in [Users -> SUBSET Stats]
      BY DaysAssumption, AnswersAssumption DEF TypeOK, RowsAgree
    <3>2. /\ credited' = [credited EXCEPT ![a.user] = @ \cup {today}]
          /\ seen' = [seen EXCEPT ![a.user] = @ \cup {StatsOf(a)}]
          /\ table' = [table EXCEPT ![a.user] = table'[a.user]]
          /\ table'[a.user].lastDoneDay = today
      BY <2>2, UpdateKeepsRows DEF ExecUpdate
    <3>3. \A u \in Users : u # a.user =>
            table'[u] = table[u] /\ credited'[u] = credited[u] /\ seen'[u] = seen[u]
      BY <3>1, <3>2
    <3>4. credited'[a.user] = credited[a.user] \cup {today}
      BY <3>1, <3>2
    <3>5. StreakIsRun'
      BY <2>2, <3>3, UpdateKeepsRows DEF RowsAgree, StreakIsRun
    <3>6. ThemesAreExtremes'
      BY <2>2, <3>3, UpdateKeepsRows DEF RowsAgree, ThemesAreExtremes
    <3>7. \A u \in Users : \A d \in credited'[u] : d > 0 /\ d <= today'
      BY <2>2, <3>1, <3>3, <3>4 DEF RowsAgree
    <3>8. \A u \in Users : credited'[u] = {} => table'[u].lastDoneDay = 0
      BY <3>3, <3>4 DEF RowsAgree
    <3> QED
      BY <2>2, <3>5, <3>6, <3>7, <3>8 DEF RowsAgree
  <2> QED
    BY <2>1, <2>2, OnlyUpdatesTouchRows
<1> QED
  BY <1>1, <1>2, TypeCorrect, PTL DEF Spec

\* In every reachable state the streak of every user is the run of consecutive days
\* that ends at the last credited day, for every number of users, days and faults.
THEOREM StreakIsTheRun == Spec => []StreakIsRun
<1>1. RowsAgree => StreakIsRun
  BY DEF RowsAgree
<1> QED
  BY <1>1, RowsAgreeWithHistory, PTL

\* The best and worst themes are those of the extreme counters that were applied.
THEOREM ThemesAreTheExtremes == Spec => []ThemesAreExtremes
<1>1. RowsAgree => ThemesAreExtremes
  BY DEF RowsAgree
<1> QED
  BY <1>1, RowsAgreeWithHistory, PTL

\* Executing an UPDATE that adds nothing to the history leaves every row as it was.
THEOREM RedeliveryIsIdempotent == Spec => RedeliveryChangesNothing
<1>1. TypeOK /\ RowsAgree /\ [Next]_vars
        => [credited' = credited /\ seen' = seen => table' = table]_vars
  <2> SUFFICES ASSUME TypeOK, RowsAgree, [Next]_vars, credited' = credited, seen' = seen
               PROVE  table' = table
    OBVIOUS
  <2>1. CASE UNCHANGED rowVars
    BY <2>1 DEF rowVars
  <2>2. ASSUME NEW a \in Answers, ExecUpdate(a) PROVE table' = table
    <3> DEFINE u == a.user
               row == table[u]
    <3>1. /\ u \in Users /\ a.counter \in Int /\ row \in Rows
          /\ credited[u] \in SUBSET Nat /\ today \in Nat
          /\ StatsOf(a).counter = a.counter
      BY AnswersAssumption DEF TypeOK, StatsOf
    <3>2. today \in credited[u] /\ StatsOf(a) \in seen[u]
      BY <2>2, <3>1 DEF ExecUpdate, TypeOK
    <3>3. row.lastDoneDay = today
      <4>1. /\ row.lastDoneDay \in credited[u] /\ today <= row.lastDoneDay
            /\ row.lastDoneDay <= today
        BY <3>1, <3>2 DEF RowsAgree, StreakIsRun, IsRun
      <4> QED
        BY <3>1, <4>1
    <3>4. ~Improves(row, a) /\ ~Worsens(row, a)
      BY <3>1, <3>2 DEF RowsAgree, ThemesAreExtremes, IsBest, IsWorst, Improves, Worsens,
                        Rows
    <3>5. UpdatedRow(row, a) = row
      BY <3>1, <3>3, <3>4 DEF UpdatedRow, StreakCase, Rows
    <3> QED
      BY <2>2, <3>1, <3>5 DEF ExecUpdate, TypeOK
  <2> QED
    BY <2>1, <2>2, OnlyUpdatesTouchRows
<1> QED
  BY <1>1, TypeCorrect, RowsAgreeWithHistory, PTL DEF Spec, RedeliveryChangesNothing

\* The stream, with its queue, retries, restarts and midnights, implements the ledger:
\* each executed UPDATE is one Credit, and every other step is a stutter.
THEOREM StreamImplementsLedger == Spec => ImplementsLedger
<1>1. Init => Ledger!LedgerInit
  BY DEF Init, Ledger!LedgerInit, Ledger!RowOf, NewRow, Ledger!IsRun, Ledger!IsBest,
         Ledger!IsWorst
<1>2. TypeOK /\ RowsAgree /\ [Next]_vars => [Ledger!LedgerNext]_(Ledger!ledgerVars)
  <2> SUFFICES ASSUME TypeOK, RowsAgree, [Next]_vars
               PROVE  [Ledger!LedgerNext]_(Ledger!ledgerVars)
    OBVIOUS
  <2>1. CASE UNCHANGED rowVars
    BY <2>1 DEF rowVars, Ledger!ledgerVars
  <2>2. ASSUME NEW a \in Answers, ExecUpdate(a) PROVE Ledger!LedgerNext
    <3>1. /\ a.user \in Users /\ FirstDay <= today
          /\ \A d \in credited[a.user] : d <= today
          /\ credited \in [Users -> SUBSET Nat] /\ seen \in [Users -> SUBSET Stats]
      BY AnswersAssumption DEF TypeOK, RowsAgree
    <3>2. /\ credited' = [credited EXCEPT ![a.user] = @ \cup {today}]
          /\ seen' = [seen EXCEPT ![a.user] = @ \cup {StatsOf(a)}]
      BY <2>2 DEF ExecUpdate
    <3>3. today \in credited'[a.user] /\ StatsOf(a) \in seen'[a.user]
      BY <3>1, <3>2
    <3>4. Ledger!RowOf(table'[a.user], credited'[a.user], seen'[a.user])
      BY <2>2, UpdateKeepsRows
         DEF Ledger!RowOf, Ledger!IsRun, Ledger!IsBest, Ledger!IsWorst, IsRun, IsBest, IsWorst
    <3>5. table' = [table EXCEPT ![a.user] = table'[a.user]]
      BY <2>2, UpdateKeepsRows
    <3>6. Ledger!Credit(a.user, today, StatsOf(a))
      BY <3>1, <3>2, <3>4, <3>5 DEF Ledger!Credit
    <3>7. today >= FirstDay
      BY <3>1, DaysAssumption DEF TypeOK
    <3> QED
      BY <3>1, <3>3, <3>6, <3>7 DEF Ledger!LedgerNext
  <2> QED
    BY <2>1, <2>2, OnlyUpdatesTouchRows
<1> QED
  BY <1>1, <1>2, TypeCorrect, RowsAgreeWithHistory, PTL
     DEF Spec, ImplementsLedger, Ledger!LedgerSpec
-------------------------------------------------------------------------------
(* The topic of the answers.                                                 *)

\* The topic only grows, and only while the loop stands still.
LEMMA TopicGrows ==
  ASSUME TypeOK, [Next]_vars
  PROVE  \/ log' = log
         \/ /\ Len(log') > Len(log) /\ \A i \in 1 .. Len(log) : log'[i] = log[i]
            /\ UNCHANGED <<committed, settled>>
<1>1. CASE UNCHANGED log
  BY <1>1
<1>2. ASSUME NEW e \in Answers \cup {Unreadable}, log' = Append(log, e)
      PROVE  Len(log') > Len(log) /\ \A i \in 1 .. Len(log) : log'[i] = log[i]
  BY <1>2 DEF TypeOK
<1>3. CASE Deliver \/ DeliverUnacknowledged
  <2>1. pending \in Seq(Answers) /\ pending # <<>>
    BY <1>3 DEF Deliver, DeliverUnacknowledged, TypeOK
  <2>2. Head(pending) \in Answers
    BY <2>1
  <2>3. log' = Append(log, Head(pending)) /\ UNCHANGED <<committed, settled>>
    BY <1>3 DEF Deliver, DeliverUnacknowledged, consumerVars
  <2> QED
    BY <1>2, <2>2, <2>3
<1>4. CASE PublishUnreadable
  BY <1>2, <1>4 DEF PublishUnreadable, consumerVars
<1>5. CASE \/ NextDay \/ Consume \/ Restart \/ UNCHANGED vars
           \/ \E answer \in Answers : UpdateByAnswer(answer)
           \/ GiveUp \/ GatewayCrash
  BY <1>5 DEF NextDay, Consume, Restart, UpdateByAnswer, GiveUp, GatewayCrash, Fetch,
     SkipUnreadable, UpdateStreak, UpdateStreakFails, UpdateStreakUnanswered, Commit,
     CommitFails, vars
<1> QED
  BY <1>3, <1>4, <1>5 DEF Next, Produce

\* The loop, with its failures, commits and restarts, delivers the topic at least once and
\* in order: an UPDATE that is executed or fails for the first time finishes its record,
\* a commit advances over finished ones, a redelivery is a stutter.
THEOREM StreamImplementsDelivery == Spec => ImplementsDelivery
<1>1. Init => Topic!DeliveryInit
  BY DEF Init, Topic!DeliveryInit
<1>2. TypeOK /\ NothingPassedOver /\ [Next]_vars
        => [Topic!DeliveryNext]_(Topic!deliveryVars)
  <2> SUFFICES ASSUME TypeOK, NothingPassedOver, [Next]_vars
               PROVE  [Topic!DeliveryNext]_(Topic!deliveryVars)
    OBVIOUS
  <2> DEFINE Decided == settled.applied \cup settled.failed
  <2>1. \A i \in Nat : IsSettled(i) <=> Topic!IsDone(i)
    BY DEF IsSettled, Topic!IsDone
  <2>2. CASE log' # log
    BY <2>2, TopicGrows DEF Topic!DeliveryNext, Topic!Store
  <2>3. ASSUME pc = "update", Decided' = Decided \cup {position}, UNCHANGED <<log, committed>>
        PROVE  [Topic!DeliveryNext]_(Topic!deliveryVars)
    <3>1. position \in 1 .. Len(log)
      BY <2>3 DEF TypeOK
    <3>2. \A j \in 1 .. position - 1 : Topic!IsDone(j)
      BY <2>1, <3>1 DEF NothingPassedOver
    <3>3. CASE position \in Decided
      BY <2>3, <3>3 DEF Topic!deliveryVars
    <3>4. CASE position \notin Decided
      BY <2>3, <3>1, <3>2, <3>4 DEF Topic!DeliveryNext, Topic!Finish
    <3> QED
      BY <3>3, <3>4
  <2>4. ASSUME NEW to \in committed .. Len(log), committed' = to, UNCHANGED <<log, settled>>,
               \A i \in 1 .. to : IsSettled(i)
        PROVE  [Topic!DeliveryNext]_(Topic!deliveryVars)
    <3>1. committed \in Nat /\ Len(log) \in Nat
      BY DEF TypeOK
    <3>2. CASE to = committed
      BY <2>4, <3>2 DEF Topic!deliveryVars
    <3>3. CASE to # committed
      <4>1. to \in committed + 1 .. Len(log) /\ \A i \in 1 .. to : i \in Nat
        BY <3>1, <3>3
      <4> QED
        BY <2>1, <2>4, <4>1 DEF Topic!DeliveryNext, Topic!Advance
    <3> QED
      BY <3>2, <3>3
  <2>5. CASE UNCHANGED <<log, committed, settled>>
    BY <2>5 DEF Topic!deliveryVars
  <2>6. CASE SkipUnreadable /\ log' = log
    <3>1. /\ position + 1 \in committed .. Len(log) /\ pc = "fetch"
          /\ log[position + 1] = Unreadable /\ UNCHANGED settled
          /\ committed' = position + 1 \/ committed' = committed
      BY <2>6 DEF SkipUnreadable, TypeOK
    <3>2. \A i \in 1 .. position + 1 : IsSettled(i)
      BY <3>1 DEF NothingPassedOver, IsSettled, TypeOK
    <3> QED
      BY <2>4, <2>5, <2>6, <3>1, <3>2
  <2>7. CASE UpdateStreak \/ UpdateStreakFails \/ UpdateStreakUnanswered
    BY <2>3, <2>7 DEF UpdateStreak, UpdateStreakFails, UpdateStreakUnanswered, TypeOK
  <2>8. CASE Commit
    <3>1. /\ position \in committed .. Len(log) /\ committed' = position
          /\ UNCHANGED <<log, settled>>
      BY <2>8 DEF Commit, TypeOK
    <3>2. \A i \in 1 .. position : IsSettled(i)
      BY <2>8 DEF Commit, NothingPassedOver
    <3> QED
      BY <2>4, <3>1, <3>2
  <2>9. CASE NextDay \/ Produce \/ Fetch \/ CommitFails \/ Restart \/ UNCHANGED vars
    <3>1. UNCHANGED <<committed, settled>>
      BY <2>9 DEF NextDay, Produce, Fetch, CommitFails, Restart, UpdateByAnswer, Deliver,
         DeliverUnacknowledged, GiveUp, GatewayCrash, PublishUnreadable, consumerVars, vars
    <3> QED
      BY <2>2, <2>5, <3>1
  <2> QED
    BY <2>2, <2>6, <2>7, <2>8, <2>9 DEF Next, Consume
<1> QED
  BY <1>1, <1>2, TypeCorrect, NoRecordPassedOver, PTL
     DEF Spec, ImplementsDelivery, Topic!DeliverySpec

-------------------------------------------------------------------------------
(* How far the loop is from the end of the topic: why EveryRecordIsSettled holds. *)

\* The steps ApplyAnswer still makes when nothing else happens.
Backlog ==
  3 * (Len(log) - position) + (CASE pc = "fetch" -> 0 [] pc = "update" -> 2 [] pc = "commit" -> 1)

\* Every pass of ApplyAnswer comes nearer to the end of the topic, whatever its calls return:
\* no step of the loop repeats a record, and no error makes it wait.  Only a new record or a
\* restart, which is a fault, puts the end off; and at the end every record has been settled.
\* With the fairness of Consume this is the argument for EveryRecordIsSettled.
THEOREM EveryPassShrinksBacklog ==
  Spec => /\ [](/\ Backlog \in Nat
                /\ Backlog = 0 => \A i \in 1 .. Len(log) : IsSettled(i))
          /\ [][/\ Consume => Backlog' < Backlog
                /\ Backlog' > Backlog => Len(log') > Len(log) \/ faults' = faults + 1]_vars
<1>1. ASSUME TypeOK PROVE Backlog \in Nat /\ (Backlog = 0 => position = Len(log) /\ pc = "fetch")
  <2>1. Len(log) \in Nat /\ position \in Nat /\ position <= Len(log)
    BY <1>1 DEF TypeOK
  <2>2. CASE pc = "fetch"
    BY <2>1, <2>2 DEF Backlog
  <2>3. CASE pc = "update"
    BY <2>1, <2>3 DEF Backlog
  <2>4. CASE pc = "commit"
    BY <2>1, <2>4 DEF Backlog
  <2> QED
    BY <1>1, <2>2, <2>3, <2>4 DEF TypeOK
<1>2. ASSUME NothingPassedOver, position = Len(log), pc = "fetch"
      PROVE  \A i \in 1 .. Len(log) : IsSettled(i)
  BY <1>2 DEF NothingPassedOver
<1>3. ASSUME TypeOK, Consume PROVE Backlog' \in Int /\ Backlog' < Backlog
  <2>1. Len(log) \in Nat /\ position \in Nat /\ position <= Len(log)
    BY <1>3 DEF TypeOK
  <2>2. CASE Fetch \/ SkipUnreadable
    BY <2>1, <2>2 DEF Fetch, SkipUnreadable, Backlog
  <2>3. CASE UpdateStreak \/ UpdateStreakFails \/ UpdateStreakUnanswered
    BY <2>1, <2>3 DEF UpdateStreak, UpdateStreakFails, UpdateStreakUnanswered, Backlog
  <2>4. CASE Commit \/ CommitFails
    BY <2>1, <2>4 DEF Commit, CommitFails, Backlog
  <2> QED
    BY <1>3, <2>2, <2>3, <2>4 DEF Consume
<1>4. ASSUME TypeOK, [Next]_vars, Backlog' > Backlog
      PROVE  Len(log') > Len(log) \/ faults' = faults + 1
  <2>1. Backlog \in Nat
    BY <1>1, <1>4
  <2>2. ~Consume
    BY <1>3, <1>4, <2>1
  <2>3. CASE Restart
    BY <2>3 DEF Restart, Fault
  <2>4. CASE NextDay \/ Produce \/ UNCHANGED vars
    <3>1. UNCHANGED <<position, pc>>
      BY <2>4 DEF NextDay, Produce, UpdateByAnswer, Deliver, DeliverUnacknowledged, GiveUp,
         GatewayCrash, PublishUnreadable, vars, consumerVars
    <3>2. log' = log => Backlog' = Backlog
      BY <3>1 DEF Backlog
    <3> QED
      BY <1>4, <2>1, <3>2, TopicGrows
  <2> QED
    BY <1>4, <2>2, <2>3, <2>4 DEF Next
<1> QED
  BY <1>1, <1>2, <1>3, <1>4, TypeCorrect, NoRecordPassedOver, PTL DEF Spec
===============================================================================
