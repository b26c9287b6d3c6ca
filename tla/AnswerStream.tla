----------------------------- MODULE AnswerStream -----------------------------
(***************************************************************************)
(* The way of an answer to a learning task from the gateway to the           *)
(* statistics of the user: UpdateByAnswer hands an event to an asynchronous  *)
(* kafka-go writer, the topic KAFKA_TOPIC_GTW_US keeps it, and the loop      *)
(* ApplyAnswer of users-service fetches, applies (UpdateStreak, one UPDATE)  *)
(* and commits it.  The writer may store a batch twice or give it up, the    *)
(* gateway may crash with events queued, an UPDATE may fail with or without  *)
(* having been executed, a commit may fail, and users-service (or its        *)
(* membership of the consumer group) may restart at any point.  Midnight may *)
(* pass between any two steps.                                               *)
(***************************************************************************)
EXTENDS Sequences, DayRuns

CONSTANTS
  Users,          \* the registered users: uuid, the key of the row
  Themes,         \* themes of the tasks
  NoTheme,        \* the column default '' of best_theme and worst_theme
  Answers,        \* the events of the gateway: [user, theme, counter]
  Unreadable,     \* a record whose value is not a UserAnswer
  ForeignProducer, \* whether anything but the gateway writes to the topic
  FirstDay,       \* the first day: time.Now().UTC().Unix() / 86400
  MaxDay,         \* bound: the last day
  MaxAnswers,     \* bound: records put in the topic
  MaxFaults       \* bound: failures of the writer, the gateway, the database, the
                  \* commits and users-service, together

ASSUME DaysAssumption == FirstDay \in Nat \ {0} /\ MaxDay \in Nat
ASSUME BoundsAssumption == MaxAnswers \in Nat /\ MaxFaults \in Nat
ASSUME AnswersAssumption ==
  /\ Answers \subseteq [user : Users, theme : Themes, counter : Int]
  /\ Unreadable \notin Answers

VARIABLES
  day,        \* the current day
  pending,    \* the queue of the asynchronous kafka-go writer, in the gateway
  sent,       \* records handed to the topic or the writer so far
  log,        \* the topic (one partition)
  committed,  \* the offset committed for the group: this many records are past
  position,   \* the reader's offset: this many records were fetched
  pc,         \* where ApplyAnswer is: "fetch", "update" or "commit"
  today,      \* currentDay of the last UpdateStreak
  table,      \* the statistics columns of the users table
  faults,     \* failures so far
  credited,   \* history: the days each user was credited with
  seen,       \* history: the answers each user was credited for
  settled     \* history: [applied, failed], the offsets whose UPDATE was executed,
              \* and those whose UpdateStreak returned an error

gatewayVars == <<pending, sent>>
consumerVars == <<committed, position, pc, today>>
rowVars == <<table, credited, seen>>
vars == <<day, pending, sent, log, committed, position, pc, today, table, faults,
          credited, seen, settled>>

Stats == [theme : Themes, counter : Int]
StatsOf(answer) == [theme |-> answer.theme, counter |-> answer.counter]

\* The columns' defaults.
NewRow ==
  [streak |-> 0, lastDoneDay |-> 0,
   bestTheme |-> NoTheme, bestCounter |-> 0,
   worstTheme |-> NoTheme, worstCounter |-> 0]

Rows ==
  [streak : Nat, lastDoneDay : Nat,
   bestTheme : Themes \cup {NoTheme}, bestCounter : Int,
   worstTheme : Themes \cup {NoTheme}, worstCounter : Int]

Init ==
  /\ day = FirstDay /\ today = FirstDay
  /\ pending = <<>> /\ sent = 0 /\ log = <<>>
  /\ committed = 0 /\ position = 0 /\ pc = "fetch"
  /\ table = [u \in Users |-> NewRow]
  /\ faults = 0
  /\ credited = [u \in Users |-> {}] /\ seen = [u \in Users |-> {}]
  /\ settled = [applied |-> {}, failed |-> {}]

-------------------------------------------------------------------------------
(* The environment: the clock, faults.                                       *)

NextDay ==
  /\ day < MaxDay
  /\ day' = day + 1
  /\ UNCHANGED <<gatewayVars, log, consumerVars, rowVars, faults, settled>>

Fault == faults < MaxFaults /\ faults' = faults + 1

-------------------------------------------------------------------------------
(* The gateway and the topic.                                                *)

\* handleState's task branch calls UpdateByAnswer: the writer is asynchronous, so
\* WriteMessages returns at once.
UpdateByAnswer(answer) ==
  /\ sent < MaxAnswers
  /\ pending' = Append(pending, answer) /\ sent' = sent + 1
  /\ UNCHANGED <<day, log, consumerVars, rowVars, faults, settled>>

\* The writer's goroutine stores the oldest queued event.
Deliver ==
  /\ pending # <<>>
  /\ log' = Append(log, Head(pending)) /\ pending' = Tail(pending)
  /\ UNCHANGED <<day, sent, consumerVars, rowVars, faults, settled>>

\* The broker stored the event, the acknowledgement is lost and the writer tries
\* again: the event will be in the topic twice.
DeliverUnacknowledged ==
  /\ pending # <<>> /\ Fault
  /\ log' = Append(log, Head(pending))
  /\ UNCHANGED <<day, gatewayVars, consumerVars, rowVars, settled>>

\* The writer runs out of attempts: nobody reads the error.
GiveUp ==
  /\ pending # <<>> /\ Fault
  /\ pending' = Tail(pending)
  /\ UNCHANGED <<day, sent, log, consumerVars, rowVars, settled>>

\* The gateway crashes with its queue.
GatewayCrash ==
  /\ pending # <<>> /\ Fault
  /\ pending' = <<>>
  /\ UNCHANGED <<day, sent, log, consumerVars, rowVars, settled>>

\* Another producer leaves a record in the topic that is not a UserAnswer.
PublishUnreadable ==
  /\ ForeignProducer /\ sent < MaxAnswers
  /\ sent' = sent + 1
  /\ log' = Append(log, Unreadable)
  /\ UNCHANGED <<day, pending, consumerVars, rowVars, faults, settled>>

-------------------------------------------------------------------------------
(* users-service: the loop ApplyAnswer.                                      *)

\* Mutant: the CASE has no branch of its own for today.
StreakCaseEveryAnswer(row) ==
  IF row.lastDoneDay \in {today - 1, today} THEN row.streak + 1 ELSE 1

StreakCase(row) ==
  CASE row.lastDoneDay = today     -> row.streak
    [] row.lastDoneDay = today - 1 -> row.streak + 1
    [] OTHER                       -> 1

\* Mutant: a tie is a new best.
ImprovesOrTies(row, answer) == answer.counter >= row.bestCounter

Improves(row, answer) == answer.counter > row.bestCounter

\* Mutant: the comparison of the best, copied.
WorsensSwapped(row, answer) == answer.counter > row.worstCounter

Worsens(row, answer) == answer.counter < row.worstCounter

\* The single UPDATE of UpdateStreak: every CASE reads the row as it was. The event's
\* `correct` is not used.
UpdatedRow(row, answer) ==
  [streak       |-> StreakCase(row),
   lastDoneDay  |-> today,
   bestTheme    |-> IF Improves(row, answer) THEN answer.theme   ELSE row.bestTheme,
   bestCounter  |-> IF Improves(row, answer) THEN answer.counter ELSE row.bestCounter,
   worstTheme   |-> IF Worsens(row, answer)  THEN answer.theme   ELSE row.worstTheme,
   worstCounter |-> IF Worsens(row, answer)  THEN answer.counter ELSE row.worstCounter]

ExecUpdate(answer) ==
  /\ table' = [table EXCEPT ![answer.user] = UpdatedRow(@, answer)]
  /\ credited' = [credited EXCEPT ![answer.user] = @ \cup {today}]
  /\ seen' = [seen EXCEPT ![answer.user] = @ \cup {StatsOf(answer)}]

\* Mutant: a record that does not unmarshal is not skipped.
FetchAnything ==
  /\ pc = "fetch" /\ position < Len(log)
  /\ position' = position + 1 /\ pc' = "update" /\ today' = day
  /\ UNCHANGED <<day, gatewayVars, log, committed, rowVars, faults, settled>>

\* FetchMessage hands out the next record, and UpdateStreak reads the clock.
Fetch ==
  /\ pc = "fetch" /\ position < Len(log)
  /\ log[position + 1] # Unreadable
  /\ position' = position + 1 /\ pc' = "update" /\ today' = day
  /\ UNCHANGED <<day, gatewayVars, log, committed, rowVars, faults, settled>>

\* A record that does not unmarshal is committed and skipped; the error of that
\* commit is not read.
SkipUnreadable ==
  /\ pc = "fetch" /\ position < Len(log)
  /\ log[position + 1] = Unreadable
  /\ position' = position + 1
  /\ \/ committed' = position + 1 /\ UNCHANGED faults
     \/ UNCHANGED committed /\ Fault
  /\ UNCHANGED <<day, gatewayVars, log, pc, today, rowVars, settled>>

UpdateStreak ==
  /\ pc = "update" /\ ExecUpdate(log[position])
  /\ pc' = "commit"
  /\ settled' = [settled EXCEPT !.applied = @ \cup {position}]
  /\ UNCHANGED <<day, gatewayVars, log, committed, position, today, faults>>

\* UpdateStreak returns an error: `continue`, with no commit and no second try. The
\* next FetchMessage hands out the record after this one.
UpdateStreakFails ==
  /\ pc = "update" /\ Fault
  /\ pc' = "fetch"
  /\ settled' = [settled EXCEPT !.failed = @ \cup {position}]
  /\ UNCHANGED <<day, gatewayVars, log, committed, position, today, rowVars>>

\* The UPDATE was executed, and its reply came too late for loopCtx.
UpdateStreakUnanswered ==
  /\ pc = "update" /\ Fault /\ ExecUpdate(log[position])
  /\ pc' = "fetch"
  /\ settled' = [settled EXCEPT !.applied = @ \cup {position}]
  /\ UNCHANGED <<day, gatewayVars, log, committed, position, today>>

\* A Kafka commit is one offset: everything before it is past too.
Commit ==
  /\ pc = "commit"
  /\ committed' = position /\ pc' = "fetch"
  /\ UNCHANGED <<day, gatewayVars, log, position, today, rowVars, faults, settled>>

CommitFails ==
  /\ pc = "commit" /\ Fault
  /\ pc' = "fetch"
  /\ UNCHANGED <<day, gatewayVars, log, committed, position, today, rowVars, settled>>

\* Mutant: StartOffset: LastOffset, a group without a commit starts at the end.
StartOffsetLast == IF committed = 0 THEN Len(log) ELSE committed

\* Where a reader that joins the group starts: at the committed offset, which is 0,
\* the first record, when there is none (StartOffset: FirstOffset).
StartOffset == committed

\* users-service restarts: the record in hand is dropped with the process.  (A reader that
\* is assigned the partition again while it runs would keep it; that is not modelled.)
Restart ==
  /\ Fault
  /\ position' = StartOffset /\ pc' = "fetch"
  /\ UNCHANGED <<day, gatewayVars, log, committed, today, rowVars, settled>>

-------------------------------------------------------------------------------

Produce ==
  \/ \E answer \in Answers : UpdateByAnswer(answer)
  \/ Deliver \/ DeliverUnacknowledged \/ GiveUp \/ GatewayCrash \/ PublishUnreadable

Consume ==
  \/ Fetch \/ SkipUnreadable
  \/ UpdateStreak \/ UpdateStreakFails \/ UpdateStreakUnanswered
  \/ Commit \/ CommitFails

Next == NextDay \/ Produce \/ Consume \/ Restart

Spec == Init /\ [][Next]_vars

\* ApplyAnswer is a loop that never blocks on anything but FetchMessage, and it is
\* started once for the life of the process.
FairSpec == Spec /\ WF_vars(Consume)

-------------------------------------------------------------------------------
(* Properties.                                                               *)

TypeOK ==
  /\ day \in Nat /\ today \in Nat
  /\ pending \in Seq(Answers) /\ sent \in Nat
  /\ log \in Seq(Answers \cup {Unreadable})
  /\ position \in 0 .. Len(log) /\ committed \in 0 .. position
  /\ pc \in {"fetch", "update", "commit"}
  /\ pc # "fetch" => position > 0 /\ log[position] \in Answers
  /\ table \in [Users -> Rows]
  /\ faults \in Nat
  /\ credited \in [Users -> SUBSET Nat]
  /\ seen \in [Users -> SUBSET Stats]
  /\ settled \in [applied : SUBSET Nat, failed : SUBSET Nat]

\* Whatever was stored twice, redelivered, failed or delayed over midnight, the
\* streak a user sees is the length of the run of consecutive days that ends at
\* the last day the user was credited with (UpdateStreak's CASE, db.go).
StreakIsRun ==
  \A u \in Users : IsRun(credited[u], table[u].lastDoneDay, table[u].streak)

\* The best (worst) theme is one in which the highest (lowest) counter of all
\* applied answers was reached: the two columns, set by separate CASE expressions
\* of one UPDATE, never come apart.
ThemesAreExtremes ==
  \A u \in Users :
    /\ IsBest(seen[u], table[u].bestTheme, table[u].bestCounter, NoTheme)
    /\ IsWorst(seen[u], table[u].worstTheme, table[u].worstCounter, NoTheme)

\* Position i of the topic needs no more work.
IsSettled(i) ==
  i \in settled.applied \cup settled.failed \/ log[i] = Unreadable

\* Applying an answer a second time on a day that counts already changes nothing:
\* the UPDATE is idempotent, so at-least-once delivery is enough within a day.
RedeliveryChangesNothing ==
  [][credited' = credited /\ seen' = seen => table' = table]_vars

\* Every record of the topic is eventually executed, reported as failed, or
\* skipped as unreadable, through every restart.
EveryRecordIsSettled ==
  \A i \in 1 .. (MaxAnswers + MaxFaults) :
    Len(log) >= i ~> (i <= Len(log) /\ IsSettled(i))

\* What README.md:90 says of the stream, "a background consumer reads [the event] to
\* atomically update the user's streak": no answer of the topic is marked as
\* consumed without having been applied.
ConsumedIsApplied ==
  \A i \in 1 .. committed : log[i] \in Answers => i \in settled.applied

\* The detailed stream implements the ledger: the row after every step is the one
\* its whole history describes.
Ledger == INSTANCE StreakLedger WITH table <- table, credited <- credited, seen <- seen
ImplementsLedger == Ledger!LedgerSpec

\* ApplyAnswer decides on the answers of the topic in their order, whatever restarts or
\* is delivered again: the first time an UPDATE is executed or fails for a record, all
\* readable records before it have had theirs, and the committed offset never goes back
\* nor beyond a record that was not decided on.
Topic == INSTANCE Delivery
           WITH Void <- {Unreadable}, done <- settled.applied \cup settled.failed
ImplementsDelivery == Topic!DeliverySpec
===============================================================================
