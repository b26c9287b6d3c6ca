-------------------------------- MODULE Notify --------------------------------
(***************************************************************************)
(* The reminders.  Scheduler, in users-service, sleeps to the next slot and  *)
(* then walks over the users who have not done a task today, page by page,   *)
(* writing the chat ids to the topic KAFKA_TOPIC_US_GTW; HandleNotifications,*)
(* in the gateway, collects them in batches, sends a Telegram message to     *)
(* each and commits the batch.  Meanwhile users register and answer, the     *)
(* hours pass, the writer stores a page twice or not at all, and either      *)
(* process restarts.                                                         *)
(***************************************************************************)
EXTENDS Integers, Sequences, FiniteSets

CONSTANTS
  Tables,       \* the users tables a behaviour may begin with: id -> chat_id
  Chats,        \* the chats of the users; a group's chat_id is negative
  NewChats,     \* those that users register from while the system runs
  MaxId,        \* bound: the last value of the SERIAL column id
  PageSize,     \* LIMIT of GetUsersByID and capacity of chatIds, 20
  BatchSize,    \* capacity of chatIds in HandleNotifications, 20
  MaxInt32,     \* the largest value of lastID, 2^31 - 1
  HoursPerDay,  \* 24
  FirstHour,    \* the hour users-service starts
  Slots,        \* the hours of the slots, ascending
  MaxHour,      \* bound: hours
  MaxRecords,   \* bound: records of the topic
  MaxFaults     \* bound: failures and restarts

ASSUME SizesAssumption ==
  /\ PageSize \in Nat \ {0} /\ BatchSize \in Nat \ {0} /\ MaxInt32 \in Nat
  /\ HoursPerDay \in Nat \ {0} /\ FirstHour \in Nat /\ MaxHour \in Nat
  /\ MaxRecords \in Nat /\ MaxFaults \in Nat /\ MaxId \in Nat
ASSUME SlotsAssumption ==
  /\ Slots \in Seq(0 .. HoursPerDay - 1) /\ Slots # <<>>
  /\ \A i, j \in 1 .. Len(Slots) : i < j => Slots[i] < Slots[j]
ASSUME TablesAssumption ==
  /\ Chats \subseteq Int /\ NewChats \subseteq Chats
  /\ \A t \in Tables : \E ids \in SUBSET (1 .. MaxId) : t \in [ids -> Chats]

VARIABLES
  hour,       \* the clock, in hours since the epoch
  users,      \* the users table: id -> chat_id
  doneDay,    \* last_done_day of every id
  pc,         \* Scheduler: "plan", "sleep", "page", "write" or "tick"
  wake,       \* nextRun
  planned,    \* the hour at which wake was computed
  lastID,     \* the cursor of notify
  page,       \* the ids behind the chatIds in hand
  log,        \* the topic: [text, id, pass]; all but the text is history
  committed,  \* the offset committed for the gateway's group
  position,   \* its reader's offset
  batch,      \* how many fetched messages HandleNotifications holds
  next,       \* the position it sends next, 0 while it fetches
  tries,      \* history: how often each position was handed to Telegram
  pass,       \* history: the number of the pass
  owed,       \* history: the ids that have been due since the pass began
  complete,   \* history: whether the last pass got to its end
  faults      \* failures so far: [copies, restarts, others]

clockVars == <<hour>>
usersVars == <<users, doneDay>>
schedulerVars == <<pc, wake, planned, lastID, page, pass, complete>>
gatewayVars == <<committed, position, batch, next, tries>>
vars == <<clockVars, usersVars, schedulerVars, log, gatewayVars, owed, faults>>

Fault(kind) ==
  /\ faults.copies + faults.restarts + faults.others < MaxFaults
  /\ faults' = [faults EXCEPT ![kind] = @ + 1]

-------------------------------------------------------------------------------
(* Numbers.                                                                  *)

Day == hour \div HoursPerDay

\* Mutant: the cursor is an int64.
Int32Wide(n) == n

\* int32(n): the conversion keeps the low bits.
Int32(n) == ((n + MaxInt32 + 1) % (2 * MaxInt32 + 2)) - (MaxInt32 + 1)

\* What itoa writes: a sign and digits.
Itoa(n) == [minus |-> n < 0, digits |-> IF n < 0 THEN -n ELSE n]

\* Mutant: the sign is skipped.
AtoiSkipsSign(text) == text.digits

\* atoi stops at the first byte that is not a digit.
Atoi(text) == IF text.minus THEN 0 ELSE text.digits

\* Mutant: slot >= curHour.
NextSlotNow(h) ==
  LET left == {i \in 1 .. Len(Slots) : Slots[i] >= h % HoursPerDay}
  IN  IF left = {} THEN (h \div HoursPerDay + 1) * HoursPerDay + Slots[1]
      ELSE (h \div HoursPerDay) * HoursPerDay
           + Slots[CHOOSE i \in left : \A j \in left : i <= j]

\* getNextSlotTime: the first slot after the current hour, or tomorrow's first.
NextSlot(h) ==
  LET left == {i \in 1 .. Len(Slots) : Slots[i] > h % HoursPerDay}
  IN  IF left = {} THEN (h \div HoursPerDay + 1) * HoursPerDay + Slots[1]
      ELSE (h \div HoursPerDay) * HoursPerDay
           + Slots[CHOOSE i \in left : \A j \in left : i <= j]

-------------------------------------------------------------------------------
(* The users table.                                                          *)

IsDue(id) == doneDay[id] < Day

DueUsers == {id \in DOMAIN users : IsDue(id)}

Smallest(n, ids) == {id \in ids : Cardinality({j \in ids : j < id}) < n}

InOrder(ids) ==
  [k \in 1 .. Cardinality(ids) |->
     CHOOSE id \in ids : Cardinality({j \in ids : j < id}) = k - 1]

\* Mutant: the comparison with the cursor includes it.
GetUsersByIDFrom(id) == Smallest(PageSize, {u \in DueUsers : u >= id})

\* Mutant: ORDER BY id DESC.
GetUsersByIDDescending(id) ==
  LET after == {u \in DueUsers : u > id}
  IN  after \ Smallest(Cardinality(after) - PageSize, after)

GetUsersByID(id) == Smallest(PageSize, {u \in DueUsers : u > id})

\* RegUser for a user who is new to the table. The id is greater than any before;
\* ids in between are left out, as a /start of a registered user uses one up too.
Register(chat) ==
  /\ \E id \in 1 .. MaxId :
       /\ \A other \in DOMAIN users : id > other
       /\ users' = [i \in DOMAIN users \cup {id} |-> IF i = id THEN chat ELSE users[i]]
  /\ UNCHANGED <<clockVars, doneDay, schedulerVars, log, gatewayVars, owed, faults>>

\* UpdateStreak: the user did a task today.
Answer(id) ==
  /\ IsDue(id)
  /\ doneDay' = [doneDay EXCEPT ![id] = Day]
  /\ owed' = owed \ {id}
  /\ UNCHANGED <<clockVars, users, schedulerVars, log, gatewayVars, faults>>

\* An hour passes. Timers are not late by an hour: one that is due fires first.
Tick ==
  /\ hour < MaxHour /\ ~(pc = "sleep" /\ hour >= wake)
  /\ hour' = hour + 1
  /\ UNCHANGED <<usersVars, schedulerVars, log, gatewayVars, owed, faults>>

-------------------------------------------------------------------------------
(* users-service: Scheduler and notify.                                      *)

Plan ==
  /\ pc = "plan"
  /\ wake' = NextSlot(hour) /\ planned' = hour
  /\ pc' = "sleep"
  /\ UNCHANGED <<clockVars, usersVars, lastID, page, pass, complete, log,
                 gatewayVars, owed, faults>>

Wake ==
  /\ pc = "sleep" /\ hour >= wake
  /\ pc' = "page" /\ lastID' = 0
  /\ pass' = pass + 1 /\ owed' = DueUsers /\ complete' = FALSE
  /\ UNCHANGED <<clockVars, usersVars, wake, planned, page, log, gatewayVars, faults>>

\* What notify held is gone when it returns.
Return == pc' = "plan" /\ lastID' = 0 /\ page' = {}

\* An empty page ends the pass.
ReadPage ==
  /\ pc = "page"
  /\ page' = GetUsersByID(lastID)
  /\ pc' = IF page' = {} THEN "plan" ELSE "write"
  /\ complete' = (page' = {})
  /\ lastID' = IF page' = {} THEN 0 ELSE lastID
  /\ UNCHANGED <<clockVars, usersVars, wake, planned, pass, log, gatewayVars, owed, faults>>

ReadPageFails ==
  /\ pc = "page" /\ Fault("others")
  /\ Return
  /\ UNCHANGED <<clockVars, usersVars, wake, planned, pass, complete, log, gatewayVars,
                 owed>>

Records ==
  [k \in 1 .. Cardinality(page) |->
     LET id == InOrder(page)[k]
     IN  [text |-> Itoa(users[id]), id |-> id, pass |-> pass]]

\* The chat id of the last row becomes the cursor over the ids.
Cursor ==
  LET ids == InOrder(page)
  IN  Int32(users[ids[Len(ids)]])

Room == Len(log) + Cardinality(page) <= MaxRecords

Store == Room /\ log' = log \o Records

\* sendNotificationBatch succeeds; a page that is not full is the last.
WritePage ==
  /\ pc = "write" /\ Store
  /\ \/ /\ Cardinality(page) < PageSize
        /\ Return /\ complete' = TRUE
     \/ /\ Cardinality(page) = PageSize
        /\ pc' = "tick" /\ lastID' = Cursor /\ page' = {}
        /\ UNCHANGED complete
  /\ UNCHANGED <<clockVars, usersVars, wake, planned, pass, gatewayVars, owed, faults>>

\* The page was stored, the acknowledgement is lost and the writer tries again.
WritePageUnacknowledged ==
  /\ pc = "write" /\ Store /\ Fault("copies")
  /\ UNCHANGED <<clockVars, usersVars, schedulerVars, gatewayVars, owed>>

\* The writer runs out of attempts, the page may be stored or not: the pass ends.
WritePageFails ==
  /\ pc = "write" /\ Fault("others")
  /\ Store \/ UNCHANGED log
  /\ Return
  /\ UNCHANGED <<clockVars, usersVars, wake, planned, pass, complete, gatewayVars, owed>>

\* Mutant: NewNS stops the ticker, and notify does not reset it.
NextPageNever == FALSE /\ UNCHANGED vars

\* notifyTicker.C
NextPage ==
  /\ pc = "tick" /\ pc' = "page"
  /\ UNCHANGED <<clockVars, usersVars, wake, planned, lastID, page, pass, complete,
                 log, gatewayVars, owed, faults>>

\* users-service restarts: the pass is forgotten.
RestartScheduler ==
  /\ pc # "plan" /\ Fault("others")
  /\ Return /\ complete' = FALSE
  /\ UNCHANGED <<clockVars, usersVars, wake, planned, pass, log, gatewayVars, owed>>

-------------------------------------------------------------------------------
(* The gateway: HandleNotifications.                                         *)

\* Mutant: a batch is committed as soon as it is full, before it is sent.
FetchAndCommit ==
  /\ next = 0 /\ position < Len(log)
  /\ position' = position + 1 /\ batch' = batch + 1
  /\ next' = IF batch' = BatchSize THEN position' - batch' + 1 ELSE 0
  /\ committed' = IF batch' = BatchSize THEN position' ELSE committed
  /\ UNCHANGED <<clockVars, usersVars, schedulerVars, log, tries, owed, faults>>

\* FetchMessage returns a message; a full batch is sent.
Fetch ==
  /\ next = 0 /\ position < Len(log)
  /\ position' = position + 1 /\ batch' = batch + 1
  /\ next' = IF batch' = BatchSize THEN position' - batch' + 1 ELSE 0
  /\ UNCHANGED <<clockVars, usersVars, schedulerVars, log, committed, tries, owed,
                 faults>>

\* FetchMessage ran into its deadline: what has been collected is sent.
FetchTimesOut ==
  /\ next = 0 /\ batch > 0
  /\ next' = position - batch + 1
  /\ UNCHANGED <<clockVars, usersVars, schedulerVars, log, committed, position, batch,
                 tries, owed, faults>>

\* b.Send: a failure is logged, nothing more, so it makes no difference here.
Send ==
  /\ next \in 1 .. position
  /\ tries' = [tries EXCEPT ![next] = @ + 1]
  /\ next' = next + 1
  /\ UNCHANGED <<clockVars, usersVars, schedulerVars, log, committed, position, batch,
                 owed, faults>>

\* CommitMessages for the whole batch; the next round begins.
Commit ==
  /\ next = position + 1
  /\ committed' = position
  /\ batch' = 0 /\ next' = 0
  /\ UNCHANGED <<clockVars, usersVars, schedulerVars, log, position, tries, owed,
                 faults>>

CommitFails ==
  /\ next = position + 1 /\ Fault("others")
  /\ batch' = 0 /\ next' = 0
  /\ UNCHANGED <<clockVars, usersVars, schedulerVars, log, committed, position, tries,
                 owed>>

\* Mutant: a group without a commit starts at the end of the topic.
StartOffsetLast == IF committed = 0 THEN Len(log) ELSE committed

\* The reader has no StartOffset: kafka-go then takes the first record.
StartOffset == committed

\* The gateway restarts: the batch in hand is dropped with the process.  (A reader that is
\* assigned the partition again while it runs would keep it; that is not modelled.)
RestartGateway ==
  /\ Fault("restarts")
  /\ position' = StartOffset /\ batch' = 0 /\ next' = 0
  /\ UNCHANGED <<clockVars, usersVars, schedulerVars, log, committed, tries, owed>>

-------------------------------------------------------------------------------

Init ==
  /\ hour = FirstHour
  /\ users \in Tables
  /\ doneDay = [id \in 1 .. MaxId |-> 0]
  /\ pc = "plan" /\ wake = 0 /\ planned = 0 /\ lastID = 0 /\ page = {}
  /\ log = <<>> /\ committed = 0 /\ position = 0 /\ batch = 0 /\ next = 0
  /\ tries = [i \in 1 .. MaxRecords |-> 0]
  /\ pass = 0 /\ owed = {} /\ complete = FALSE
  /\ faults = [copies |-> 0, restarts |-> 0, others |-> 0]

Environment ==
  \/ Tick
  \/ \E chat \in NewChats : Register(chat)
  \/ \E id \in DOMAIN users : Answer(id)

Schedule == Plan \/ Wake \/ ReadPage \/ WritePage \/ NextPage

Dispatch == Fetch \/ FetchTimesOut \/ Send \/ Commit

Failure ==
  \/ ReadPageFails \/ WritePageUnacknowledged \/ WritePageFails \/ RestartScheduler
  \/ CommitFails \/ RestartGateway

Next == Environment \/ Schedule \/ Dispatch \/ Failure

Spec == Init /\ [][Next]_vars

\* Both loops are goroutines started with their process; each step of theirs ends
\* within its timeout.
FairSpec == Spec /\ WF_vars(Schedule) /\ WF_vars(Dispatch)

-------------------------------------------------------------------------------
(* Properties.                                                               *)

TypeOK ==
  /\ hour \in Nat
  /\ DOMAIN users \subseteq 1 .. MaxId /\ \A id \in DOMAIN users : users[id] \in Chats
  /\ doneDay \in [1 .. MaxId -> Nat]
  /\ pc \in {"plan", "sleep", "page", "write", "tick"}
  /\ wake \in Nat /\ planned \in Nat
  /\ lastID \in -(MaxInt32 + 1) .. MaxInt32
  /\ page \subseteq DOMAIN users /\ (pc = "write" => page # {})
  /\ owed \subseteq DOMAIN users
  /\ Len(log) <= MaxRecords
  /\ position \in 0 .. Len(log) /\ committed \in 0 .. position
  /\ batch \in 0 .. BatchSize /\ batch <= position
  /\ next \in {0} \cup (position - batch + 1) .. position + 1
  /\ next = 0 => batch < BatchSize
  /\ tries \in [1 .. MaxRecords -> Nat]

\* The cursor works for ids and chat ids that interleave; the code takes the one for
\* the other.
CursorSound ==
  \A i \in DOMAIN users :
    /\ i <= Int32(users[i])
    /\ \A j \in DOMAIN users : i < j => Int32(users[i]) < j

\* The users fit in one page that is not full, so that the cursor is not used.
OnePage == Cardinality(DOMAIN users) < PageSize

\* The scheduler sleeps exactly to the first slot after the hour in which it lay
\* down (getNextSlotTime), over midnight too: no slot is passed over in its sleep,
\* and no hour sees two passes.
SleepsToTheNextSlot ==
  pc = "sleep" =>
    LET IsSlot(h) == \E k \in 1 .. Len(Slots) : Slots[k] = h % HoursPerDay
    IN  IsSlot(wake) /\ planned < wake /\ \A h \in planned + 1 .. wake - 1 : ~IsSlot(h)

\* A pass that came to its end has written every user who was in the table and due
\* from its beginning on, whoever registered and answered meanwhile, when the users
\* fit in a page or the cursor is sound.
PassIsComplete ==
  complete /\ pc = "plan" /\ (OnePage \/ CursorSound) =>
    \A id \in owed : \E i \in 1 .. Len(log) : log[i].id = id /\ log[i].pass = pass

\* Under the same condition no user is reminded more often in a pass than the faults
\* account for: a copy by the writer, a redelivery by a restart of the gateway.
RemindedOnce ==
  /\ \A i \in 1 .. Len(log) : tries[i] <= 1 + faults.restarts
  /\ OnePage \/ CursorSound =>
       \A i \in 1 .. Len(log) :
         Cardinality({j \in 1 .. Len(log) :
                        log[j].id = log[i].id /\ log[j].pass = log[i].pass})
           <= 1 + faults.copies

\* Through itoa, the topic and atoi a reminder gets to the user it was written for,
\* or, for a group, to chat 0, which is none: never to the user whose chat id is that
\* of the group but for its sign.
ReachesItsUser ==
  \A i \in 1 .. Len(log) :
    tries[i] > 0 => LET chat == Atoi(log[i].text)
                    IN  chat = users[log[i].id] \/ (chat = 0 /\ users[log[i].id] < 0)

\* HandleNotifications delivers the topic at least once and in order: whatever the
\* batches, the restarts and the commits that fail, the first time a record is handed
\* to Telegram all those before it have been, and the committed offset never goes back
\* nor beyond a record that was not handed over.
Topic == INSTANCE Delivery
           WITH Void <- {}, done <- {i \in 1 .. MaxRecords : tries[i] > 0}
ImplementsDelivery == Topic!DeliverySpec

\* Every stored record is handed to Telegram in the end, through every restart.
EveryRecordIsTried ==
  \A i \in 1 .. MaxRecords : Len(log) >= i ~> tries[i] > 0

\* A pass ends, so that the scheduler lies down for the next slot, when the users
\* fit in a page or the cursor is sound (and the bound on the topic leaves room).
PassEnds ==
  pc = "page" /\ (OnePage \/ CursorSound)
    ~> pc = "plan" \/ ~(OnePage \/ CursorSound) \/ (pc = "write" /\ ~Room)

\* What README.md:91 says of the scheduler, that it "analyzes users without
\* completed tasks for the day" and "batches chat IDs and streams them into Kafka":
\* a pass that came to its end has written every user who was due all along.
PassReachesAll ==
  complete /\ pc = "plan" =>
    \A id \in owed : \E i \in 1 .. Len(log) : log[i].id = id /\ log[i].pass = pass
===============================================================================
