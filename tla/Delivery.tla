------------------------------- MODULE Delivery -------------------------------
(***************************************************************************)
(* The abstract promise of a topic that one group consumes, at least once    *)
(* and in order: nothing is taken back from the topic; the first time a      *)
(* record is worked on, all those before it have been; and the committed     *)
(* offset only grows, over records that were worked on.  There are no        *)
(* batches, reader's offsets, restarts or failed commits here, and working   *)
(* on a record again changes nothing.  AnswerStream implements it for the    *)
(* answers, Notify for the reminders.                                        *)
(***************************************************************************)
EXTENDS Naturals, Sequences

CONSTANT Void  \* the records that nobody has to work on

VARIABLES
  log,       \* the topic
  done,      \* the positions worked on at least once
  committed  \* the offset committed for the group

deliveryVars == <<log, done, committed>>

IsDone(i) == i \in done \/ log[i] \in Void

DeliveryInit == log = <<>> /\ done = {} /\ committed = 0

\* Records are stored behind the others.
Store ==
  /\ Len(log') > Len(log)
  /\ \A i \in 1 .. Len(log) : log'[i] = log[i]
  /\ UNCHANGED <<done, committed>>

\* Position i is worked on for the first time.
Finish(i) ==
  /\ i \notin done
  /\ \A j \in 1 .. i - 1 : IsDone(j)
  /\ done' = done \cup {i}
  /\ UNCHANGED <<log, committed>>

Advance ==
  /\ committed' \in committed + 1 .. Len(log)
  /\ \A i \in 1 .. committed' : IsDone(i)
  /\ UNCHANGED <<log, done>>

DeliveryNext == Store \/ Advance \/ \E i \in 1 .. Len(log) : Finish(i)

DeliverySpec == DeliveryInit /\ [][DeliveryNext]_deliveryVars
===============================================================================
