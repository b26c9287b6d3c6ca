----------------------------- MODULE CallRPC_proofs -----------------------------
(***************************************************************************)
(* What CallRPC guarantees for all numbers of handlers, attempts, probes and *)
(* failures: the effects of a call agree with what it reports, and a breaker *)
(* that is half-open waits for just the probes it admitted.                  *)
(***************************************************************************)
EXTENDS CallRPC, FiniteSetTheorems, TLAPS

\* Where a call stands decides how its executions compare with its lost connections:
\* an attempt that may still execute follows only attempts that lost theirs, or has
\* its deadline behind it.
EffectOf(c) ==
  /\ executed[c] \in {lost[c], lost[c] + 1}
  /\ pc[c] \in {"admit", "flight", "sleep"} /\ ~expired[c] => executed[c] = lost[c]
  /\ pc[c] \in {"served", "recv"} => executed[c] = lost[c] + 1
  /\ pc[c] = "idle" /\ result[c] = "error" => executed[c] = lost[c] \/ expired[c]
  /\ pc[c] = "idle" /\ result[c] = "ok" /\ tries[c] > 0 => executed[c] > 0

\* And how its executions compare with its attempts.
AttemptOf(c) ==
  /\ executed[c] <= tries[c]
  /\ pc[c] = "flight" => executed[c] < tries[c]
  /\ pc[c] = "admit" => tries[c] < Attempts

Inv ==
  /\ TypeOK
  /\ \A c \in Callers : EffectOf(c) /\ AttemptOf(c)

USE NumbersAssumption

-------------------------------------------------------------------------------
(* The breaker.                                                              *)

Breakers ==
  [state : {"closed", "open", "half-open"}, due : BOOLEAN, requests : 0 .. MaxRequests,
   failures : 0 .. FailCnt - 1, successes : 0 .. MaxRequests - 1]

\* A new generation starts from zero.
LEMMA GenerationType ==
  ASSUME NEW s \in {"closed", "open", "half-open"}
  PROVE  Generation(s) \in Breakers
BY DEF Generation, Breakers

\* Looking at the breaker leaves a breaker.
LEMMA LookedType ==
  ASSUME breaker \in Breakers
  PROVE  Looked \in Breakers
BY GenerationType DEF Looked, Breakers

\* So does a success, and a failure.
LEMMA ReportType ==
  ASSUME breaker \in Breakers, NEW c \in Callers
  PROVE  Succeeded(c) \in Breakers /\ Failed(c) \in Breakers
<1>1. Looked \in Breakers /\ Generation("closed") \in Breakers /\ Generation("open") \in Breakers
  BY LookedType, GenerationType
<1>2. Succeeded(c) \in Breakers
  <2>1. CASE ~Counts(c)
    BY <1>1, <2>1 DEF Succeeded
  <2>2. CASE Counts(c) /\ breaker.state = "closed"
    <3>1. [breaker EXCEPT !.failures = 0] \in Breakers
      BY DEF Breakers
    <3> QED
      BY <2>2, <3>1 DEF Succeeded
  <2>3. CASE Counts(c) /\ breaker.state # "closed" /\ breaker.successes + 1 >= MaxRequests
    BY <1>1, <2>3 DEF Succeeded
  <2>4. CASE Counts(c) /\ breaker.state # "closed" /\ ~(breaker.successes + 1 >= MaxRequests)
    <3>1. breaker.successes + 1 \in 0 .. MaxRequests - 1
      BY <2>4 DEF Breakers
    <3>2. [breaker EXCEPT !.successes = @ + 1] \in Breakers
      BY <3>1 DEF Breakers
    <3> QED
      BY <2>4, <3>2 DEF Succeeded
  <2> QED
    BY <2>1, <2>2, <2>3, <2>4
<1>3. Failed(c) \in Breakers
  <2>1. CASE ~Counts(c)
    BY <1>1, <2>1 DEF Failed
  <2>2. CASE Counts(c) /\ (breaker.state = "half-open" \/ Trips(breaker.failures + 1))
    BY <1>1, <2>2 DEF Failed
  <2>3. CASE Counts(c) /\ ~(breaker.state = "half-open" \/ Trips(breaker.failures + 1))
    <3>1. breaker.failures + 1 \in 0 .. FailCnt - 1
      BY <2>3 DEF Breakers, Trips
    <3>2. [breaker EXCEPT !.failures = @ + 1] \in Breakers
      BY <3>1 DEF Breakers
    <3> QED
      BY <2>3, <3>2 DEF Failed
  <2> QED
    BY <2>1, <2>2, <2>3
<1> QED
  BY <1>2, <1>3

\* The state of the breaker stays one, and so do the marks of the generation.
LEMMA BecomesType ==
  ASSUME current \in [Callers -> BOOLEAN], NEW b \in Breakers, Becomes(b)
  PROVE  breaker' \in Breakers /\ current' \in [Callers -> BOOLEAN]
BY DEF Becomes
-------------------------------------------------------------------------------
(* Types, and the two invariants of a call.                                  *)

Pcs == {"idle", "admit", "flight", "served", "recv", "sleep"}

\* The part of TypeOK that is about the calls.
CallType ==
  /\ pc \in [Callers -> Pcs]
  /\ op \in [Callers -> [stream : BOOLEAN, deadline : BOOLEAN]]
  /\ tries \in [Callers -> 0 .. Attempts]
  /\ expired \in [Callers -> BOOLEAN]
  /\ hung \subseteq Callers
  /\ \A c \in hung : pc[c] \in {"served", "recv"}
  /\ result \in [Callers -> {"ok", "error"}]
  /\ executed \in [Callers -> 0 .. Attempts] /\ lost \in [Callers -> 0 .. Attempts]

LEMMA TypeSplit ==
  TypeOK <=> /\ service \in {"users", "ai"} /\ faults \in Nat
             /\ breaker \in Breakers /\ current \in [Callers -> BOOLEAN]
             /\ CallType
BY DEF TypeOK, CallType, Breakers, Pcs

LEMMA InvInit == Init => Inv
<1> SUFFICES ASSUME Init PROVE Inv
  OBVIOUS
<1>1. breaker \in Breakers /\ current \in [Callers -> BOOLEAN]
  BY GenerationType DEF Init
<1>2. CallType
  BY DEF Init, CallType, Pcs
<1>3. service \in {"users", "ai"} /\ faults \in Nat
  BY DEF Init
<1>4. ASSUME NEW c \in Callers PROVE EffectOf(c) /\ AttemptOf(c)
  <2>1. /\ pc[c] = "idle" /\ result[c] = "ok" /\ tries[c] = 0
        /\ executed[c] = 0 /\ lost[c] = 0
    BY DEF Init
  <2> QED
    BY <2>1 DEF EffectOf, AttemptOf
<1> QED
  BY <1>1, <1>2, <1>3, <1>4, TypeSplit DEF Inv

\* The steps of a caller.
Step(c) ==
  \/ Call(c) \/ Admit(c) \/ Refuse(c) \/ Wake(c) \/ GiveUp(c) \/ Expire(c)
  \/ DeadlineExceeded(c) \/ Serve(c) \/ Reply(c) \/ Hang(c) \/ Unavailable(c)
  \/ LoseConnection(c) \/ Reject(c) \/ Open(c) \/ Receive(c) \/ ReceiveFails(c)

LEMMA NextSplit == Next <=> TimePasses \/ \E c \in Callers : Step(c)
BY DEF Next, Proceed, GoWrong, Step

\* What a step of a caller does to the calls: it keeps the types, its own invariants and
\* the other callers.
Kept(c) ==
  /\ CallType'
  /\ EffectOf(c)' /\ AttemptOf(c)'
  /\ \A d \in Callers \ {c} :
       /\ pc'[d] = pc[d] /\ tries'[d] = tries[d] /\ expired'[d] = expired[d]
       /\ result'[d] = result[d] /\ executed'[d] = executed[d] /\ lost'[d] = lost[d]

\* Every operation is of one kind and has a deadline or not.
LEMMA OperationsType ==
  ASSUME NEW o \in Operations
  PROVE  o \in [stream : BOOLEAN, deadline : BOOLEAN]
<1>1. ASSUME NEW x \in BOOLEAN, NEW y \in BOOLEAN
      PROVE  [stream |-> x, deadline |-> y] \in [stream : BOOLEAN, deadline : BOOLEAN]
  OBVIOUS
<1>2. TRUE \in BOOLEAN /\ FALSE \in BOOLEAN
  OBVIOUS
<1>3. \/ o = [stream |-> TRUE, deadline |-> TRUE]
      \/ o = [stream |-> TRUE, deadline |-> FALSE]
      \/ o = [stream |-> FALSE, deadline |-> FALSE]
      \/ o = [stream |-> FALSE, deadline |-> TRUE]
  BY Zenon DEF Operations
<1> QED
  BY <1>1, <1>2, <1>3, Zenon

LEMMA BelowBound == ASSUME NEW n \in Nat, NEW i \in 0 .. n, i # n PROVE i < n
OBVIOUS

LEMMA CallStep ==
  ASSUME CallType, NEW c \in Callers, EffectOf(c), AttemptOf(c), Step(c)
  PROVE  Kept(c)
<1> USE DEF Kept, CallType, EffectOf, AttemptOf, Pcs
<1>1. CASE Call(c)
  <2>2. op' \in [Callers -> [stream : BOOLEAN, deadline : BOOLEAN]]
    <3>1. PICK o \in Operations : op' = [op EXCEPT ![c] = o]
      BY <1>1 DEF Call
    <3> QED
      BY <3>1, OperationsType
  <2>3. UNCHANGED <<hung, result>> /\ c \notin hung
    BY <1>1 DEF Call
  <2>4. /\ pc' = [pc EXCEPT ![c] = "admit"]
        /\ tries' = [tries EXCEPT ![c] = 0] /\ expired' = [expired EXCEPT ![c] = FALSE]
        /\ executed' = [executed EXCEPT ![c] = 0] /\ lost' = [lost EXCEPT ![c] = 0]
    BY <1>1 DEF Call
  <2> QED
    BY <2>2, <2>3, <2>4
<1>2. CASE Admit(c)
  BY <1>2 DEF Admit
<1>3. CASE Refuse(c)
  BY <1>3 DEF Refuse, Return
<1>4. CASE Wake(c)
  <2>1. tries[c] < Attempts /\ pc[c] = "sleep"
    <3>1. tries[c] # Attempts /\ pc[c] = "sleep"
      BY <1>4 DEF Wake, GivesUp
    <3>2. tries[c] \in 0 .. Attempts
      OBVIOUS
    <3> HIDE DEF Kept, CallType, EffectOf, AttemptOf, Pcs
    <3>3. Attempts \in Nat
      OBVIOUS
    <3> QED
      BY <3>1, <3>2, <3>3, BelowBound
  <2>2. pc' = [pc EXCEPT ![c] = "admit"]
    BY <1>4 DEF Wake
  <2>3. UNCHANGED <<hung, op, tries, expired, executed, lost, result>>
    BY <1>4 DEF Wake, callVars
  <2> QED
    BY <2>1, <2>2, <2>3
<1>5. CASE GiveUp(c)
  BY <1>5 DEF GiveUp, Return
<1>6. CASE Expire(c)
  BY <1>6 DEF Expire, HasDeadline, Fault
<1>7. CASE DeadlineExceeded(c)
  BY <1>7 DEF DeadlineExceeded, Retry
<1>8. CASE Serve(c)
  BY <1>8 DEF Serve
<1>9. CASE Reply(c)
  BY <1>9 DEF Reply, Return
<1>10. CASE Hang(c)
  BY <1>10 DEF Hang, Fault, callVars
<1>11. CASE Unavailable(c)
  BY <1>11 DEF Unavailable, Retry, Fault
<1>12. CASE LoseConnection(c)
  BY <1>12 DEF LoseConnection, Retry, Fault
<1>13. CASE Reject(c)
  BY <1>13 DEF Reject, Return, Fault
<1>14. CASE Open(c)
  BY <1>14 DEF Open
<1>15. CASE Receive(c)
  BY <1>15 DEF Receive, Return
<1>16. CASE ReceiveFails(c)
  BY <1>16 DEF ReceiveFails, Return, Fault
<1> QED
  BY <1>1, <1>2, <1>3, <1>4, <1>5, <1>6, <1>7, <1>8, <1>9, <1>10, <1>11, <1>12, <1>13, <1>14,
     <1>15, <1>16 DEF Step

\* What it does to the breaker.
LEMMA BreakerStep ==
  ASSUME TypeOK, NEW c \in Callers, Step(c)
  PROVE  /\ service' \in {"users", "ai"} /\ faults' \in Nat
         /\ breaker' \in Breakers /\ current' \in [Callers -> BOOLEAN]
<1>1. /\ service \in {"users", "ai"} /\ faults \in Nat
      /\ breaker \in Breakers /\ current \in [Callers -> BOOLEAN]
  BY TypeSplit
<1>2. Looked \in Breakers /\ Succeeded(c) \in Breakers /\ Failed(c) \in Breakers
  BY <1>1, LookedType, ReportType
<1>3. service' = service /\ faults' \in Nat
  BY <1>1 DEF Step, Call, Admit, Refuse, Wake, GiveUp, Expire, DeadlineExceeded, Serve,
     Reply, Hang, Unavailable, LoseConnection, Reject, Open, Receive, ReceiveFails, Retry,
     Return, Fault, callVars
<1>4. CASE Admit(c)
  <2>1. Admits /\ breaker' = (IF Closed THEN Looked ELSE [Looked EXCEPT !.requests = @ + 1])
    BY <1>4 DEF Admit
  <2>2. ASSUME Closed PROVE breaker' \in Breakers
    BY <1>2, <2>1, <2>2
  <2>3. ASSUME ~Closed PROVE breaker' \in Breakers
    <3>1. Looked.requests + 1 \in 0 .. MaxRequests
      BY <1>2, <2>1, <2>3 DEF Admits, Breakers
    <3> HIDE DEF Looked
    <3>2. [Looked EXCEPT !.requests = @ + 1] \in Breakers
      BY <1>2, <3>1 DEF Breakers
    <3> QED
      BY <2>1, <2>3, <3>2
  <2>4. current' \in [Callers -> BOOLEAN]
    BY <1>4 DEF Admit
  <2> QED
    BY <1>1, <1>3, <2>2, <2>3, <2>4
<1>5. CASE Becomes(Looked) \/ Becomes(Succeeded(c)) \/ Becomes(Failed(c))
  BY <1>1, <1>2, <1>3, <1>5, BecomesType
<1>6. CASE UNCHANGED <<breaker, current>>
  BY <1>1, <1>3, <1>6
<1>7. \/ Admit(c) \/ Becomes(Looked) \/ Becomes(Succeeded(c)) \/ Becomes(Failed(c))
      \/ UNCHANGED <<breaker, current>>
  BY DEF Step, Call, Refuse, Wake, GiveUp, Expire, DeadlineExceeded, Serve, Reply, Hang,
     Unavailable, LoseConnection, Reject, Open, Receive, ReceiveFails, Retry
<1> QED
  BY <1>4, <1>5, <1>6, <1>7

LEMMA InvStep == Inv /\ [Next]_vars => Inv'
<1> SUFFICES ASSUME Inv, [Next]_vars PROVE Inv'
  OBVIOUS
<1>1. TypeOK /\ CallType /\ breaker \in Breakers
  BY TypeSplit DEF Inv
<1>2. CASE UNCHANGED vars
  BY <1>2 DEF Inv, TypeOK, EffectOf, AttemptOf, vars, callVars
<1>3. CASE TimePasses
  <2>1. breaker' \in Breakers
    BY <1>1, <1>3 DEF TimePasses, Breakers
  <2>2. UNCHANGED <<service, pc, current, hung, faults, op, tries, expired, executed, lost, result>>
    BY <1>3 DEF TimePasses, callVars
  <2>3. TypeOK'
    BY <1>1, <2>1, <2>2 DEF TypeOK, Breakers
  <2> QED
    BY <2>2, <2>3 DEF Inv, EffectOf, AttemptOf
<1>4. ASSUME NEW c \in Callers, Step(c) PROVE Inv'
  <2>1. EffectOf(c) /\ AttemptOf(c)
    BY DEF Inv
  <2>2. Kept(c)
    BY <1>1, <1>4, <2>1, CallStep
  <2>3. /\ service' \in {"users", "ai"} /\ faults' \in Nat
        /\ breaker' \in Breakers /\ current' \in [Callers -> BOOLEAN]
    BY <1>1, <1>4, BreakerStep
  <2>4. TypeOK'
    BY <2>2, <2>3 DEF Kept, TypeOK, CallType, Breakers, Pcs
  <2>5. ASSUME NEW d \in Callers \ {c} PROVE EffectOf(d)' /\ AttemptOf(d)'
    <3>1. EffectOf(d) /\ AttemptOf(d)
      BY DEF Inv
    <3> QED
      BY <2>2, <3>1 DEF Kept, EffectOf, AttemptOf
  <2> QED
    BY <2>2, <2>4, <2>5 DEF Inv, Kept
<1> QED
  BY <1>2, <1>3, <1>4, NextSplit

LEMMA AlwaysInv == Spec => []Inv
BY InvInit, InvStep, PTL DEF Spec

-------------------------------------------------------------------------------
(* The theorems.                                                             *)

\* Type correctness: among others, no call makes more attempts than it may, and no count
\* of the breaker gets past the number it is compared with.
THEOREM TypeCorrect == Spec => []TypeOK
<1>1. Inv => TypeOK
  BY DEF Inv
<1> QED
  BY <1>1, AlwaysInv, PTL

\* For any number of attempts a call does its work once, and once more for each
\* connection lost behind it; what it reports agrees with what was done.
THEOREM EffectsAgreeWithReports == Spec => []EffectsAgree
<1>1. Inv => EffectsAgree
  <2> SUFFICES ASSUME Inv, NEW c \in Callers
               PROVE  /\ executed[c] <= 1 + lost[c]
                      /\ pc[c] = "idle" /\ result[c] = "error" /\ executed[c] > 0
                           => lost[c] > 0 \/ expired[c]
                      /\ pc[c] = "idle" /\ result[c] = "ok" /\ tries[c] > 0
                           => executed[c] > 0
    BY DEF EffectsAgree
  <2>1. EffectOf(c) /\ lost[c] \in Nat /\ executed[c] \in Nat
    BY DEF Inv, TypeOK
  <2> QED
    BY <2>1 DEF EffectOf
<1> QED
  BY <1>1, AlwaysInv, PTL

-------------------------------------------------------------------------------
(* The probes of a half-open breaker.                                       *)

\* With a new generation the breaker waits for nobody and has counted nothing.
LEMMA NewGeneration ==
  ASSUME NEW s \in {"closed", "open", "half-open"}, Becomes(Generation(s)),
         s # breaker.state \/ breaker.due
  PROVE  ProbesAreCounted'
<1>1. InFlight' = {}
  BY DEF Becomes, Generation, InFlight
<1>2. breaker'.requests = 0 /\ breaker'.successes = 0
  BY DEF Becomes, Generation
<1> QED
  BY <1>1, <1>2, FS_EmptySet DEF ProbesAreCounted

\* Looking at a breaker whose time is over begins a generation.
LEMMA LookedAgain ==
  ASSUME breaker.due
  PROVE  \E s \in {"closed", "open", "half-open"} : Looked = Generation(s)
BY DEF Looked

\* The counts and the attempts in flight stay what they are.
LEMMA StillCounted ==
  ASSUME ProbesAreCounted, breaker'.state = breaker.state,
         breaker'.state = "half-open" =>
           breaker'.requests = breaker.requests /\ breaker'.successes = breaker.successes,
         \A c \in Callers : c \in InFlight' <=> c \in InFlight
  PROVE  ProbesAreCounted'
<1>1. InFlight' = InFlight
  BY DEF InFlight
<1> QED
  BY <1>1 DEF ProbesAreCounted

LEMMA InFlightFinite == IsFiniteSet(InFlight) /\ Cardinality(InFlight) \in Nat
<1>1. InFlight \subseteq Callers
  BY DEF InFlight
<1> QED
  BY <1>1, CallersAssumption, FS_Subset, FS_CardinalityType

\* An admitted attempt is one more in flight; a half-open breaker counts it.
LEMMA AdmitCounted ==
  ASSUME TypeOK, ProbesAreCounted, NEW c \in Callers, Admit(c)
  PROVE  ProbesAreCounted'
<1>1. /\ pc[c] = "admit" /\ Admits /\ pc' = [pc EXCEPT ![c] = "flight"]
      /\ breaker' = (IF Closed THEN Looked ELSE [Looked EXCEPT !.requests = @ + 1])
      /\ current' = [d \in Callers |-> d = c \/ (current[d] /\ ~breaker.due)]
  BY DEF Admit
<1>2. pc'[c] = "flight" /\ \A d \in Callers \ {c} : pc'[d] = pc[d]
  BY <1>1 DEF TypeOK
<1>3. breaker \in Breakers /\ c \notin InFlight
  BY <1>1, TypeSplit DEF InFlight
<1>4. CASE Closed
  BY <1>1, <1>4 DEF Closed, ProbesAreCounted
<1>5. CASE ~Closed /\ breaker.due
  <2>1. Looked = Generation("half-open")
    BY <1>5 DEF Closed, Looked, Generation
  <2>2. breaker' = [Generation("half-open") EXCEPT !.requests = @ + 1]
    BY <1>1, <1>5, <2>1
  <2>3. breaker'.state = "half-open" /\ breaker'.requests = 1 /\ breaker'.successes = 0
    BY <2>2 DEF Generation
  <2>4. InFlight' = {c}
    BY <1>1, <1>2, <1>5 DEF InFlight
  <2> QED
    BY <2>3, <2>4, FS_Singleton DEF ProbesAreCounted
<1>6. CASE ~Closed /\ ~breaker.due
  <2>1. Looked = breaker /\ breaker.state = "half-open"
    BY <1>1, <1>6 DEF Looked, Admits, Closed
  <2>2. breaker' = [breaker EXCEPT !.requests = @ + 1]
    BY <1>1, <1>6, <2>1
  <2>3. /\ breaker'.state = "half-open" /\ breaker'.requests = breaker.requests + 1
        /\ breaker'.successes = breaker.successes
    BY <1>3, <2>1, <2>2 DEF Breakers
  <2>4. InFlight' = InFlight \cup {c}
    BY <1>1, <1>2, <1>6 DEF InFlight
  <2>5. Cardinality(InFlight') = Cardinality(InFlight) + 1
    BY <1>3, <2>4, InFlightFinite, FS_AddElement
  <2>6. breaker.requests - breaker.successes = Cardinality(InFlight)
    BY <2>1 DEF ProbesAreCounted
  <2>7. breaker.requests \in Int /\ breaker.successes \in Int
    BY <1>3 DEF Breakers
  <2> QED
    BY <2>3, <2>5, <2>6, <2>7, InFlightFinite DEF ProbesAreCounted
<1> QED
  BY <1>4, <1>5, <1>6

\* An attempt that ends is one less in flight; what it reports counts if the generation is
\* still its own.
LEMMA ReportCounted ==
  ASSUME TypeOK, ProbesAreCounted, NEW c \in Callers, pc[c] \in {"flight", "served"},
         NEW step, step \notin {"flight", "served"}, pc' = [pc EXCEPT ![c] = step],
         Becomes(Succeeded(c)) \/ Becomes(Failed(c))
  PROVE  ProbesAreCounted'
<1>1. pc'[c] = step /\ \A d \in Callers \ {c} : pc'[d] = pc[d]
  BY DEF TypeOK
<1>2. breaker \in Breakers
  BY TypeSplit
<1>3. ASSUME NEW s \in {"closed", "open", "half-open"}, Becomes(Generation(s)),
             s # breaker.state \/ breaker.due
      PROVE  ProbesAreCounted'
  BY <1>3, NewGeneration
<1>4. ASSUME Becomes(breaker), ~breaker.due, ~current[c] PROVE ProbesAreCounted'
  <2>1. breaker' = breaker /\ current' = current
    BY <1>4 DEF Becomes
  <2>2. \A d \in Callers : d \in InFlight' <=> d \in InFlight
    BY <1>1, <1>4, <2>1 DEF InFlight
  <2> QED
    BY <2>1, <2>2, StillCounted
<1>5. CASE ~Counts(c)
  <2>1. Becomes(Looked)
    BY <1>5 DEF Succeeded, Failed
  <2>2. CASE breaker.due
    BY <1>3, <2>1, <2>2, LookedAgain
  <2>3. CASE ~breaker.due
    BY <1>4, <1>5, <2>1, <2>3 DEF Looked, Counts
  <2> QED
    BY <2>2, <2>3
<1>6. CASE Counts(c) /\ breaker.state = "open"
  BY <1>6 DEF Counts, ProbesAreCounted, InFlight
<1>7. CASE Counts(c) /\ breaker.state = "closed"
  <2>1. CASE Becomes(Generation("open"))
    BY <1>3, <1>7, <2>1
  <2>2. CASE ~Becomes(Generation("open"))
    <3>1. \/ breaker' = [breaker EXCEPT !.failures = 0]
          \/ breaker' = [breaker EXCEPT !.failures = @ + 1]
      BY <1>7, <2>2 DEF Succeeded, Failed, Becomes
    <3>2. breaker'.state = "closed"
      BY <1>2, <1>7, <3>1 DEF Breakers
    <3> QED
      BY <3>2 DEF ProbesAreCounted
  <2> QED
    BY <2>1, <2>2
<1>8. CASE Counts(c) /\ breaker.state = "half-open"
  <2>1. CASE Becomes(Generation("open")) \/ Becomes(Generation("closed"))
    BY <1>3, <1>8, <2>1
  <2>2. CASE Becomes([breaker EXCEPT !.successes = @ + 1])
    <3>1. /\ breaker'.state = "half-open" /\ breaker'.requests = breaker.requests
          /\ breaker'.successes = breaker.successes + 1 /\ current' = current
      BY <1>2, <1>8, <2>2 DEF Becomes, Breakers, Counts
    <3>2. c \in InFlight
      BY <1>8 DEF Counts, InFlight
    <3>3. InFlight' = InFlight \ {c}
      BY <1>1, <3>1 DEF InFlight
    <3>4. Cardinality(InFlight') = Cardinality(InFlight) - 1
      BY <3>2, <3>3, InFlightFinite, FS_RemoveElement
    <3>5. breaker.requests - breaker.successes = Cardinality(InFlight)
      BY <1>8 DEF ProbesAreCounted
    <3>6. breaker.requests \in Int /\ breaker.successes \in Int
      BY <1>2 DEF Breakers
    <3> QED
      BY <3>1, <3>4, <3>5, <3>6, InFlightFinite DEF ProbesAreCounted
  <2> QED
    BY <1>8, <2>1, <2>2 DEF Succeeded, Failed
<1> QED
  BY <1>2, <1>5, <1>6, <1>7, <1>8 DEF Breakers

LEMMA ProbesStep ==
  ASSUME TypeOK, ProbesAreCounted, [Next]_vars
  PROVE  ProbesAreCounted'
<1>1. CASE UNCHANGED vars
  BY <1>1, StillCounted DEF vars, InFlight
<1>2. CASE TimePasses
  <2>1. breaker' = [breaker EXCEPT !.due = TRUE] /\ UNCHANGED <<pc, current>>
    BY <1>2 DEF TimePasses
  <2>2. breaker \in Breakers
    BY TypeSplit
  <2>3. /\ breaker'.state = breaker.state /\ breaker'.requests = breaker.requests
        /\ breaker'.successes = breaker.successes
    BY <2>1, <2>2 DEF Breakers
  <2> QED
    BY <2>1, <2>3, StillCounted DEF InFlight
<1>3. ASSUME NEW c \in Callers, Step(c) PROVE ProbesAreCounted'
  <2>1. pc \in [Callers -> {"idle", "admit", "flight", "served", "recv", "sleep"}]
    BY DEF TypeOK
  <2>2. CASE Admit(c)
    BY <2>2, AdmitCounted
  <2>3. CASE DeadlineExceeded(c) \/ Unavailable(c) \/ LoseConnection(c)
    <3>1. /\ pc[c] \in {"flight", "served"} /\ pc' = [pc EXCEPT ![c] = "sleep"]
          /\ Becomes(Failed(c))
      BY <2>3 DEF DeadlineExceeded, Unavailable, LoseConnection, Retry
    <3> QED
      BY <3>1, ReportCounted
  <2>4. CASE Reply(c) \/ Reject(c)
    <3>1. /\ pc[c] \in {"flight", "served"} /\ pc' = [pc EXCEPT ![c] = "idle"]
          /\ Becomes(Succeeded(c)) \/ Becomes(Failed(c))
      BY <2>4 DEF Reply, Reject, Return
    <3> QED
      BY <3>1, ReportCounted
  <2>5. CASE Open(c)
    <3>1. pc[c] = "flight" /\ pc' = [pc EXCEPT ![c] = "recv"] /\ Becomes(Succeeded(c))
      BY <2>5 DEF Open
    <3> QED
      BY <3>1, ReportCounted
  <2>6. CASE Refuse(c)
    <3>1. pc[c] = "admit" /\ pc' = [pc EXCEPT ![c] = "idle"] /\ Becomes(Looked)
      BY <2>6 DEF Refuse, Return
    <3>2. CASE breaker.due
      BY <3>1, <3>2, LookedAgain, NewGeneration
    <3>3. CASE ~breaker.due
      <4>1. breaker' = breaker /\ current' = current
        BY <3>1, <3>3 DEF Becomes, Looked
      <4>2. \A d \in Callers : d \in InFlight' <=> d \in InFlight
        BY <2>1, <3>1, <4>1 DEF InFlight
      <4> QED
        BY <4>1, <4>2, StillCounted
    <3> QED
      BY <3>2, <3>3
  <2>7. CASE \/ Call(c) \/ Wake(c) \/ GiveUp(c) \/ Expire(c) \/ Serve(c) \/ Hang(c)
             \/ Receive(c) \/ ReceiveFails(c)
    <3>1. UNCHANGED <<breaker, current>>
      BY <2>7 DEF Call, Wake, GiveUp, Expire, Serve, Hang, Receive, ReceiveFails
    <3>2. \/ pc' = pc
          \/ /\ pc[c] \in {"idle", "sleep", "recv"}
             /\ \E step \in {"idle", "admit"} : pc' = [pc EXCEPT ![c] = step]
          \/ pc[c] = "flight" /\ pc' = [pc EXCEPT ![c] = "served"]
      BY <2>7 DEF Call, Wake, GiveUp, Expire, Serve, Hang, Receive, ReceiveFails, Return
    <3>3. \A d \in Callers : d \in InFlight' <=> d \in InFlight
      BY <2>1, <3>1, <3>2 DEF InFlight
    <3> QED
      BY <3>1, <3>3, StillCounted
  <2> QED
    BY <1>3, <2>2, <2>3, <2>4, <2>5, <2>6, <2>7 DEF Step
<1> QED
  BY <1>1, <1>2, <1>3, NextSplit

\* The half-open breaker loses no probe and counts none twice, for any number of callers and
\* of probes: nothing but an unanswered probe of its own makes it refuse.
THEOREM ProbesAlwaysCounted == Spec => []ProbesAreCounted
<1>1. Init => ProbesAreCounted
  BY DEF Init, Generation, ProbesAreCounted
<1> QED
  BY <1>1, ProbesStep, TypeCorrect, PTL DEF Spec

\* So a half-open breaker never locks itself: it refuses only while a probe is in flight.
THEOREM RefusesOnlyForProbes ==
  Spec => [](breaker.state = "half-open" /\ ~Admits => InFlight # {})
<1>1. TypeOK /\ ProbesAreCounted /\ breaker.state = "half-open" /\ ~Admits => InFlight # {}
  <2> SUFFICES ASSUME TypeOK, ProbesAreCounted, breaker.state = "half-open", ~Admits,
                      InFlight = {}
               PROVE  FALSE
    OBVIOUS
  <2>1. breaker \in Breakers /\ breaker.requests = breaker.successes
    <3>1. breaker.requests - breaker.successes = 0
      BY FS_EmptySet DEF ProbesAreCounted
    <3> QED
      BY <3>1, TypeSplit DEF Breakers
  <2>2. breaker.requests < MaxRequests
    BY <2>1 DEF Breakers
  <2>3. ~breaker.due => Admits
    BY <2>2 DEF Admits, Looked, Closed
  <2>4. breaker.due => Admits
    BY DEF Admits, Looked, Closed, Generation
  <2> QED
    BY <2>3, <2>4, <2>1 DEF Breakers
<1> QED
  BY <1>1, TypeCorrect, ProbesAlwaysCounted, PTL

-------------------------------------------------------------------------------
(* A call comes to its end.                                                  *)

\* The steps a call can still take: four for each attempt not made, and those of the attempt
\* it is in.
InAttempt(step) ==
  IF step = "flight" THEN 3 ELSE IF step \in {"served", "recv"} THEN 2
  ELSE IF step = "sleep" THEN 1 ELSE 0

StepsLeft(c) == 4 * (Attempts - tries[c]) + InAttempt(pc[c])

\* The steps that bring a call on, well or badly.
Moves(c) == (Proceed(c) \/ GoWrong(c)) /\ ~Hang(c)

\* Where such a step takes a call that is under way.
LEMMA MoveOn ==
  ASSUME Inv, NEW c \in Callers, Moves(c), pc'[c] # "idle"
  PROVE  \/ /\ pc[c] = "admit" /\ pc'[c] = "flight" /\ tries[c] < Attempts
            /\ tries'[c] = tries[c] + 1
         \/ /\ tries'[c] = tries[c]
            /\ \/ pc[c] = "flight" /\ pc'[c] \in {"served", "recv", "sleep"}
               \/ pc[c] = "served" /\ pc'[c] = "sleep"
               \/ pc[c] = "sleep" /\ pc'[c] = "admit"
<1>1. CallType /\ AttemptOf(c)
  BY TypeSplit DEF Inv
<1>2. CASE Refuse(c) \/ GiveUp(c) \/ Reply(c) \/ Reject(c) \/ Receive(c) \/ ReceiveFails(c)
  <2>1. Return(c, "ok") \/ Return(c, "error")
    BY <1>2 DEF Refuse, GiveUp, Reply, Reject, Receive, ReceiveFails
  <2> QED
    BY <1>1, <2>1 DEF Return, CallType
<1>3. CASE Admit(c)
  BY <1>1, <1>3 DEF Admit, CallType, AttemptOf
<1>4. CASE Serve(c) \/ Open(c)
  BY <1>1, <1>4 DEF Serve, Open, CallType
<1>5. CASE DeadlineExceeded(c) \/ Unavailable(c) \/ LoseConnection(c)
  <2>1. pc[c] \in {"flight", "served"} /\ Retry(c)
    BY <1>5 DEF DeadlineExceeded, Unavailable, LoseConnection
  <2> QED
    BY <1>1, <2>1 DEF Retry, CallType
<1>6. CASE Wake(c)
  BY <1>1, <1>6 DEF Wake, CallType, callVars
<1> QED
  BY <1>2, <1>3, <1>4, <1>5, <1>6 DEF Moves, Proceed, GoWrong

\* Nothing else moves it.
LEMMA StandsStill ==
  ASSUME Inv, [Next]_vars, NEW c \in Callers, ~Moves(c), pc[c] # "idle"
  PROVE  pc'[c] = pc[c] /\ tries'[c] = tries[c]
<1>1. CASE TimePasses \/ UNCHANGED vars \/ Expire(c) \/ Hang(c)
  BY <1>1 DEF TimePasses, vars, callVars, Expire, Hang
<1>2. ASSUME NEW d \in Callers \ {c}, Step(d) PROVE pc'[c] = pc[c] /\ tries'[c] = tries[c]
  <2>1. Kept(d)
    BY <1>2, TypeSplit, CallStep DEF Inv
  <2> QED
    BY <2>1 DEF Kept
<1>3. CASE Call(c)
  BY <1>3 DEF Call
<1>4. CASE Step(c) /\ ~Call(c) /\ ~Expire(c) /\ ~Hang(c)
  BY <1>4 DEF Step, Moves, Proceed, GoWrong
<1> QED
  BY <1>1, <1>2, <1>3, <1>4, NextSplit

\* A call returns after at most 4 * Attempts + 1 steps: each step of it, whatever goes wrong,
\* ends it or leaves it fewer, and no step of the other callers, of its deadline or of the breaker
\* gives it more; only a service that hangs can hold it.  So retryRPC, with its sleeps and one
\* deadline for all attempts, never goes on for ever.
THEOREM EveryCallComesToItsEnd ==
  Spec => /\ [](\A c \in Callers : /\ StepsLeft(c) \in Nat
                                   /\ pc[c] = "admit" => StepsLeft(c) \in 1 .. 4 * Attempts)
          /\ [][\A c \in Callers : pc[c] # "idle" /\ pc'[c] # "idle" =>
                  /\ Moves(c) => StepsLeft(c)' < StepsLeft(c)
                  /\ ~Moves(c) => StepsLeft(c)' = StepsLeft(c)]_vars
<1>1. ASSUME Inv
      PROVE  \A c \in Callers : /\ StepsLeft(c) \in Nat
                                /\ pc[c] = "admit" => StepsLeft(c) \in 1 .. 4 * Attempts
  <2> SUFFICES ASSUME NEW c \in Callers
               PROVE  /\ StepsLeft(c) \in Nat
                      /\ pc[c] = "admit" => StepsLeft(c) \in 1 .. 4 * Attempts
    OBVIOUS
  <2>1. tries[c] \in 0 .. Attempts /\ (pc[c] = "admit" => tries[c] < Attempts)
    BY <1>1, TypeSplit DEF Inv, CallType, AttemptOf
  <2> PICK t \in 0 .. Attempts : t = tries[c]
    BY <2>1
  <2>2. /\ 4 * (Attempts - t) \in 0 .. 4 * Attempts
        /\ t < Attempts => 4 * (Attempts - t) >= 1
    OBVIOUS
  <2>3. InAttempt(pc[c]) \in Nat /\ (pc[c] = "admit" => InAttempt(pc[c]) = 0)
    BY DEF InAttempt
  <2> QED
    BY <2>1, <2>2, <2>3 DEF StepsLeft
<1>2. ASSUME Inv, [Next]_vars
      PROVE  \A c \in Callers : pc[c] # "idle" /\ pc'[c] # "idle" =>
               /\ Moves(c) => StepsLeft(c)' < StepsLeft(c)
               /\ ~Moves(c) => StepsLeft(c)' = StepsLeft(c)
  <2> SUFFICES ASSUME NEW c \in Callers, pc[c] # "idle", pc'[c] # "idle"
               PROVE  /\ Moves(c) => StepsLeft(c)' < StepsLeft(c)
                      /\ ~Moves(c) => StepsLeft(c)' = StepsLeft(c)
    OBVIOUS
  <2>1. tries[c] \in 0 .. Attempts
    BY <1>2, TypeSplit DEF Inv, CallType
  <2> PICK t \in 0 .. Attempts : t = tries[c]
    BY <2>1
  <2>2. CASE Moves(c)
    <3>1. CASE /\ tries[c] < Attempts /\ tries'[c] = tries[c] + 1
               /\ pc[c] = "admit" /\ pc'[c] = "flight"
      <4>1. InAttempt(pc[c]) = 0 /\ InAttempt(pc'[c]) = 3
        BY <3>1 DEF InAttempt
      <4>2. 4 * (Attempts - (t + 1)) + 3 < 4 * (Attempts - t) + 0
        OBVIOUS
      <4>3. StepsLeft(c)' < StepsLeft(c)
        BY <3>1, <4>1, <4>2 DEF StepsLeft
      <4> QED
        BY <2>2, <4>3
    <3>2. CASE /\ tries'[c] = tries[c]
               /\ \/ pc[c] = "flight" /\ pc'[c] \in {"served", "recv", "sleep"}
                  \/ pc[c] = "served" /\ pc'[c] = "sleep"
                  \/ pc[c] = "sleep" /\ pc'[c] = "admit"
      <4>1. InAttempt(pc'[c]) < InAttempt(pc[c]) /\ InAttempt(pc'[c]) \in Nat
            /\ InAttempt(pc[c]) \in Nat
        BY <3>2 DEF InAttempt
      <4>2. 4 * (Attempts - t) \in Int
        OBVIOUS
      <4>3. StepsLeft(c)' < StepsLeft(c)
        BY <3>2, <4>1, <4>2 DEF StepsLeft
      <4> QED
        BY <2>2, <4>3
    <3> QED
      BY <1>2, <2>2, <3>1, <3>2, MoveOn
  <2>3. CASE ~Moves(c)
    BY <1>2, <2>3, StandsStill DEF StepsLeft
  <2> QED
    BY <2>2, <2>3
<1> QED
  BY <1>1, <1>2, AlwaysInv, PTL DEF Spec
===============================================================================
