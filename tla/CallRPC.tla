-------------------------------- MODULE CallRPC --------------------------------
(***************************************************************************)
(* The gateway's calls of one service: CallRPC makes up to Attempts attempts, *)
(* each through the circuit breaker of that service (sony/gobreaker), which   *)
(* all handlers share.  A unary call is over with its reply; a stream only    *)
(* has to be opened, and what comes afterwards meets neither retries nor the  *)
(* breaker.  The deadline of a call, if it has one, is made once, before the  *)
(* first attempt.  The service may be busy, refuse, be unreachable, lose the  *)
(* connection after it did the work, be slow, or hang.                        *)
(***************************************************************************)
EXTENDS Integers, FiniteSets

CONSTANTS
  Callers,      \* handlers that call at a time
  Attempts,     \* attempts of retryRPC, 5
  MaxRequests,  \* CBMaxRequests, 5: what a half-open breaker admits
  FailCnt,      \* CBFailCnt, 5: consecutive failures that open it
  MaxFaults     \* bound: things that go wrong

ASSUME NumbersAssumption ==
  /\ Attempts \in Nat \ {0} /\ MaxRequests \in Nat \ {0} /\ FailCnt \in Nat \ {0}
  /\ MaxFaults \in Nat
ASSUME CallersAssumption == IsFiniteSet(Callers)

VARIABLES
  service,   \* whose breaker this is
  breaker,   \* [state, due, requests, failures, successes]
  pc,        \* "idle", "admit", "flight", "served", "recv" or "sleep"
  op,        \* the operation: [stream, deadline]
  tries,     \* attempts made, i of retryRPC
  current,   \* whether the attempt was admitted in the breaker's current generation
  expired,   \* whether the deadline has passed
  hung,      \* the callers whose request the service will never answer
  faults,    \* things that went wrong so far
  result,    \* history: what the last call returned, "ok" or "error"
  executed,  \* history: how often the service did the work of the call
  lost       \* history: how many of its attempts lost the connection meanwhile

callVars == <<op, tries, expired, executed, lost, result>>
vars == <<service, breaker, pc, current, hung, faults, callVars>>

Fault == faults < MaxFaults /\ faults' = faults + 1

\* What the gateway calls: users and learn have unary calls with a deadline; of the
\* AI service GenerateText is a stream with one, RecognizeAudio a stream without,
\* GenerateAudio and ClearAIContext are unary and without (context.Background()).
Operations ==
  IF service = "ai"
  THEN {[stream |-> TRUE, deadline |-> TRUE], [stream |-> TRUE, deadline |-> FALSE],
        [stream |-> FALSE, deadline |-> FALSE]}
  ELSE {[stream |-> FALSE, deadline |-> TRUE]}

\* Mutant: context.Background() everywhere.
HasDeadlineNever(c) == FALSE

HasDeadline(c) == op[c].deadline

-------------------------------------------------------------------------------
(* The breaker: gobreaker with the settings of NewCB.                        *)

Generation(state) ==
  [state |-> state, due |-> FALSE, requests |-> 0, failures |-> 0, successes |-> 0]

\* currentState: what the breaker turns into, once somebody looks, when the interval
\* (closed) or the timeout (open) is over.
Looked ==
  IF ~breaker.due THEN breaker
  ELSE Generation(IF breaker.state = "closed" THEN "closed" ELSE "half-open")

Closed == Looked.state = "closed"

Admits ==
  Closed \/ (Looked.state = "half-open" /\ Looked.requests < MaxRequests)

\* The interval or the timeout of the breaker passes.
TimePasses ==
  /\ breaker.state # "half-open" /\ ~breaker.due
  /\ breaker' = [breaker EXCEPT !.due = TRUE]
  /\ UNCHANGED <<service, pc, current, hung, faults, callVars>>

\* ReadyToTrip.
Trips(failures) == failures >= FailCnt

\* Mutant: the generation of the attempt is not compared.
CountsAnyGeneration(c) == ~breaker.due

\* An answer of an earlier generation does not count.
Counts(c) == current[c] /\ ~breaker.due

\* A closed breaker needs the consecutive failures, a half-open one what it admitted
\* and its consecutive successes; the other counts are not kept.
Succeeded(c) ==
  IF ~Counts(c) THEN Looked
  ELSE IF breaker.state = "closed" THEN [breaker EXCEPT !.failures = 0]
  ELSE IF breaker.successes + 1 >= MaxRequests THEN Generation("closed")
  ELSE [breaker EXCEPT !.successes = @ + 1]

Failed(c) ==
  IF ~Counts(c) THEN Looked
  ELSE IF breaker.state = "half-open" \/ Trips(breaker.failures + 1) THEN Generation("open")
  ELSE [breaker EXCEPT !.failures = @ + 1]

\* With a new generation nobody's attempt is of the current one any more.
Becomes(b) ==
  /\ breaker' = b
  /\ current' = IF b.state # breaker.state \/ breaker.due
                THEN [c \in Callers |-> FALSE] ELSE current

-------------------------------------------------------------------------------
(* CallRPC and retryRPC.                                                     *)

Call(c) ==
  /\ pc[c] = "idle"
  /\ \E o \in Operations : op' = [op EXCEPT ![c] = o]
  /\ pc' = [pc EXCEPT ![c] = "admit"]
  /\ tries' = [tries EXCEPT ![c] = 0] /\ expired' = [expired EXCEPT ![c] = FALSE]
  /\ executed' = [executed EXCEPT ![c] = 0] /\ lost' = [lost EXCEPT ![c] = 0]
  /\ UNCHANGED <<service, breaker, current, hung, faults, result>>

Return(c, res) ==
  /\ pc' = [pc EXCEPT ![c] = "idle"] /\ result' = [result EXCEPT ![c] = res]
  /\ hung' = hung \ {c}

\* Execute runs the attempt.
Admit(c) ==
  /\ pc[c] = "admit" /\ Admits
  /\ breaker' = IF Closed THEN Looked ELSE [Looked EXCEPT !.requests = @ + 1]
  /\ current' = [d \in Callers |-> d = c \/ (current[d] /\ ~breaker.due)]
  /\ pc' = [pc EXCEPT ![c] = "flight"] /\ tries' = [tries EXCEPT ![c] = @ + 1]
  /\ UNCHANGED <<service, op, expired, hung, faults, result, executed, lost>>

\* ErrOpenState and ErrTooManyRequests carry no status: no retry.
Refuse(c) ==
  /\ pc[c] = "admit" /\ ~Admits
  /\ Becomes(Looked)
  /\ Return(c, "error")
  /\ UNCHANGED <<service, op, tries, expired, faults, executed, lost>>

\* The attempt ends with an error that shouldRetry accepts.
Retry(c) ==
  /\ Becomes(Failed(c))
  /\ pc' = [pc EXCEPT ![c] = "sleep"] /\ hung' = hung \ {c}
  /\ UNCHANGED <<service, op, tries, expired, result>>

\* Mutant: an attempt more.
GivesUpLate(c) == tries[c] > Attempts

GivesUp(c) == tries[c] = Attempts

\* Mutant: every attempt has a deadline of its own.
WakeAfresh(c) ==
  /\ pc[c] = "sleep" /\ ~GivesUp(c)
  /\ pc' = [pc EXCEPT ![c] = "admit"] /\ expired' = [expired EXCEPT ![c] = FALSE]
  /\ UNCHANGED <<service, breaker, current, hung, faults, op, tries, result, executed,
                 lost>>

\* It sleeps after every failed attempt, then tries again.
Wake(c) ==
  /\ pc[c] = "sleep" /\ ~GivesUp(c)
  /\ pc' = [pc EXCEPT ![c] = "admit"]
  /\ UNCHANGED <<service, breaker, current, hung, faults, callVars>>

\* After the last attempt, and the last sleep, the error has lost its status.
GiveUp(c) ==
  /\ pc[c] = "sleep" /\ GivesUp(c)
  /\ Return(c, "error")
  /\ UNCHANGED <<service, breaker, current, faults, op, tries, expired, executed, lost>>

-------------------------------------------------------------------------------
(* What an attempt meets.                                                    *)

\* The deadline passes: in time for a hung call, too early for another.
Expire(c) ==
  /\ pc[c] # "idle" /\ HasDeadline(c) /\ ~expired[c]
  /\ (c \in hung /\ UNCHANGED faults) \/ Fault
  /\ expired' = [expired EXCEPT ![c] = TRUE]
  /\ UNCHANGED <<service, breaker, pc, current, hung, op, tries, executed, lost, result>>

\* With the deadline behind it an attempt ends at once, wherever it is.
DeadlineExceeded(c) ==
  /\ pc[c] \in {"flight", "served"} /\ expired[c]
  /\ Retry(c)
  /\ UNCHANGED <<faults, executed, lost>>

\* A unary call reaches the service, which does the work.
Serve(c) ==
  /\ pc[c] = "flight" /\ ~op[c].stream /\ ~expired[c]
  /\ pc' = [pc EXCEPT ![c] = "served"] /\ executed' = [executed EXCEPT ![c] = @ + 1]
  /\ UNCHANGED <<service, breaker, current, hung, faults, op, tries, expired, lost, result>>

Reply(c) ==
  /\ pc[c] = "served" /\ c \notin hung
  /\ Becomes(Succeeded(c))
  /\ Return(c, "ok")
  /\ UNCHANGED <<service, op, tries, expired, faults, executed, lost>>

\* The service does not answer, now or later.
Hang(c) ==
  /\ pc[c] \in {"served", "recv"} /\ c \notin hung /\ Fault
  /\ hung' = hung \cup {c}
  /\ UNCHANGED <<service, breaker, pc, current, callVars>>

\* The service cannot be reached (Unavailable), or has no worker (ResourceExhausted).
Unavailable(c) ==
  /\ pc[c] = "flight" /\ ~expired[c] /\ Fault
  /\ Retry(c)
  /\ UNCHANGED <<executed, lost>>

\* The connection is lost (Unavailable), the work is done.
LoseConnection(c) ==
  /\ pc[c] = "served" /\ ~expired[c] /\ Fault
  /\ lost' = [lost EXCEPT ![c] = @ + 1]
  /\ Retry(c)
  /\ UNCHANGED executed

\* The service returns an error of its own (Unknown): a failure to the breaker, and
\* no retry.
Reject(c) ==
  /\ pc[c] = "flight" /\ ~op[c].stream /\ ~expired[c] /\ Fault
  /\ Becomes(Failed(c))
  /\ Return(c, "error")
  /\ UNCHANGED <<service, op, tries, expired, executed, lost>>

\* A stream is open, the breaker content; the service does its work behind it.
Open(c) ==
  /\ pc[c] = "flight" /\ op[c].stream /\ ~expired[c]
  /\ Becomes(Succeeded(c))
  /\ pc' = [pc EXCEPT ![c] = "recv"] /\ executed' = [executed EXCEPT ![c] = @ + 1]
  /\ UNCHANGED <<service, hung, op, tries, expired, faults, lost, result>>

\* Recv until the end of the stream.
Receive(c) ==
  /\ pc[c] = "recv" /\ c \notin hung /\ ~expired[c]
  /\ Return(c, "ok")
  /\ UNCHANGED <<service, breaker, current, faults, op, tries, expired, executed, lost>>

\* Recv fails: with the deadline, the connection or a status of the service.
ReceiveFails(c) ==
  /\ pc[c] = "recv"
  /\ \/ expired[c] /\ UNCHANGED <<faults, lost>>
     \/ Fault /\ lost' = [lost EXCEPT ![c] = @ + 1]
  /\ Return(c, "error")
  /\ UNCHANGED <<service, breaker, current, op, tries, expired, executed>>

-------------------------------------------------------------------------------

Init ==
  /\ service \in {"users", "ai"}   \* learn is called as users is
  /\ breaker = Generation("closed")
  /\ pc = [c \in Callers |-> "idle"]
  /\ op = [c \in Callers |-> [stream |-> FALSE, deadline |-> TRUE]]
  /\ tries = [c \in Callers |-> 0]
  /\ current = [c \in Callers |-> FALSE] /\ expired = [c \in Callers |-> FALSE]
  /\ hung = {} /\ faults = 0
  /\ result = [c \in Callers |-> "ok"]
  /\ executed = [c \in Callers |-> 0] /\ lost = [c \in Callers |-> 0]

\* What a call does by itself, given a service that works.
Proceed(c) ==
  \/ Admit(c) \/ Refuse(c) \/ Serve(c) \/ Reply(c) \/ Open(c) \/ Receive(c)
  \/ DeadlineExceeded(c) \/ Wake(c) \/ GiveUp(c)
  \/ (expired[c] /\ ReceiveFails(c))

GoWrong(c) ==
  Unavailable(c) \/ LoseConnection(c) \/ Reject(c) \/ Hang(c) \/ ReceiveFails(c)

Next ==
  TimePasses \/ \E c \in Callers : Call(c) \/ Proceed(c) \/ GoWrong(c) \/ Expire(c)

Spec == Init /\ [][Next]_vars

\* Time passes for the breaker and for the deadlines, users go on calling, and a
\* handler is a goroutine that goes on unless it waits for a service that hangs.
FairSpec ==
  /\ Spec /\ WF_vars(TimePasses)
  /\ \A c \in Callers : WF_vars(Call(c)) /\ WF_vars(Proceed(c)) /\ WF_vars(Expire(c))

-------------------------------------------------------------------------------
(* Properties.                                                               *)

TypeOK ==
  /\ service \in {"users", "ai"}
  /\ breaker \in [state : {"closed", "open", "half-open"}, due : BOOLEAN,
                  requests : 0 .. MaxRequests, failures : 0 .. FailCnt - 1,
                  successes : 0 .. MaxRequests - 1]
  /\ pc \in [Callers -> {"idle", "admit", "flight", "served", "recv", "sleep"}]
  /\ op \in [Callers -> [stream : BOOLEAN, deadline : BOOLEAN]]
  /\ tries \in [Callers -> 0 .. Attempts]
  /\ current \in [Callers -> BOOLEAN] /\ expired \in [Callers -> BOOLEAN]
  /\ hung \subseteq Callers /\ faults \in Nat
  /\ \A c \in hung : pc[c] \in {"served", "recv"}
  /\ result \in [Callers -> {"ok", "error"}]
  /\ executed \in [Callers -> 0 .. Attempts] /\ lost \in [Callers -> 0 .. Attempts]

\* Five attempts do the work once, and once more for every connection lost behind it:
\* a busy service, a deadline or a breaker that opens half-way never repeats it.  What
\* is reported as done was done, and what is reported as failed was not, unless the
\* connection or the deadline cut off the answer.
EffectsAgree ==
  \A c \in Callers :
    /\ executed[c] <= 1 + lost[c]
    /\ pc[c] = "idle" /\ result[c] = "error" /\ executed[c] > 0 => lost[c] > 0 \/ expired[c]
    /\ pc[c] = "idle" /\ result[c] = "ok" /\ tries[c] > 0 => executed[c] > 0

\* The attempts that the breaker's current generation waits for.
InFlight == {c \in Callers : current[c] /\ pc[c] \in {"flight", "served"}}

\* No probe is lost or counted twice: what a half-open breaker has admitted and not yet
\* seen succeed is just what is in flight, so that it refuses a call only while a probe
\* of its own is unanswered, whatever comes in late from earlier generations.  An open
\* one waits for nobody.
ProbesAreCounted ==
  /\ breaker.state = "half-open" =>
       breaker.requests - breaker.successes = Cardinality(InFlight)
  /\ breaker.state = "open" => InFlight = {}

\* A breaker that opened closes again once faults end, as long as there are calls:
\* probes that fail, expire or belong to an older generation only delay it.  The
\* exceptions need a service that hangs and a call without a deadline: a unary one
\* keeps its place among the probes for ever, and handlers that all wait in the
\* streams of the AI service call no more.
BreakerRecovers ==
  breaker.state # "closed" ~>
    \/ breaker.state = "closed"
    \/ \E c \in hung : ~op[c].deadline /\ ~op[c].stream
    \/ \A c \in Callers : c \in hung /\ ~op[c].deadline
===============================================================================
