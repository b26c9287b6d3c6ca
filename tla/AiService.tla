-------------------------------- MODULE AiService --------------------------------
(***************************************************************************)
(* ai-service: handlers of gRPC calls that run at the same time and share the *)
(* counters of workers, the pools of buffers, one speech recognizer and, in   *)
(* Redis, the context of each user's conversation with the language model.    *)
(* The language model, the synthesizer (piper), ffmpeg and the recognizer     *)
(* (vosk) are modelled by what the service takes from them.  A call is known  *)
(* by its number, which also stands for the turn, text or voice it brings;    *)
(* <<call, i>> is the i-th line of an answer or the i-th chunk of a voice.    *)
(***************************************************************************)
EXTENDS Integers, Sequences, FiniteSets

CONSTANTS
  Users,      \* Telegram ids of the users who chat, none of them 0
  Handlers,   \* handlers that can be at work at a time
  Limit,      \* tttLimit, 5
  Pieces,     \* bound: lines of an answer, chunks (sttStep samples) of a voice
  MaxCalls,   \* bound: calls
  MaxFaults   \* bound: errors of Redis, of the programs called, and restarts

ASSUME NumbersAssumption ==
  /\ Limit \in Nat \ {0} /\ Pieces \in Nat \ {0}
  /\ MaxCalls \in Nat /\ MaxFaults \in Nat

ASSUME SetsAssumption == Users \cap {0} = {} /\ IsFiniteSet(Handlers)

VARIABLES
  owner,     \* history: the Uuid each call came with; the calls so far
  faults,    \* faults so far
  workers,   \* tttCnt, ttsCnt and sttCnt
  pc,        \* where a handler is; "done" is a reply on its way to the client
  job,       \* its request and its local variables, see NoJob
  stored,    \* user_context:<uuid> in Redis; none, null and [] are the same
  spare,     \* what is in the buffer that was put back last into each pool
  array,     \* the call whose audio is in an array of bytes, or 0
  rec,       \* what the recognizer took in since its last result
  since,     \* history: the turns answered since the context was last emptied
  mixed,     \* history: users whose calls overlapped since then
  erased     \* history: turns emptied while no call of their user was at work

conversation == <<stored, since, mixed, erased>>
vars == <<owner, faults, workers, pc, job, conversation, spare, array, rec>>

Kinds == {"text", "audio", "speech"}

NoJob ==
  [kind |-> "text", uuid |-> 0, call |-> 0,
   pieces |-> 0,                          \* lines said by the model, chunks taken
   sent |-> <<>>,                         \* stream.Send
   resBuf |-> <<>>, uctx |-> <<>>, newUctx |-> <<>>,
   audioBuf |-> 0,                        \* the array behind the slice
   alone |-> TRUE]                        \* history: had the recognizer to itself

Fault == faults < MaxFaults /\ faults' = faults + 1

Works(h, to, j) == pc' = [pc EXCEPT ![h] = to] /\ job' = [job EXCEPT ![h] = j]

-------------------------------------------------------------------------------
(* Workers.                                                                  *)

\* ADMIN_UUID is looked up twice, so the administrator is 0 whatever it says.
adminUUID == 0

\* The gateway fills in Uuid with texts only.
Uuids(kind) == IF kind = "text" THEN Users ELSE {adminUUID}

\* atomic.AddInt32, and the comparison of what it returned.
Enter(h) ==
  /\ pc[h] = "idle" /\ Len(owner) < MaxCalls
  /\ \E kind \in Kinds : \E uuid \in Uuids(kind) :
       /\ owner' = Append(owner, uuid)
       /\ workers' = [workers EXCEPT ![kind] = @ + 1]
       /\ Works(h, IF workers'[kind] > Limit /\ uuid # adminUUID THEN "refused" ELSE kind,
                [NoJob EXCEPT !.kind = kind, !.uuid = uuid, !.call = Len(owner) + 1])
  /\ UNCHANGED <<faults, conversation, spare, array, rec>>

\* The deferred decrement, last of all, whatever the handler came to.
Leave(h) == workers' = [workers EXCEPT ![job[h].kind] = @ - 1]

\* Mutant: the decrement is deferred only after the comparison.
RefuseUncounted(h) ==
  /\ pc[h] = "refused" /\ Works(h, "idle", NoJob)
  /\ UNCHANGED <<owner, faults, workers, conversation, spare, array, rec>>

\* Mutant: a refused call is counted down once more, before it returns.
RefuseTwice(h) ==
  /\ pc[h] = "refused" /\ Works(h, "idle", NoJob)
  /\ workers' = [workers EXCEPT ![job[h].kind] = @ - 2]
  /\ UNCHANGED <<owner, faults, conversation, spare, array, rec>>

\* ResourceExhausted.
Refuse(h) ==
  /\ pc[h] = "refused" /\ Leave(h) /\ Works(h, "idle", NoJob)
  /\ UNCHANGED <<owner, faults, conversation, spare, array, rec>>

\* gRPC sends the reply after the handler has returned.
Deliver(h) ==
  /\ pc[h] = "done" /\ Works(h, "idle", NoJob)
  /\ UNCHANGED <<owner, faults, workers, conversation, spare, array, rec>>

-------------------------------------------------------------------------------
(* Pools: sync.Pool may forget what it holds; here it keeps what came last.  *)
(* Get takes that buffer or a new one.                                       *)

\* The deferred Puts of GenerateText; the buffer of text is reset when it is taken.
PutBuffers(j) == spare' = [spare EXCEPT !.context = {j.newUctx}]

-------------------------------------------------------------------------------
(* GenerateText, which runs on after its client has left.                    *)

\* The handlers that have read the context of u and not yet written it.
AtWorkFor(u) ==
  {h \in Handlers : job[h].uuid = u /\ pc[h] \in {"lines", "write"}}

\* The context, then a buffer for the text, which is reset, and one for the context,
\* which is not.
GetUserContext(h) ==
  LET u == job[h].uuid IN
  /\ pc[h] = "text"
  /\ \E x \in {<<>>} \cup spare.context :
       /\ Works(h, "lines", [job[h] EXCEPT !.uctx = stored[u], !.resBuf = <<>>, !.newUctx = x])
       /\ spare' = [spare EXCEPT !.context = @ \ {x}]
  /\ mixed' = IF AtWorkFor(u) = {} THEN mixed ELSE mixed \cup {u}
  /\ UNCHANGED <<owner, faults, workers, stored, since, erased, array, rec>>

FailContext(h) ==
  /\ pc[h] = "text" /\ Fault /\ Leave(h) /\ Works(h, "idle", NoJob)
  /\ UNCHANGED <<owner, conversation, spare, array, rec>>

\* The model says a line; the text goes out when it exceeds batchSizeThreehold.
SayLine(h) ==
  LET j    == job[h]
      text == Append(j.resBuf, <<j.call, j.pieces + 1>>)
  IN
  /\ pc[h] = "lines" /\ j.pieces < Pieces
  /\ \/ Works(h, "lines", [j EXCEPT !.pieces = @ + 1, !.resBuf = text])
     \/ Works(h, "lines", [j EXCEPT !.pieces = @ + 1, !.resBuf = <<>>, !.sent = @ \o text])
  /\ UNCHANGED <<owner, faults, workers, conversation, spare, array, rec>>

\* Mutant: what the model returned is appended to what is in the buffer.
NewContextAppended(j) == j.newUctx \o Append(j.uctx, j.call)

\* *buf = lastContext: what the model was given, and this turn.
NewContext(j) == Append(j.uctx, j.call)

SendRest(j) == [j EXCEPT !.sent = @ \o j.resBuf, !.resBuf = <<>>]

\* The answer ends.  If its last line carries no context (an error of the model, in a
\* response that began with 200 OK) the new context is nil.
EndAnswer(h) ==
  /\ pc[h] = "lines"
  /\ \/ /\ job[h].pieces > 0
        /\ Works(h, "write", [SendRest(job[h]) EXCEPT !.newUctx = NewContext(job[h])])
        /\ UNCHANGED faults
     \/ Fault /\ Works(h, "write", [SendRest(job[h]) EXCEPT !.newUctx = <<>>])
  /\ UNCHANGED <<owner, workers, conversation, spare, array, rec>>

\* The request or the reading of the response fails.
FailAnswer(h) ==
  /\ pc[h] = "lines" /\ Fault
  /\ PutBuffers(job[h]) /\ Leave(h) /\ Works(h, "idle", NoJob)
  /\ UNCHANGED <<owner, conversation, array, rec>>

\* The write reaches Redis, with an error for its client or without.
SetUserContext(h) ==
  LET j == job[h] IN
  /\ pc[h] = "write"
  /\ \/ /\ stored' = [stored EXCEPT ![j.uuid] = j.newUctx]
        /\ since' = [since EXCEPT ![j.uuid] =
                       IF j.newUctx = <<>> THEN <<>> ELSE Append(@, j.call)]
        /\ UNCHANGED faults
     \/ Fault /\ UNCHANGED <<stored, since>>
  /\ PutBuffers(j) /\ Leave(h)
  /\ Works(h, "done", [j EXCEPT !.uctx = <<>>, !.newUctx = <<>>])
  /\ UNCHANGED <<owner, mixed, erased, array, rec>>

TurnsOf(context) == {context[i] : i \in DOMAIN context}

\* The key is deleted; no handler at work looks whether it is still there.
Forget(u) ==
  /\ stored' = [stored EXCEPT ![u] = <<>>] /\ since' = [since EXCEPT ![u] = <<>>]
  /\ IF AtWorkFor(u) = {}
     THEN mixed' = mixed \ {u} /\ erased' = erased \cup TurnsOf(stored[u])
     ELSE mixed' = mixed \cup {u} /\ erased' = erased
  /\ UNCHANGED <<owner, faults, workers, pc, job, spare, array, rec>>

ClearAIContext(u) == Forget(u)

\* ctxTTL after the last write.
ExpireContext(u) == stored[u] # <<>> /\ Forget(u)

-------------------------------------------------------------------------------
(* GenerateAudio.                                                            *)

\* audioPool.Get.  The array of a new slice is named after the call.
TakeSlice(h) ==
  /\ pc[h] = "audio"
  /\ \E a \in {job[h].call} \cup spare.audio :
       /\ Works(h, "synthesis", [job[h] EXCEPT !.audioBuf = a])
       /\ spare' = [spare EXCEPT !.audio = @ \ {a}]
  /\ UNCHANGED <<owner, faults, workers, conversation, array, rec>>

\* Mutant: the output is copied into the pooled slice.
OutputPooled(j) == j.audioBuf

\* outBuf of the call.
Output(j) == j.call

\* *buf = outBuf.Bytes(): the slice is put back with the array of the reply behind it,
\* before the reply is sent.
Synthesize(h) ==
  LET j == job[h] IN
  /\ pc[h] = "synthesis"
  /\ array' = [array EXCEPT ![Output(j)] = j.call]
  /\ spare' = [spare EXCEPT !.audio = {Output(j)}]
  /\ Leave(h) /\ Works(h, "done", [j EXCEPT !.audioBuf = Output(j)])
  /\ UNCHANGED <<owner, faults, conversation, rec>>

\* The program fails, or is killed because the client has left.
FailSynthesis(h) ==
  /\ pc[h] = "synthesis" /\ Fault
  /\ spare' = [spare EXCEPT !.audio = {job[h].audioBuf}]
  /\ Leave(h) /\ Works(h, "idle", NoJob)
  /\ UNCHANGED <<owner, conversation, array, rec>>

-------------------------------------------------------------------------------
(* RecognizeAudio.                                                           *)

Recognizing == {h \in Handlers : pc[h] \in {"chunk", "result"}}

\* decodeOggToPCM, and into RecognizeSpeech; or it fails.
Decode(h) ==
  /\ pc[h] = "speech"
  /\ \/ /\ pc' = [pc EXCEPT ![h] = "chunk"]
        /\ job' = [g \in Handlers |->
             IF g = h \/ g \in Recognizing
             THEN [job[g] EXCEPT !.alone = @ /\ Recognizing = {}] ELSE job[g]]
        /\ UNCHANGED <<faults, workers>>
     \/ Fault /\ Leave(h) /\ Works(h, "idle", NoJob)
  /\ UNCHANGED <<owner, conversation, spare, array, rec>>

\* AcceptWaveform, which finds the end of an utterance or does not.  Nothing keeps two
\* handlers from being in it at a time: then samples may get lost.
AcceptWaveform(h) ==
  LET j     == job[h]
      piece == <<j.call, j.pieces + 1>>
  IN
  /\ pc[h] = "chunk" /\ j.pieces < Pieces
  /\ rec' = Append(rec, piece) \/ (Recognizing # {h} /\ rec' = rec)
  /\ \E to \in {"result", "chunk"} : Works(h, to, [j EXCEPT !.pieces = @ + 1])
  /\ UNCHANGED <<owner, faults, workers, conversation, spare, array>>

\* Result empties the recognizer.  PartialResult, after a chunk that ends no utterance,
\* leaves it alone, and the window over it (skipCnt, start, end) is moved in a copy of
\* the router: it never gets beyond its first step, which yields nothing.
Result(h) ==
  /\ pc[h] = "result"
  /\ Works(h, "chunk", [job[h] EXCEPT !.sent = @ \o rec]) /\ rec' = <<>>
  /\ UNCHANGED <<owner, faults, workers, conversation, spare, array>>

\* After the last chunk.
FinalResult(h) ==
  /\ pc[h] = "chunk" /\ job[h].pieces > 0
  /\ Leave(h) /\ Works(h, "done", [job[h] EXCEPT !.sent = @ \o rec]) /\ rec' = <<>>
  /\ UNCHANGED <<owner, faults, conversation, spare, array>>

-------------------------------------------------------------------------------

NoJobs    == [h \in Handlers |-> NoJob]
NoWorkers == [k \in Kinds |-> 0]
NoSpares  == [context |-> {}, audio |-> {}]
NoArrays  == [a \in 1 .. MaxCalls |-> 0]

Init ==
  /\ owner = <<>> /\ faults = 0
  /\ pc = [h \in Handlers |-> "idle"] /\ job = NoJobs /\ workers = NoWorkers
  /\ spare = NoSpares /\ array = NoArrays /\ rec = <<>>
  /\ stored = [u \in Users |-> <<>>] /\ since = [u \in Users |-> <<>>]
  /\ mixed = {} /\ erased = {}

\* srv.Stop() at a signal, or the recognizer used by two threads brings the process
\* down: nothing of it is left but what is in Redis.
Restart ==
  /\ Fault
  /\ pc' = [h \in Handlers |-> "idle"] /\ job' = NoJobs /\ workers' = NoWorkers
  /\ spare' = NoSpares /\ array' = NoArrays /\ rec' = <<>>
  /\ UNCHANGED <<owner, conversation>>

Next ==
  \/ \E h \in Handlers :
       \/ Enter(h) \/ Refuse(h) \/ Deliver(h)
       \/ GetUserContext(h) \/ FailContext(h) \/ SayLine(h) \/ EndAnswer(h)
       \/ FailAnswer(h) \/ SetUserContext(h)
       \/ TakeSlice(h) \/ Synthesize(h) \/ FailSynthesis(h)
       \/ Decode(h) \/ AcceptWaveform(h) \/ Result(h) \/ FinalResult(h)
  \/ \E u \in Users : ClearAIContext(u) \/ ExpireContext(u)
  \/ Restart

Spec == Init /\ [][Next]_vars

-------------------------------------------------------------------------------
(* Properties.                                                               *)

Turns == Seq(1 .. MaxCalls)
Parts == Seq((1 .. MaxCalls) \X (1 .. Pieces))

\* The handler types of state and what each handler holds.
TypeOK ==
  /\ owner \in Seq(Users \cup {0}) /\ Len(owner) <= MaxCalls /\ faults \in 0 .. MaxFaults
  /\ workers \in [Kinds -> Nat]
  /\ pc \in [Handlers -> Kinds \cup {"idle", "refused", "done", "lines", "write",
                                     "synthesis", "chunk", "result"}]
  /\ job \in [Handlers -> [kind : Kinds, uuid : Users \cup {0}, call : 0 .. Len(owner),
                           pieces : 0 .. Pieces, sent : Parts, resBuf : Parts, uctx : Turns,
                           newUctx : Turns, audioBuf : 0 .. MaxCalls, alone : BOOLEAN]]
  /\ \A h \in Handlers : pc[h] # "idle" => job[h].call > 0
  /\ stored \in [Users -> Turns] /\ since \in [Users -> Turns]
  /\ spare \in [context : SUBSET Turns, audio : SUBSET (0 .. MaxCalls)]
  /\ array \in [1 .. MaxCalls -> 0 .. MaxCalls] /\ rec \in Parts
  /\ mixed \subseteq Users /\ erased \subseteq 1 .. MaxCalls

\* The handlers whose call is counted.
Counted(k) == {h \in Handlers : pc[h] \notin {"idle", "done"} /\ job[h].kind = k}

\* A counter is the number of handlers between their increment and their decrement, on
\* every way out: nothing leaks, and no more texts than the limit are generated at a
\* time, however the increments and refusals interleave.
WorkersAgree ==
  /\ \A k \in Kinds : workers[k] = Cardinality(Counted(k))
  /\ Cardinality({h \in Counted("text") : pc[h] # "refused"}) <= Limit

\* A user's context never holds a turn of another user, nor one turn twice.  As long as
\* his calls do not overlap it holds the turns answered since it was last emptied, in
\* order, and what was emptied while he was not being answered never comes back.
ContextIsOwn ==
  \A u \in Users :
    /\ \A i, k \in DOMAIN stored[u] :
         owner[stored[u][i]] = u /\ (stored[u][i] = stored[u][k] => i = k)
    /\ u \notin mixed => stored[u] = since[u]
    /\ \A i \in DOMAIN stored[u] : stored[u][i] \notin erased

\* The i-th of the first n parts is the i-th.
Whole(j) == [i \in 1 .. j.pieces |-> <<j.call, i>>]

\* A client is sent what was made of its own request, each part once and in order,
\* although the buffers are used again by others before the reply is out; of a voice
\* this holds if nobody else's was recognized meanwhile.
RepliesAreOwn ==
  \A h \in Handlers :
    LET j == job[h] IN
    /\ pc[h] = "lines" => j.sent \o j.resBuf = Whole(j)
    /\ pc[h] = "write" \/ (pc[h] = "done" /\ j.kind = "text") => j.sent = Whole(j)
    /\ pc[h] = "done" /\ j.kind = "audio" => array[j.audioBuf] = j.call
    /\ j.alone /\ pc[h] \in {"chunk", "result"} => j.sent \o rec = Whole(j)
    /\ j.alone /\ pc[h] = "done" /\ j.kind = "speech" => j.sent = Whole(j)
===============================================================================
