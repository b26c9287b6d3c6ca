---------------------------- MODULE AiService_proofs ----------------------------
(***************************************************************************)
(* What AiService guarantees for all users, numbers of handlers, limits of   *)
(* workers and bounds.                                                       *)
(***************************************************************************)
EXTENDS AiService, FiniteSetTheorems, TLAPS

USE NumbersAssumption

-------------------------------------------------------------------------------
(* Types.                                                                    *)

Pcs == Kinds \cup {"idle", "refused", "done", "lines", "write", "synthesis", "chunk", "result"}

Jobs ==
  [kind : Kinds, uuid : Users \cup {0}, call : 0 .. MaxCalls, pieces : 0 .. Pieces,
   sent : Parts, resBuf : Parts, uctx : Turns, newUctx : Turns,
   audioBuf : 0 .. MaxCalls, alone : BOOLEAN]

\* The calls of the handlers are among those made.
HandlerType ==
  /\ pc \in [Handlers -> Pcs] /\ job \in [Handlers -> Jobs]
  /\ \A h \in Handlers :
       /\ job[h].call <= Len(owner) /\ (pc[h] # "idle" => job[h].call > 0)
       /\ pc[h] \in {"text", "lines", "write"} => job[h].uuid \in Users

OwnerType == owner \in Seq(Users \cup {0}) /\ Len(owner) <= MaxCalls

ContextType ==
  /\ stored \in [Users -> Turns] /\ since \in [Users -> Turns]
  /\ mixed \subseteq Users /\ erased \subseteq 1 .. MaxCalls

BufferType ==
  /\ spare \in [context : SUBSET Turns, audio : SUBSET (0 .. MaxCalls)]
  /\ array \in [1 .. MaxCalls -> 0 .. MaxCalls] /\ rec \in Parts

\* TypeOK but for the counters, of which only the argument about them shows that they
\* are never negative.
TypeInv ==
  /\ OwnerType /\ HandlerType /\ ContextType /\ BufferType
  /\ faults \in 0 .. MaxFaults /\ workers \in [Kinds -> Int]

Same(j, k) == j.kind = k.kind /\ j.uuid = k.uuid /\ j.call = k.call

\* A handler goes on with its call.
Goes(h) ==
  /\ pc[h] \notin {"idle", "done", "refused"}
  /\ \E to \in Pcs \ {"idle", "done", "refused"}, j \in Jobs :
       /\ Works(h, to, j) /\ Same(j, job[h])
       /\ to \in {"text", "lines", "write"} => pc[h] \in {"text", "lines", "write"}
  /\ UNCHANGED <<owner, workers>>

\* It comes to the end of it.
Ends(h) ==
  /\ pc[h] \notin {"idle", "done"} /\ Leave(h)
  /\ \/ Works(h, "idle", NoJob)
     \/ \E j \in Jobs : Works(h, "done", j) /\ Same(j, job[h])
  /\ UNCHANGED owner

LEMMA NoJobType == NoJob \in Jobs
<1>1. <<>> \in Parts /\ <<>> \in Turns /\ 0 \in 0 .. MaxCalls /\ 0 \in 0 .. Pieces
  BY DEF Parts, Turns
<1>2. "text" \in Kinds /\ 0 \in Users \cup {0} /\ TRUE \in BOOLEAN
  BY DEF Kinds
<1> QED
  BY <1>1, <1>2 DEF NoJob, Jobs

\* A line or a chunk, joined to those before it.
LEMMA PartType ==
  ASSUME NEW c \in 1 .. MaxCalls, NEW n \in 0 .. Pieces, n < Pieces, NEW s \in Parts
  PROVE  <<c, n + 1>> \in (1 .. MaxCalls) \X (1 .. Pieces) /\ Append(s, <<c, n + 1>>) \in Parts
<1>1. n + 1 \in 1 .. Pieces
  OBVIOUS
<1>2. <<c, n + 1>> \in (1 .. MaxCalls) \X (1 .. Pieces)
  BY <1>1
<1> QED
  BY <1>2 DEF Parts

LEMMA JoinType == ASSUME NEW s \in Parts, NEW t \in Parts PROVE s \o t \in Parts
BY DEF Parts

\* The call of a handler at work has a number.
LEMMA BusyCall ==
  ASSUME TypeInv, NEW h \in Handlers, pc[h] # "idle"
  PROVE  job[h].call \in 1 .. MaxCalls
BY DEF TypeInv, HandlerType, Jobs

-------------------------------------------------------------------------------
(* Every step of a handler is a beginning, a continuation or an end.         *)

\* A fault is counted.
LEMMA FaultType == ASSUME faults \in 0 .. MaxFaults, Fault PROVE faults' \in 0 .. MaxFaults
BY DEF Fault

\* What is left of TypeInv besides the handlers.
Others ==
  OwnerType /\ ContextType /\ BufferType /\ faults \in 0 .. MaxFaults

LEMMA GoOn ==
  ASSUME NEW h \in Handlers, pc[h] \notin {"idle", "done", "refused"},
         NEW to \in Pcs \ {"idle", "done", "refused"}, NEW j \in Jobs,
         Works(h, to, j), Same(j, job[h]),
         to \in {"text", "lines", "write"} => pc[h] \in {"text", "lines", "write"},
         UNCHANGED <<owner, workers>>
  PROVE  Goes(h)
BY DEF Goes

LEMMA ContextGoes ==
  ASSUME TypeInv, NEW h \in Handlers, GetUserContext(h)
  PROVE  Goes(h) /\ Others'
<1> DEFINE u == job[h].uuid
<1>1. PICK x \in {<<>>} \cup spare.context :
        /\ Works(h, "lines", [job[h] EXCEPT !.uctx = stored[u], !.resBuf = <<>>, !.newUctx = x])
        /\ spare' = [spare EXCEPT !.context = @ \ {x}]
  BY DEF GetUserContext
<1>2. pc[h] = "text" /\ UNCHANGED <<owner, faults, workers, stored, since, erased, array, rec>>
  BY DEF GetUserContext
<1>3. mixed' = IF AtWorkFor(u) = {} THEN mixed ELSE mixed \cup {u}
  BY DEF GetUserContext
<1>4. job[h] \in Jobs /\ stored[u] \in Turns /\ u \in Users
  BY <1>2 DEF TypeInv, HandlerType, ContextType
<1>5. x \in Turns /\ <<>> \in Parts
  <2>1. <<>> \in Turns /\ <<>> \in Parts
    BY DEF Turns, Parts
  <2>2. spare.context \in SUBSET Turns
    BY DEF TypeInv, BufferType
  <2> QED
    BY <2>1, <2>2
<1> DEFINE j == [job[h] EXCEPT !.uctx = stored[u], !.resBuf = <<>>, !.newUctx = x]
<1>6. j \in Jobs /\ Same(j, job[h])
  BY <1>4, <1>5 DEF Jobs, Same
<1>7. "lines" \in Pcs \ {"idle", "done", "refused"}
  BY DEF Pcs
<1>8. Goes(h)
  <2> HIDE DEF j
  <2>1. Works(h, "lines", j)
    BY <1>1 DEF j
  <2> QED
    BY <1>2, <1>6, <1>7, <2>1, GoOn
<1>9. BufferType'
  BY <1>1, <1>2 DEF TypeInv, BufferType
<1>10. OwnerType' /\ faults' \in 0 .. MaxFaults
  BY <1>2 DEF TypeInv, OwnerType
<1>11. ContextType'
  BY <1>2, <1>3, <1>4 DEF TypeInv, ContextType
<1> QED
  BY <1>8, <1>9, <1>10, <1>11 DEF Others

\* Where nothing but a handler changes, the rest keeps its type.
LEMMA OthersKept ==
  ASSUME TypeInv, UNCHANGED <<owner, conversation, spare, array>>,
         rec' \in Parts, faults' \in 0 .. MaxFaults
  PROVE  Others'
BY DEF TypeInv, Others, OwnerType, ContextType, BufferType, conversation

LEMMA LineGoes ==
  ASSUME TypeInv, NEW h \in Handlers, SayLine(h)
  PROVE  Goes(h) /\ Others'
<1> DEFINE j == job[h]
           text == Append(j.resBuf, <<j.call, j.pieces + 1>>)
           j1 == [j EXCEPT !.pieces = @ + 1, !.resBuf = text]
           j2 == [j EXCEPT !.pieces = @ + 1, !.resBuf = <<>>, !.sent = @ \o text]
<1>1. /\ pc[h] = "lines" /\ j.pieces < Pieces
      /\ Works(h, "lines", j1) \/ Works(h, "lines", j2)
      /\ UNCHANGED <<owner, faults, workers, conversation, spare, array, rec>>
  BY DEF SayLine
<1>2. j \in Jobs /\ j.call \in 1 .. MaxCalls /\ j.pieces + 1 \in 0 .. Pieces
  <2>1. j \in Jobs /\ j.call \in 1 .. MaxCalls
    BY <1>1, BusyCall DEF TypeInv, HandlerType
  <2> QED
    BY <1>1, <2>1 DEF Jobs
<1>3. text \in Parts /\ j.sent \in Parts /\ <<>> \in Parts
  <2>1. j.resBuf \in Parts /\ j.pieces \in 0 .. Pieces /\ j.sent \in Parts
    BY <1>2 DEF Jobs
  <2> QED
    BY <1>1, <1>2, <2>1, PartType DEF Parts
<1>4. j.sent \o text \in Parts
  BY <1>3, JoinType
<1>5. j1 \in Jobs /\ Same(j1, j) /\ j2 \in Jobs /\ Same(j2, j)
  <2> HIDE DEF j, text
  <2> QED
    BY <1>2, <1>3, <1>4 DEF Jobs, Same
<1>6. "lines" \in Pcs \ {"idle", "done", "refused"}
  BY DEF Pcs
<1>7. Goes(h)
  <2> HIDE DEF j1, j2
  <2> QED
    BY <1>1, <1>5, <1>6, GoOn
<1> QED
  BY <1>1, <1>7, OthersKept DEF TypeInv, BufferType

LEMMA AnswerGoes ==
  ASSUME TypeInv, NEW h \in Handlers, EndAnswer(h)
  PROVE  Goes(h) /\ Others'
<1> DEFINE j == job[h]
           j1 == [SendRest(j) EXCEPT !.newUctx = NewContext(j)]
           j2 == [SendRest(j) EXCEPT !.newUctx = <<>>]
<1>1. /\ pc[h] = "lines"
      /\ Works(h, "write", j1) \/ Works(h, "write", j2)
      /\ UNCHANGED faults \/ Fault
      /\ UNCHANGED <<owner, workers, conversation, spare, array, rec>>
  BY DEF EndAnswer
<1>2. j \in Jobs /\ j.call \in 1 .. MaxCalls
  <2>1. pc[h] # "idle"
    BY <1>1
  <2> QED
    BY <2>1, BusyCall DEF TypeInv, HandlerType
<1>3. j.sent \o j.resBuf \in Parts /\ <<>> \in Parts
  <2>1. j.sent \in Parts /\ j.resBuf \in Parts
    BY <1>2 DEF Jobs
  <2> QED
    BY <2>1, JoinType DEF Parts
<1>4. NewContext(j) \in Turns /\ <<>> \in Turns
  <2>1. j.uctx \in Turns
    BY <1>2 DEF Jobs
  <2> QED
    BY <1>2, <2>1 DEF NewContext, Turns
<1>5. SendRest(j) \in Jobs /\ Same(SendRest(j), j)
  <2> HIDE DEF j
  <2> QED
    BY <1>2, <1>3 DEF Jobs, Same, SendRest
<1>6. j1 \in Jobs /\ Same(j1, j) /\ j2 \in Jobs /\ Same(j2, j)
  <2> HIDE DEF j
  <2> QED
    BY <1>4, <1>5 DEF Jobs, Same
<1>7. "write" \in Pcs \ {"idle", "done", "refused"}
  BY DEF Pcs
<1>8. Goes(h)
  <2> HIDE DEF j1, j2
  <2>1. ASSUME Works(h, "write", j1) PROVE Goes(h)
    BY <1>1, <1>6, <1>7, <2>1, GoOn
  <2>2. ASSUME Works(h, "write", j2) PROVE Goes(h)
    BY <1>1, <1>6, <1>7, <2>2, GoOn
  <2> QED
    BY <1>1, <2>1, <2>2
<1>9. faults' \in 0 .. MaxFaults
  BY <1>1, FaultType DEF TypeInv
<1> QED
  BY <1>1, <1>8, <1>9, OthersKept DEF TypeInv, BufferType

LEMMA SliceGoes ==
  ASSUME TypeInv, NEW h \in Handlers, TakeSlice(h)
  PROVE  Goes(h) /\ Others'
<1>1. PICK a \in {job[h].call} \cup spare.audio :
        /\ Works(h, "synthesis", [job[h] EXCEPT !.audioBuf = a])
        /\ spare' = [spare EXCEPT !.audio = @ \ {a}]
  BY DEF TakeSlice
<1>2. pc[h] = "audio" /\ UNCHANGED <<owner, faults, workers, conversation, array, rec>>
  BY DEF TakeSlice
<1>3. job[h] \in Jobs /\ a \in 0 .. MaxCalls
  <2>1. job[h].call \in 1 .. MaxCalls /\ job[h] \in Jobs
    BY <1>2, BusyCall DEF TypeInv, HandlerType
  <2>2. spare.audio \in SUBSET (0 .. MaxCalls)
    BY DEF TypeInv, BufferType
  <2> QED
    BY <2>1, <2>2
<1> DEFINE j == [job[h] EXCEPT !.audioBuf = a]
<1>4. j \in Jobs /\ Same(j, job[h])
  BY <1>3 DEF Jobs, Same
<1>5. "synthesis" \in Pcs \ {"idle", "done", "refused"}
  BY DEF Pcs
<1>6. Goes(h)
  <2> HIDE DEF j
  <2>1. Works(h, "synthesis", j)
    BY <1>1 DEF j
  <2> QED
    BY <1>2, <1>4, <1>5, <2>1, GoOn
<1>7. BufferType'
  BY <1>1, <1>2 DEF TypeInv, BufferType
<1>8. OwnerType' /\ ContextType' /\ faults' \in 0 .. MaxFaults
  BY <1>2 DEF TypeInv, OwnerType, ContextType, conversation
<1> QED
  BY <1>6, <1>7, <1>8 DEF Others

LEMMA ChunkGoes ==
  ASSUME TypeInv, NEW h \in Handlers, AcceptWaveform(h)
  PROVE  Goes(h) /\ Others'
<1> DEFINE j == job[h]
           piece == <<j.call, j.pieces + 1>>
           j1 == [j EXCEPT !.pieces = @ + 1]
<1>1. /\ pc[h] = "chunk" /\ j.pieces < Pieces
      /\ rec' = Append(rec, piece) \/ rec' = rec
      /\ UNCHANGED <<owner, faults, workers, conversation, spare, array>>
  BY DEF AcceptWaveform
<1>2. PICK to \in {"result", "chunk"} : Works(h, to, j1)
  BY DEF AcceptWaveform
<1>3. j \in Jobs /\ j.call \in 1 .. MaxCalls
  BY <1>1, BusyCall DEF TypeInv, HandlerType
<1>4. j.pieces \in 0 .. Pieces /\ j.pieces + 1 \in 0 .. Pieces
  BY <1>1, <1>3 DEF Jobs
<1>5. rec' \in Parts
  <2>1. rec \in Parts
    BY DEF TypeInv, BufferType
  <2> QED
    BY <1>1, <1>3, <1>4, <2>1, PartType
<1>6. j1 \in Jobs /\ Same(j1, j)
  <2> HIDE DEF j
  <2> QED
    BY <1>3, <1>4 DEF Jobs, Same
<1>7. to \in Pcs \ {"idle", "done", "refused"} /\ to \notin {"text", "lines", "write"}
  BY DEF Pcs
<1>8. Goes(h)
  <2> HIDE DEF j1
  <2> QED
    BY <1>1, <1>2, <1>6, <1>7, GoOn
<1> QED
  BY <1>1, <1>5, <1>8, OthersKept DEF TypeInv

LEMMA ResultGoes ==
  ASSUME TypeInv, NEW h \in Handlers, Result(h)
  PROVE  Goes(h) /\ Others'
<1> DEFINE j == [job[h] EXCEPT !.sent = @ \o rec]
<1>1. /\ pc[h] = "result" /\ Works(h, "chunk", j) /\ rec' = <<>>
      /\ UNCHANGED <<owner, faults, workers, conversation, spare, array>>
  BY DEF Result
<1>2. job[h] \in Jobs /\ rec \in Parts /\ <<>> \in Parts
  BY DEF TypeInv, HandlerType, BufferType, Parts
<1>3. j \in Jobs /\ Same(j, job[h])
  <2>1. job[h].sent \o rec \in Parts
    <3>1. job[h].sent \in Parts
      BY <1>2 DEF Jobs
    <3> QED
      BY <1>2, <3>1, JoinType
  <2> QED
    BY <1>2, <2>1 DEF Jobs, Same
<1>4. "chunk" \in Pcs \ {"idle", "done", "refused"}
  BY DEF Pcs
<1>5. Goes(h)
  <2> HIDE DEF j
  <2> QED
    BY <1>1, <1>3, <1>4, GoOn
<1> QED
  BY <1>1, <1>2, <1>5, OthersKept DEF TypeInv

\* A buffer of contexts is put back, a slice is put back.
LEMMA PutType ==
  ASSUME BufferType, NEW h \in Handlers, job[h] \in Jobs, UNCHANGED <<array, rec>>,
         spare' = spare \/ PutBuffers(job[h])
  PROVE  BufferType'
<1>1. {job[h].newUctx} \in SUBSET Turns
  BY DEF Jobs
<1>2. CASE PutBuffers(job[h])
  BY <1>1, <1>2 DEF PutBuffers, BufferType
<1>3. CASE spare' = spare
  BY <1>3 DEF BufferType
<1> QED
  BY <1>2, <1>3

\* The handlers that come to nothing.
LEMMA FailuresEnd ==
  ASSUME TypeInv, NEW h \in Handlers,
         Refuse(h) \/ FailContext(h) \/ FailAnswer(h)
  PROVE  Ends(h) /\ Others'
<1>1. /\ pc[h] \in {"refused", "text", "lines"} /\ Leave(h) /\ Works(h, "idle", NoJob)
      /\ UNCHANGED <<owner, conversation, array, rec>>
  BY DEF Refuse, FailContext, FailAnswer
<1>2. faults' \in 0 .. MaxFaults
  BY FaultType DEF Refuse, FailContext, FailAnswer, TypeInv
<1>3. BufferType'
  <2>1. spare' = spare \/ PutBuffers(job[h])
    BY DEF Refuse, FailContext, FailAnswer
  <2> QED
    BY <1>1, <2>1, PutType DEF TypeInv, HandlerType
<1>4. Ends(h)
  BY <1>1 DEF Ends
<1> QED
  BY <1>1, <1>2, <1>3, <1>4 DEF Others, TypeInv, OwnerType, ContextType, conversation

LEMMA FailedSynthesisEnds ==
  ASSUME TypeInv, NEW h \in Handlers, FailSynthesis(h)
  PROVE  Ends(h) /\ Others'
<1>1. /\ pc[h] = "synthesis" /\ Leave(h) /\ Works(h, "idle", NoJob)
      /\ UNCHANGED <<owner, conversation, array, rec>>
  BY DEF FailSynthesis
<1>2. faults' \in 0 .. MaxFaults
  BY FaultType DEF FailSynthesis, TypeInv
<1>3. Ends(h)
  BY <1>1 DEF Ends
<1>4. BufferType'
  <2>1. {job[h].audioBuf} \in SUBSET (0 .. MaxCalls)
    BY DEF TypeInv, HandlerType, Jobs
  <2>2. spare' = [spare EXCEPT !.audio = {job[h].audioBuf}]
    BY DEF FailSynthesis
  <2> QED
    BY <1>1, <2>1, <2>2 DEF TypeInv, BufferType
<1> QED
  BY <1>1, <1>2, <1>3, <1>4 DEF Others, TypeInv, OwnerType, ContextType, conversation

LEMMA WriteEnds ==
  ASSUME TypeInv, NEW h \in Handlers, SetUserContext(h)
  PROVE  Ends(h) /\ Others'
<1> DEFINE j == job[h]
           j1 == [j EXCEPT !.uctx = <<>>, !.newUctx = <<>>]
<1>1. /\ pc[h] = "write" /\ PutBuffers(j) /\ Leave(h) /\ Works(h, "done", j1)
      /\ UNCHANGED <<owner, mixed, erased, array, rec>>
  BY DEF SetUserContext
<1>2. \/ /\ stored' = [stored EXCEPT ![j.uuid] = j.newUctx]
         /\ since' = [since EXCEPT ![j.uuid] =
                        IF j.newUctx = <<>> THEN <<>> ELSE Append(@, j.call)]
         /\ UNCHANGED faults
      \/ Fault /\ UNCHANGED <<stored, since>>
  BY DEF SetUserContext
<1>3. j \in Jobs /\ j.call \in 1 .. MaxCalls /\ j.uuid \in Users
  <2>1. pc[h] # "idle" /\ pc[h] \in {"text", "lines", "write"}
    BY <1>1
  <2> QED
    BY <2>1, BusyCall DEF TypeInv, HandlerType
<1>4. j.newUctx \in Turns /\ <<>> \in Turns
  <2>1. j.newUctx \in Turns
    BY <1>3 DEF Jobs
  <2> QED
    BY <2>1 DEF Turns
<1>5. j1 \in Jobs /\ Same(j1, j)
  <2> HIDE DEF j
  <2> QED
    BY <1>3, <1>4 DEF Jobs, Same
<1>6. Ends(h)
  <2> HIDE DEF j1
  <2> QED
    BY <1>1, <1>5 DEF Ends
<1>7. BufferType'
  BY <1>1, <1>3, PutType DEF TypeInv
<1>8. stored' \in [Users -> Turns] /\ since' \in [Users -> Turns] /\ faults' \in 0 .. MaxFaults
  <2>1. stored \in [Users -> Turns] /\ since \in [Users -> Turns] /\ faults \in 0 .. MaxFaults
    BY DEF TypeInv, ContextType
  <2>2. CASE Fault /\ UNCHANGED <<stored, since>>
    BY <2>1, <2>2, FaultType
  <2>3. CASE /\ stored' = [stored EXCEPT ![j.uuid] = j.newUctx]
             /\ since' = [since EXCEPT ![j.uuid] =
                            IF j.newUctx = <<>> THEN <<>> ELSE Append(@, j.call)]
             /\ UNCHANGED faults
    <3>1. since[j.uuid] \in Turns
      BY <1>3, <2>1
    <3>2. Append(since[j.uuid], j.call) \in Turns
      BY <1>3, <3>1 DEF Turns
    <3> HIDE DEF j
    <3> QED
      BY <1>3, <1>4, <2>1, <2>3, <3>2
  <2> QED
    BY <1>2, <2>2, <2>3
<1> QED
  BY <1>1, <1>6, <1>7, <1>8 DEF Others, TypeInv, OwnerType, ContextType

LEMMA SynthesisEnds ==
  ASSUME TypeInv, NEW h \in Handlers, Synthesize(h)
  PROVE  Ends(h) /\ Others'
<1> DEFINE j == job[h]
           j1 == [j EXCEPT !.audioBuf = j.call]
<1>1. /\ pc[h] = "synthesis" /\ Leave(h) /\ Works(h, "done", j1)
      /\ array' = [array EXCEPT ![j.call] = j.call]
      /\ spare' = [spare EXCEPT !.audio = {j.call}]
      /\ UNCHANGED <<owner, faults, conversation, rec>>
  BY DEF Synthesize, Output
<1>2. j \in Jobs /\ j.call \in 1 .. MaxCalls
  <2>1. pc[h] # "idle"
    BY <1>1
  <2> QED
    BY <2>1, BusyCall DEF TypeInv, HandlerType
<1>3. j1 \in Jobs /\ Same(j1, j)
  <2> HIDE DEF j
  <2> QED
    BY <1>2 DEF Jobs, Same
<1>4. Ends(h)
  <2> HIDE DEF j1
  <2> QED
    BY <1>1, <1>3 DEF Ends
<1>5. BufferType'
  <2>1. BufferType
    BY DEF TypeInv
  <2>2. {j.call} \in SUBSET (0 .. MaxCalls)
    BY <1>2
  <2> HIDE DEF j
  <2> QED
    BY <1>1, <1>2, <2>1, <2>2 DEF BufferType
<1> QED
  BY <1>1, <1>4, <1>5 DEF Others, TypeInv, OwnerType, ContextType, conversation

LEMMA RecognitionEnds ==
  ASSUME TypeInv, NEW h \in Handlers, FinalResult(h)
  PROVE  Ends(h) /\ Others'
<1> DEFINE j == [job[h] EXCEPT !.sent = @ \o rec]
<1>1. /\ pc[h] = "chunk" /\ Leave(h) /\ Works(h, "done", j) /\ rec' = <<>>
      /\ UNCHANGED <<owner, faults, conversation, spare, array>>
  BY DEF FinalResult
<1>2. job[h] \in Jobs /\ rec \in Parts /\ <<>> \in Parts
  BY DEF TypeInv, HandlerType, BufferType, Parts
<1>3. j \in Jobs /\ Same(j, job[h])
  <2>1. job[h].sent \o rec \in Parts
    <3>1. job[h].sent \in Parts
      BY <1>2 DEF Jobs
    <3> QED
      BY <1>2, <3>1, JoinType
  <2> QED
    BY <1>2, <2>1 DEF Jobs, Same
<1>4. Ends(h)
  <2> HIDE DEF j
  <2> QED
    BY <1>1, <1>3 DEF Ends
<1> QED
  BY <1>1, <1>2, <1>4, OthersKept DEF TypeInv

\* Decode goes on, and marks the voices that are no longer alone; or it fails.
Marks(h) ==
  /\ pc[h] = "speech" /\ pc' = [pc EXCEPT ![h] = "chunk"]
  /\ job' \in [Handlers -> Jobs] /\ \A g \in Handlers : Same(job'[g], job[g])
  /\ \A g \in Handlers : pc[g] \notin {"speech", "chunk", "result"} => job'[g] = job[g]
  /\ UNCHANGED <<owner, workers>>

LEMMA DecodeMarks ==
  ASSUME TypeInv, NEW h \in Handlers, Decode(h)
  PROVE  (Marks(h) \/ Ends(h)) /\ Others'
<1>1. pc[h] = "speech" /\ UNCHANGED <<owner, conversation, spare, array, rec>>
  BY DEF Decode
<1>2. rec' \in Parts
  BY <1>1 DEF TypeInv, BufferType
<1>3. CASE Fault /\ Leave(h) /\ Works(h, "idle", NoJob)
  <2>1. faults' \in 0 .. MaxFaults
    BY <1>3, FaultType DEF TypeInv
  <2>2. Ends(h)
    BY <1>1, <1>3 DEF Ends
  <2> QED
    BY <1>1, <1>2, <2>1, <2>2, OthersKept
<1>4. CASE /\ pc' = [pc EXCEPT ![h] = "chunk"]
           /\ job' = [g \in Handlers |->
                IF g = h \/ g \in Recognizing
                THEN [job[g] EXCEPT !.alone = @ /\ Recognizing = {}] ELSE job[g]]
           /\ UNCHANGED <<faults, workers>>
  <2>1. ASSUME NEW g \in Handlers PROVE job'[g] \in Jobs /\ Same(job'[g], job[g])
    <3>1. job[g] \in Jobs
      BY DEF TypeInv, HandlerType
    <3>2. (job[g].alone /\ Recognizing = {}) \in BOOLEAN
      OBVIOUS
    <3>3. ASSUME NEW b \in BOOLEAN
          PROVE  [job[g] EXCEPT !.alone = b] \in Jobs /\ Same([job[g] EXCEPT !.alone = b], job[g])
      BY <3>1 DEF Jobs, Same
    <3>4. CASE g = h \/ g \in Recognizing
      <4>1. job'[g] = [job[g] EXCEPT !.alone = job[g].alone /\ Recognizing = {}]
        BY <1>4, <3>4
      <4> QED
        BY <3>2, <3>3, <4>1, Zenon
    <3>5. CASE ~(g = h \/ g \in Recognizing)
      BY <1>4, <3>1, <3>5 DEF Same
    <3> QED
      BY <3>4, <3>5
  <2>2. job' \in [Handlers -> Jobs]
    BY <1>4, <2>1
  <2>3. \A g \in Handlers : pc[g] \notin {"speech", "chunk", "result"} => job'[g] = job[g]
    BY <1>1, <1>4 DEF Recognizing
  <2>4. Marks(h)
    BY <1>1, <1>4, <2>1, <2>2, <2>3 DEF Marks
  <2> QED
    BY <1>1, <1>2, <1>4, <2>4, OthersKept DEF TypeInv
<1> QED
  BY <1>3, <1>4 DEF Decode

\* A call begins.
Begins(h) ==
  /\ pc[h] = "idle"
  /\ \E kind \in Kinds, uuid \in Users \cup {0}, j \in Jobs :
       /\ j.kind = kind /\ j.uuid = uuid /\ j.call = Len(owner) + 1
       /\ owner' = Append(owner, uuid) /\ (kind = "text" => uuid \in Users)
       /\ workers' = [workers EXCEPT ![kind] = @ + 1]
       /\ \/ Works(h, "refused", j)
          \/ Works(h, kind, j) /\ (workers'[kind] > Limit => uuid = 0)

LEMMA EnterBegins ==
  ASSUME TypeInv, NEW h \in Handlers, Enter(h)
  PROVE  Begins(h) /\ Others'
<1>1. /\ pc[h] = "idle" /\ Len(owner) < MaxCalls
      /\ UNCHANGED <<faults, conversation, spare, array, rec>>
  BY DEF Enter
<1> PICK kind \in Kinds : \E uuid \in Uuids(kind) :
       /\ owner' = Append(owner, uuid)
       /\ workers' = [workers EXCEPT ![kind] = @ + 1]
       /\ Works(h, IF workers'[kind] > Limit /\ uuid # adminUUID THEN "refused" ELSE kind,
                [NoJob EXCEPT !.kind = kind, !.uuid = uuid, !.call = Len(owner) + 1])
  BY DEF Enter
<1>2. PICK uuid \in Uuids(kind) :
       /\ owner' = Append(owner, uuid)
       /\ workers' = [workers EXCEPT ![kind] = @ + 1]
       /\ Works(h, IF workers'[kind] > Limit /\ uuid # adminUUID THEN "refused" ELSE kind,
                [NoJob EXCEPT !.kind = kind, !.uuid = uuid, !.call = Len(owner) + 1])
  OBVIOUS
<1>3. uuid \in Users \cup {0} /\ (kind = "text" => uuid \in Users)
  BY DEF Uuids, adminUUID
<1>4. owner \in Seq(Users \cup {0}) /\ Len(owner) + 1 \in 0 .. MaxCalls
  BY <1>1 DEF TypeInv, OwnerType
<1> DEFINE j == [NoJob EXCEPT !.kind = kind, !.uuid = uuid, !.call = Len(owner) + 1]
<1>5. j \in Jobs /\ j.kind = kind /\ j.uuid = uuid /\ j.call = Len(owner) + 1
  BY <1>3, <1>4, NoJobType DEF Jobs
<1>6. Begins(h)
  <2> HIDE DEF j
  <2>1. Works(h, IF workers'[kind] > Limit /\ uuid # adminUUID THEN "refused" ELSE kind, j)
    BY <1>2 DEF j
  <2>2. Works(h, "refused", j) \/ (Works(h, kind, j) /\ (workers'[kind] > Limit => uuid = 0))
    BY <2>1 DEF adminUUID
  <2> QED
    BY <1>1, <1>2, <1>3, <1>5, <2>2 DEF Begins
<1>7. OwnerType'
  <2>1. Append(owner, uuid) \in Seq(Users \cup {0}) /\ Len(Append(owner, uuid)) = Len(owner) + 1
    BY <1>3, <1>4
  <2> QED
    BY <1>2, <1>4, <2>1 DEF OwnerType
<1> QED
  BY <1>1, <1>6, <1>7 DEF Others, TypeInv, ContextType, BufferType, conversation

-------------------------------------------------------------------------------
(* The four kinds of steps keep the types of the handlers and the counters.  *)

WorkersType == workers \in [Kinds -> Int]

\* A handler that continues, ends or begins has a job of its own; the others keep theirs.
LEMMA WorksType ==
  ASSUME HandlerType, OwnerType, OwnerType', Len(owner') >= Len(owner),
         NEW h \in Handlers, NEW to \in Pcs, NEW j \in Jobs, Works(h, to, j),
         j.call <= Len(owner'), to # "idle" => j.call > 0,
         to \in {"text", "lines", "write"} => j.uuid \in Users
  PROVE  HandlerType'
<1>1. pc' \in [Handlers -> Pcs] /\ job' \in [Handlers -> Jobs]
  BY DEF Works, HandlerType
<1>2. ASSUME NEW g \in Handlers
      PROVE  /\ job'[g].call <= Len(owner') /\ (pc'[g] # "idle" => job'[g].call > 0)
             /\ pc'[g] \in {"text", "lines", "write"} => job'[g].uuid \in Users
  <2>1. CASE g = h
    BY <2>1 DEF Works, HandlerType
  <2>2. CASE g # h
    <3>1. pc'[g] = pc[g] /\ job'[g] = job[g]
      BY <2>2 DEF Works, HandlerType
    <3>2. job[g].call \in Nat /\ Len(owner) \in Nat /\ Len(owner') \in Nat
      BY DEF HandlerType, Jobs, OwnerType
    <3>3. job[g].call <= Len(owner)
      BY DEF HandlerType
    <3>4. job'[g].call <= Len(owner')
      BY <3>1, <3>2, <3>3
    <3> QED
      BY <3>1, <3>4 DEF HandlerType
  <2> QED
    BY <2>1, <2>2
<1> QED
  BY <1>1, <1>2 DEF HandlerType

LEMMA GoesType ==
  ASSUME TypeInv, OwnerType', NEW h \in Handlers, Goes(h)
  PROVE  HandlerType' /\ WorkersType'
<1>1. PICK to \in Pcs \ {"idle", "done", "refused"}, j \in Jobs :
        /\ Works(h, to, j) /\ Same(j, job[h])
        /\ to \in {"text", "lines", "write"} => pc[h] \in {"text", "lines", "write"}
  BY DEF Goes
<1>2. owner' = owner /\ workers' = workers /\ pc[h] # "idle"
  BY DEF Goes
<1>3. job[h].call <= Len(owner) /\ job[h].call > 0
  BY <1>2 DEF TypeInv, HandlerType
<1>4. pc[h] \in {"text", "lines", "write"} => job[h].uuid \in Users
  BY DEF TypeInv, HandlerType
<1>5. Len(owner') >= Len(owner)
  BY <1>2 DEF TypeInv, OwnerType
<1>6. /\ j.call <= Len(owner') /\ j.call > 0
      /\ to \in {"text", "lines", "write"} => j.uuid \in Users
  BY <1>1, <1>2, <1>3, <1>4 DEF Same
<1>7. HandlerType'
  BY <1>1, <1>5, <1>6, WorksType DEF TypeInv
<1> QED
  BY <1>2, <1>7 DEF TypeInv, WorkersType

LEMMA EndsType ==
  ASSUME TypeInv, OwnerType', NEW h \in Handlers, Ends(h)
  PROVE  HandlerType' /\ WorkersType'
<1>1. owner' = owner /\ Leave(h) /\ pc[h] # "idle"
  BY DEF Ends
<1>2. job[h].call <= Len(owner) /\ job[h].call > 0 /\ job[h].kind \in Kinds
  BY <1>1 DEF TypeInv, HandlerType, Jobs
<1>3. Len(owner') >= Len(owner) /\ 0 <= Len(owner')
  BY <1>1 DEF TypeInv, OwnerType
<1>4. "idle" \in Pcs /\ "done" \in Pcs
  BY DEF Pcs
<1>5. WorkersType'
  BY <1>1, <1>2 DEF Leave, TypeInv, WorkersType
<1>6. CASE Works(h, "idle", NoJob)
  <2>1. NoJob.call <= Len(owner') /\ "idle" \notin {"text", "lines", "write"}
    BY <1>3 DEF NoJob
  <2>2. HandlerType /\ OwnerType
    BY DEF TypeInv
  <2> QED
    BY <1>3, <1>4, <1>5, <1>6, <2>1, <2>2, NoJobType, WorksType
<1>7. CASE \E j \in Jobs : Works(h, "done", j) /\ Same(j, job[h])
  <2>1. PICK j \in Jobs : Works(h, "done", j) /\ Same(j, job[h])
    BY <1>7
  <2>2. j.call <= Len(owner') /\ j.call > 0
    BY <1>1, <1>2, <2>1 DEF Same
  <2>3. HandlerType /\ OwnerType /\ "done" \notin {"text", "lines", "write"}
    BY DEF TypeInv
  <2> QED
    BY <1>3, <1>4, <1>5, <2>1, <2>2, <2>3, WorksType
<1> QED
  BY <1>6, <1>7 DEF Ends

LEMMA BeginsType ==
  ASSUME TypeInv, OwnerType', NEW h \in Handlers, Begins(h)
  PROVE  HandlerType' /\ WorkersType'
<1>1. PICK kind \in Kinds, uuid \in Users \cup {0}, j \in Jobs :
       /\ j.kind = kind /\ j.uuid = uuid /\ j.call = Len(owner) + 1
       /\ owner' = Append(owner, uuid) /\ (kind = "text" => uuid \in Users)
       /\ workers' = [workers EXCEPT ![kind] = @ + 1]
       /\ \/ Works(h, "refused", j)
          \/ Works(h, kind, j) /\ (workers'[kind] > Limit => uuid = 0)
  BY DEF Begins
<1>2. Len(owner) \in Nat /\ Len(owner') = Len(owner) + 1
  BY <1>1 DEF TypeInv, OwnerType
<1>3. Len(owner') >= Len(owner) /\ j.call <= Len(owner') /\ j.call > 0
  BY <1>1, <1>2
<1>4. "refused" \in Pcs /\ kind \in Pcs /\ kind \notin {"lines", "write"}
  BY DEF Pcs, Kinds
<1>5. WorkersType'
  BY <1>1 DEF TypeInv, WorkersType
<1>6. CASE Works(h, "refused", j)
  <2>1. HandlerType /\ OwnerType /\ "refused" \notin {"text", "lines", "write"}
    BY DEF TypeInv
  <2> QED
    BY <1>3, <1>4, <1>5, <1>6, <2>1, WorksType
<1>7. CASE Works(h, kind, j)
  <2>1. kind \in {"text", "lines", "write"} => j.uuid \in Users
    BY <1>1, <1>4
  <2>2. HandlerType /\ OwnerType
    BY DEF TypeInv
  <2> QED
    BY <1>3, <1>4, <1>5, <1>7, <2>1, <2>2, WorksType
<1> QED
  BY <1>1, <1>6, <1>7

LEMMA MarksType ==
  ASSUME TypeInv, NEW h \in Handlers, Marks(h)
  PROVE  HandlerType' /\ WorkersType'
<1>1. /\ pc[h] = "speech" /\ pc' = [pc EXCEPT ![h] = "chunk"]
      /\ job' \in [Handlers -> Jobs] /\ \A g \in Handlers : Same(job'[g], job[g])
      /\ UNCHANGED <<owner, workers>>
  BY DEF Marks
<1>2. pc' \in [Handlers -> Pcs]
  BY <1>1 DEF TypeInv, HandlerType, Pcs
<1>3. ASSUME NEW g \in Handlers
      PROVE  /\ job'[g].call <= Len(owner') /\ (pc'[g] # "idle" => job'[g].call > 0)
             /\ pc'[g] \in {"text", "lines", "write"} => job'[g].uuid \in Users
  <2>1. job'[g].call = job[g].call /\ job'[g].uuid = job[g].uuid /\ owner' = owner
    BY <1>1 DEF Same
  <2>2. pc'[g] # "idle" => pc[g] # "idle"
    BY <1>1 DEF TypeInv, HandlerType
  <2>3. pc'[g] \in {"text", "lines", "write"} => pc[g] \in {"text", "lines", "write"}
    BY <1>1 DEF TypeInv, HandlerType
  <2> QED
    BY <2>1, <2>2, <2>3 DEF TypeInv, HandlerType
<1>4. HandlerType'
  BY <1>1, <1>2, <1>3 DEF HandlerType
<1> QED
  BY <1>1, <1>4 DEF TypeInv, WorkersType

LEMMA DeliverType ==
  ASSUME TypeInv, NEW h \in Handlers, Deliver(h)
  PROVE  HandlerType' /\ WorkersType' /\ Others'
<1>1. /\ Works(h, "idle", NoJob)
      /\ UNCHANGED <<owner, faults, workers, conversation, spare, array, rec>>
  BY DEF Deliver
<1>2. Others' /\ WorkersType'
  BY <1>1 DEF TypeInv, Others, OwnerType, ContextType, BufferType, WorkersType, conversation
<1>3. "idle" \in Pcs /\ NoJob.call = 0 /\ Len(owner') >= Len(owner) /\ 0 <= Len(owner')
  BY <1>1 DEF Pcs, NoJob, TypeInv, OwnerType
<1>4. HandlerType'
  BY <1>1, <1>2, <1>3, NoJobType, WorksType DEF TypeInv, Others
<1> QED
  BY <1>2, <1>4

LEMMA ForgetType ==
  ASSUME TypeInv, NEW u \in Users, Forget(u)
  PROVE  HandlerType' /\ WorkersType' /\ Others'
<1>1. /\ UNCHANGED <<owner, faults, workers, pc, job, spare, array, rec>>
      /\ stored' = [stored EXCEPT ![u] = <<>>] /\ since' = [since EXCEPT ![u] = <<>>]
      /\ mixed' \in {mixed \ {u}, mixed \cup {u}}
      /\ erased' \in {erased, erased \cup TurnsOf(stored[u])}
  BY DEF Forget
<1>2. HandlerType' /\ WorkersType' /\ OwnerType' /\ BufferType' /\ faults' \in 0 .. MaxFaults
  BY <1>1 DEF TypeInv, HandlerType, WorkersType, OwnerType, BufferType
<1>3. <<>> \in Turns
  BY DEF Turns
<1>4. TurnsOf(stored[u]) \subseteq 1 .. MaxCalls
  <2>1. stored[u] \in Turns
    BY DEF TypeInv, ContextType
  <2>2. \A i \in DOMAIN stored[u] : stored[u][i] \in 1 .. MaxCalls
    BY <2>1 DEF Turns
  <2> QED
    BY <2>2 DEF TurnsOf
<1>5. ContextType'
  BY <1>1, <1>3, <1>4 DEF TypeInv, ContextType
<1> QED
  BY <1>2, <1>5 DEF Others

LEMMA InitialType == Init => TypeInv
<1> SUFFICES ASSUME Init PROVE TypeInv
  OBVIOUS
<1>1. HandlerType
  <2>1. "idle" \in Pcs /\ NoJob.call = 0
    BY DEF Pcs, NoJob
  <2>2. Len(owner) = 0
    BY DEF Init
  <2> QED
    BY <2>1, <2>2, NoJobType DEF Init, NoJobs, HandlerType
<1>2. OwnerType
  BY DEF Init, OwnerType
<1>3. <<>> \in Turns /\ <<>> \in Parts
  BY DEF Turns, Parts
<1>4. ContextType /\ BufferType
  BY <1>3 DEF Init, ContextType, BufferType, NoSpares, NoArrays
<1> QED
  BY <1>1, <1>2, <1>4 DEF Init, TypeInv, NoWorkers

LEMMA RestartType ==
  ASSUME TypeInv, Restart
  PROVE  HandlerType' /\ WorkersType' /\ Others'
<1>1. /\ pc' = [h \in Handlers |-> "idle"] /\ job' = NoJobs /\ workers' = NoWorkers
      /\ spare' = NoSpares /\ array' = NoArrays /\ rec' = <<>>
      /\ UNCHANGED <<owner, conversation>>
  BY DEF Restart
<1>2. faults' \in 0 .. MaxFaults
  BY FaultType DEF Restart, TypeInv
<1>3. HandlerType'
  <2>1. "idle" \in Pcs /\ NoJob.call = 0 /\ 0 <= Len(owner')
    BY <1>1 DEF Pcs, NoJob, TypeInv, OwnerType
  <2>2. \A h \in Handlers : job'[h] = NoJob /\ pc'[h] = "idle"
    BY <1>1 DEF NoJobs
  <2>3. job' \in [Handlers -> Jobs] /\ pc' \in [Handlers -> Pcs]
    BY <1>1, <2>1, NoJobType DEF NoJobs
  <2> QED
    BY <2>1, <2>2, <2>3 DEF HandlerType
<1>4. <<>> \in Parts
  BY DEF Parts
<1> QED
  BY <1>1, <1>2, <1>3, <1>4 DEF Others, WorkersType, OwnerType, ContextType, BufferType,
     TypeInv, NoSpares, NoArrays, NoWorkers, conversation

\* Every step is one of those above.
LEMMA StepKinds ==
  ASSUME TypeInv, Next
  PROVE  /\ Others'
         /\ \/ \E h \in Handlers : Goes(h) \/ Ends(h) \/ Begins(h) \/ Marks(h) \/ Deliver(h)
            \/ \E u \in Users : Forget(u)
            \/ Restart
<1>1. ASSUME NEW h \in Handlers,
             \/ GetUserContext(h) \/ SayLine(h) \/ EndAnswer(h) \/ TakeSlice(h)
             \/ AcceptWaveform(h) \/ Result(h)
      PROVE  Goes(h) /\ Others'
  BY <1>1, ContextGoes, LineGoes, AnswerGoes, SliceGoes, ChunkGoes, ResultGoes
<1>2. ASSUME NEW h \in Handlers,
             \/ Refuse(h) \/ FailContext(h) \/ FailAnswer(h) \/ SetUserContext(h)
             \/ Synthesize(h) \/ FailSynthesis(h) \/ FinalResult(h)
      PROVE  Ends(h) /\ Others'
  BY <1>2, FailuresEnd, WriteEnds, SynthesisEnds, FailedSynthesisEnds, RecognitionEnds
<1>3. ASSUME NEW h \in Handlers, Enter(h) PROVE Begins(h) /\ Others'
  BY <1>3, EnterBegins
<1>4. ASSUME NEW h \in Handlers, Decode(h) PROVE (Marks(h) \/ Ends(h)) /\ Others'
  BY <1>4, DecodeMarks
<1>5. ASSUME NEW h \in Handlers, Deliver(h) PROVE Others'
  BY <1>5, DeliverType
<1>6. ASSUME NEW u \in Users, ClearAIContext(u) \/ ExpireContext(u)
      PROVE  Forget(u) /\ Others'
  <2>1. Forget(u)
    BY <1>6 DEF ClearAIContext, ExpireContext
  <2> QED
    BY <2>1, ForgetType
<1>7. ASSUME Restart PROVE Others'
  BY <1>7, RestartType
<1>8. CASE \E h \in Handlers :
             \/ GetUserContext(h) \/ SayLine(h) \/ EndAnswer(h) \/ TakeSlice(h)
             \/ AcceptWaveform(h) \/ Result(h) \/ Refuse(h) \/ FailContext(h)
             \/ FailAnswer(h) \/ SetUserContext(h) \/ Synthesize(h) \/ FailSynthesis(h)
             \/ FinalResult(h) \/ Enter(h) \/ Decode(h) \/ Deliver(h)
  BY <1>1, <1>2, <1>3, <1>4, <1>5, <1>8
<1>9. CASE \E u \in Users : ClearAIContext(u) \/ ExpireContext(u)
  BY <1>6, <1>9
<1> QED
  BY <1>7, <1>8, <1>9 DEF Next

LEMMA NextType == ASSUME TypeInv, Next PROVE TypeInv'
<1>1. Others'
  BY StepKinds
<1>2. OwnerType'
  BY <1>1 DEF Others
<1>3. ASSUME NEW h \in Handlers,
             Goes(h) \/ Ends(h) \/ Begins(h) \/ Marks(h) \/ Deliver(h)
      PROVE  HandlerType' /\ WorkersType'
  BY <1>2, <1>3, GoesType, EndsType, BeginsType, MarksType, DeliverType
<1>4. HandlerType' /\ WorkersType'
  BY <1>3, StepKinds, ForgetType, RestartType
<1> QED
  BY <1>1, <1>4 DEF Others, TypeInv, WorkersType

-------------------------------------------------------------------------------
(* Workers: a step counts a handler in, counts it out, or leaves all counted. *)

\* The handlers that were let in with a text.
Generating == {h \in Counted("text") : pc[h] # "refused"}

Balance == \A k \in Kinds : workers[k] = Cardinality(Counted(k))

Agree == Balance /\ Cardinality(Generating) <= Limit

LEMMA CountedFinite ==
  ASSUME NEW k \in Kinds
  PROVE  /\ IsFiniteSet(Counted(k)) /\ IsFiniteSet(Counted(k)')
         /\ IsFiniteSet(Generating) /\ IsFiniteSet(Generating')
<1>1. /\ Counted(k) \subseteq Handlers /\ Counted(k)' \subseteq Handlers
      /\ Generating \subseteq Handlers /\ Generating' \subseteq Handlers
  BY DEF Counted, Generating
<1> QED
  BY <1>1, SetsAssumption, FS_Subset

\* A handler that goes on is counted as before.
LEMMA SameAgree ==
  ASSUME Agree, TypeInv, workers' = workers, NEW S \in SUBSET Handlers,
         \A g \in S : /\ job'[g].kind = job[g].kind
                      /\ pc[g] \notin {"idle", "done", "refused"}
                      /\ pc'[g] \notin {"idle", "done", "refused"},
         \A g \in Handlers \ S :
            \/ pc'[g] = pc[g] /\ job'[g].kind = job[g].kind
            \/ pc[g] \in {"idle", "done"} /\ pc'[g] \in {"idle", "done"}
  PROVE  Agree'
<1>1. ASSUME NEW k \in Kinds PROVE Counted(k)' = Counted(k)
  BY DEF Counted
<1>2. Generating' = Generating
  BY DEF Generating, Counted
<1> QED
  BY <1>1, <1>2 DEF Agree, Balance

LEMMA GoesAgree == ASSUME TypeInv, Agree, NEW h \in Handlers, Goes(h) PROVE Agree'
<1>1. PICK to \in Pcs \ {"idle", "done", "refused"}, j \in Jobs :
        Works(h, to, j) /\ Same(j, job[h])
  BY DEF Goes
<1>2. workers' = workers /\ pc[h] \notin {"idle", "done", "refused"}
  BY DEF Goes
<1>3. pc'[h] = to /\ job'[h].kind = job[h].kind
  BY <1>1 DEF Works, Same, TypeInv, HandlerType
<1>4. \A g \in Handlers \ {h} : pc'[g] = pc[g] /\ job'[g].kind = job[g].kind
  BY <1>1 DEF Works, TypeInv, HandlerType
<1>5. \A g \in {h} : /\ job'[g].kind = job[g].kind
                     /\ pc[g] \notin {"idle", "done", "refused"}
                     /\ pc'[g] \notin {"idle", "done", "refused"}
  BY <1>2, <1>3
<1>6. {h} \in SUBSET Handlers
  OBVIOUS
<1> QED
  BY <1>2, <1>4, <1>5, <1>6, SameAgree

LEMMA MarksAgree == ASSUME TypeInv, Agree, NEW h \in Handlers, Marks(h) PROVE Agree'
<1>1. /\ workers' = workers /\ pc[h] = "speech" /\ pc'[h] = "chunk"
      /\ \A g \in Handlers : job'[g].kind = job[g].kind
      /\ \A g \in Handlers \ {h} : pc'[g] = pc[g]
  BY DEF Marks, Same, TypeInv, HandlerType
<1>2. {h} \in SUBSET Handlers
  OBVIOUS
<1> QED
  BY <1>1, <1>2, SameAgree

LEMMA DeliverAgree == ASSUME TypeInv, Agree, NEW h \in Handlers, Deliver(h) PROVE Agree'
<1>1. workers' = workers /\ pc[h] = "done" /\ pc'[h] = "idle"
  BY DEF Deliver, Works, TypeInv, HandlerType
<1>2. \A g \in Handlers \ {h} : pc'[g] = pc[g] /\ job'[g].kind = job[g].kind
  BY DEF Deliver, Works, TypeInv, HandlerType
<1>3. {} \in SUBSET Handlers
  OBVIOUS
<1> QED
  BY <1>1, <1>2, <1>3, SameAgree

\* On every way out of a handler its counter goes down, once.
LEMMA EndsAgree == ASSUME TypeInv, Agree, NEW h \in Handlers, Ends(h) PROVE Agree'
<1> DEFINE kind == job[h].kind
<1>1. pc[h] \notin {"idle", "done"} /\ workers' = [workers EXCEPT ![kind] = @ - 1]
  BY DEF Ends, Leave
<1>2. pc'[h] \in {"idle", "done"}
  BY DEF Ends, Works, TypeInv, HandlerType
<1>3. \A g \in Handlers \ {h} : pc'[g] = pc[g] /\ job'[g] = job[g]
  BY DEF Ends, Works, TypeInv, HandlerType
<1>4. kind \in Kinds
  BY DEF TypeInv, HandlerType, Jobs
<1>5. ASSUME NEW k \in Kinds PROVE workers'[k] = Cardinality(Counted(k)')
  <2>1. workers[k] = Cardinality(Counted(k)) /\ IsFiniteSet(Counted(k))
    BY <1>5, CountedFinite DEF Agree, Balance
  <2>2. CASE k = kind
    <3>1. Counted(k)' = Counted(k) \ {h} /\ h \in Counted(k)
      BY <1>1, <1>2, <1>3, <2>2 DEF Counted
    <3>2. Cardinality(Counted(k)') = Cardinality(Counted(k)) - 1
      <4> DEFINE C == Counted(k)
      <4>1. IsFiniteSet(C) /\ h \in C
        BY <2>1, <3>1
      <4> HIDE DEF C
      <4>2. Cardinality(C \ {h}) = Cardinality(C) - 1
        BY <4>1, FS_RemoveElement
      <4> QED
        BY <3>1, <4>2 DEF C
    <3> QED
      BY <1>1, <2>1, <2>2, <3>2 DEF TypeInv
  <2>3. CASE k # kind
    <3>1. Counted(k)' = Counted(k)
      BY <1>1, <1>2, <1>3, <2>3 DEF Counted
    <3> QED
      BY <1>1, <2>1, <2>3, <3>1 DEF TypeInv
  <2> QED
    BY <2>2, <2>3
<1>6. Cardinality(Generating') <= Limit
  <2>1. Generating' \subseteq Generating
    BY <1>2, <1>3 DEF Generating, Counted
  <2>2. IsFiniteSet(Generating) /\ IsFiniteSet(Generating')
    BY <1>4, CountedFinite
  <2>3. Cardinality(Generating') <= Cardinality(Generating)
    BY <2>1, <2>2, FS_Subset
  <2>4. Cardinality(Generating') \in Nat /\ Cardinality(Generating) \in Nat
    BY <2>2, FS_CardinalityType
  <2> QED
    BY <2>3, <2>4 DEF Agree
<1> QED
  BY <1>5, <1>6 DEF Agree, Balance

\* A handler counts itself in before it compares: it is not let in beyond the limit.
LEMMA BeginsAgree == ASSUME TypeInv, Agree, NEW h \in Handlers, Begins(h) PROVE Agree'
<1>1. PICK kind \in Kinds, uuid \in Users \cup {0}, j \in Jobs :
       /\ j.kind = kind /\ j.uuid = uuid /\ (kind = "text" => uuid \in Users)
       /\ workers' = [workers EXCEPT ![kind] = @ + 1]
       /\ \/ Works(h, "refused", j)
          \/ Works(h, kind, j) /\ (workers'[kind] > Limit => uuid = 0)
  BY DEF Begins
<1>2. pc[h] = "idle" /\ job'[h].kind = kind /\ pc'[h] \in Kinds \cup {"refused"}
  BY <1>1 DEF Begins, Works, TypeInv, HandlerType
<1>3. \A g \in Handlers \ {h} : pc'[g] = pc[g] /\ job'[g] = job[g]
  BY <1>1 DEF Works, TypeInv, HandlerType
<1>4. pc'[h] \notin {"idle", "done"}
  BY <1>2 DEF Kinds
<1>5. ASSUME NEW k \in Kinds PROVE workers'[k] = Cardinality(Counted(k)')
  <2>1. workers[k] = Cardinality(Counted(k)) /\ IsFiniteSet(Counted(k))
    BY <1>5, CountedFinite DEF Agree, Balance
  <2>2. CASE k = kind
    <3>1. Counted(k)' = Counted(k) \cup {h} /\ h \notin Counted(k)
      BY <1>2, <1>3, <1>4, <2>2 DEF Counted
    <3>2. Cardinality(Counted(k)') = Cardinality(Counted(k)) + 1
      <4> DEFINE C == Counted(k)
      <4>1. IsFiniteSet(C) /\ h \notin C
        BY <2>1, <3>1
      <4> HIDE DEF C
      <4>2. Cardinality(C \cup {h}) = Cardinality(C) + 1
        BY <4>1, FS_AddElement
      <4> QED
        BY <3>1, <4>2 DEF C
    <3> QED
      BY <1>1, <2>1, <2>2, <3>2 DEF TypeInv
  <2>3. CASE k # kind
    <3>1. Counted(k)' = Counted(k)
      BY <1>2, <1>3, <1>4, <2>3 DEF Counted
    <3> QED
      BY <1>1, <2>1, <2>3, <3>1 DEF TypeInv
  <2> QED
    BY <2>2, <2>3
<1>6. Cardinality(Generating') <= Limit
  <2>1. CASE kind = "text" /\ pc'[h] # "refused"
    <3>1. workers'["text"] <= Limit
      <4>1. uuid # 0
        BY <1>1, <2>1, SetsAssumption
      <4>2. ~(workers'[kind] > Limit)
        BY <1>1, <2>1, <4>1 DEF Works, TypeInv, HandlerType
      <4>3. workers'["text"] \in Int
        BY <1>1, <2>1 DEF TypeInv
      <4> QED
        BY <2>1, <4>2, <4>3
    <3>2. workers'["text"] = Cardinality(Counted("text")')
      BY <1>5 DEF Kinds
    <3>3. Generating' \subseteq Counted("text")'
      BY DEF Generating
    <3>4. IsFiniteSet(Generating') /\ IsFiniteSet(Counted("text")')
      BY CountedFinite DEF Kinds
    <3>5. Cardinality(Generating') <= Cardinality(Counted("text")')
      BY <3>3, <3>4, FS_Subset
    <3>6. Cardinality(Generating') \in Nat /\ Cardinality(Counted("text")') \in Nat
      BY <3>4, FS_CardinalityType
    <3> QED
      BY <3>1, <3>2, <3>5, <3>6
  <2>2. CASE ~(kind = "text" /\ pc'[h] # "refused")
    <3>1. Generating' = Generating
      BY <1>2, <1>3, <2>2 DEF Generating, Counted
    <3> QED
      BY <3>1 DEF Agree
  <2> QED
    BY <2>1, <2>2
<1> QED
  BY <1>5, <1>6 DEF Agree, Balance

LEMMA NoneCounted ==
  ASSUME \A h \in Handlers : pc[h] = "idle", workers = NoWorkers
  PROVE  Agree
<1>1. Generating = {} /\ \A k \in Kinds : Counted(k) = {}
  BY DEF Generating, Counted
<1>2. Cardinality({}) = 0
  BY FS_EmptySet
<1> QED
  BY <1>1, <1>2 DEF Agree, Balance, NoWorkers

LEMMA RestartAgree == ASSUME TypeInv, Restart PROVE Agree'
<1>1. (\A h \in Handlers : pc'[h] = "idle") /\ workers' = NoWorkers
  BY DEF Restart
<1>2. Generating' = {} /\ \A k \in Kinds : Counted(k)' = {}
  BY <1>1 DEF Generating, Counted
<1>3. Cardinality({}) = 0
  BY FS_EmptySet
<1> QED
  BY <1>1, <1>2, <1>3 DEF Agree, Balance, NoWorkers

LEMMA NextAgree == ASSUME TypeInv, Agree, Next PROVE Agree'
<1>1. ASSUME NEW h \in Handlers,
             Goes(h) \/ Ends(h) \/ Begins(h) \/ Marks(h) \/ Deliver(h)
      PROVE  Agree'
  BY <1>1, GoesAgree, EndsAgree, BeginsAgree, MarksAgree, DeliverAgree
<1>2. ASSUME NEW u \in Users, Forget(u) PROVE Agree'
  BY <1>2 DEF Forget, Agree, Balance, Generating, Counted
<1> QED
  BY <1>1, <1>2, StepKinds, RestartAgree

-------------------------------------------------------------------------------

LEMMA AlwaysAgree == Spec => [](TypeInv /\ Agree)
<1>1. Init => TypeInv /\ Agree
  <2> SUFFICES ASSUME Init PROVE TypeInv /\ Agree
    OBVIOUS
  <2>1. (\A h \in Handlers : pc[h] = "idle") /\ workers = NoWorkers
    BY DEF Init
  <2> QED
    BY <2>1, InitialType, NoneCounted
<1>2. TypeInv /\ Agree /\ [Next]_vars => (TypeInv /\ Agree)'
  <2>1. ASSUME TypeInv, Agree, UNCHANGED vars PROVE TypeInv' /\ Agree'
    BY <2>1 DEF vars, conversation, TypeInv, OwnerType, HandlerType, ContextType, BufferType,
       Agree, Balance, Generating, Counted
  <2> QED
    BY <2>1, NextType, NextAgree
<1> QED
  BY <1>1, <1>2, PTL DEF Spec

\* The handlers and what they hold keep their types, for every number of handlers, users
\* and calls; no counter is ever negative, since each is a number of handlers.
THEOREM TypeCorrect == Spec => []TypeOK
<1>1. TypeInv /\ Agree => TypeOK
  <2> SUFFICES ASSUME TypeInv, Agree PROVE TypeOK
    OBVIOUS
  <2>1. workers \in [Kinds -> Nat]
    <3>1. \A k \in Kinds : workers[k] \in Nat
      BY CountedFinite, FS_CardinalityType DEF Agree, Balance
    <3> QED
      BY <3>1 DEF TypeInv
  <2>2. \A h \in Handlers : job[h] \in [kind : Kinds, uuid : Users \cup {0},
           call : 0 .. Len(owner), pieces : 0 .. Pieces, sent : Parts, resBuf : Parts,
           uctx : Turns, newUctx : Turns, audioBuf : 0 .. MaxCalls, alone : BOOLEAN]
    <3>1. Len(owner) \in Nat
      BY DEF TypeInv, OwnerType
    <3> QED
      BY <3>1 DEF TypeInv, HandlerType, Jobs
  <2> QED
    BY <2>1, <2>2 DEF TypeOK, TypeInv, OwnerType, HandlerType, ContextType, BufferType, Pcs
<1> QED
  BY <1>1, AlwaysAgree, PTL

\* The counters of workers agree with the handlers at work, and no more texts than the
\* limit are generated at a time, whatever the limit and however many calls come together.
THEOREM WorkersAlwaysAgree == Spec => []WorkersAgree
<1>1. Agree => WorkersAgree
  BY DEF Agree, Balance, Generating, WorkersAgree
<1> QED
  BY <1>1, AlwaysAgree, PTL
===============================================================================
