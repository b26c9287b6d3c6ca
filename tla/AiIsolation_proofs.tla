----------------------------- MODULE AiIsolation_proofs -----------------------------
(***************************************************************************)
(* That AiService keeps the conversations and the replies of its users apart, *)
(* for all users, numbers of handlers and bounds.                             *)
(***************************************************************************)
EXTENDS AiService_proofs, SequenceTheorems

AtWork == {"lines", "write"}

\* The context a handler at work has in hand.
Held(h) == IF pc[h] = "lines" THEN job[h].uctx ELSE job[h].newUctx

\* Turns of u only, each once, and none that is erased.
Own(s, u) ==
  /\ \A i, k \in DOMAIN s : s[i] = s[k] => i = k
  /\ \A t \in TurnsOf(s) : t \in 1 .. Len(owner) /\ owner[t] = u /\ t \notin erased

\* Every context is its user's, wherever it is.
ContextsOwn ==
  /\ \A u \in Users : Own(stored[u], u)
  /\ \A h \in Handlers : pc[h] \in AtWork => Own(Held(h), job[h].uuid)
  /\ erased \subseteq 1 .. Len(owner)

\* The turn of a handler that has not answered yet is in no context.
PendingNew ==
  \A h \in Handlers : pc[h] \in {"text", "lines"} =>
    /\ owner[job[h].call] = job[h].uuid /\ job[h].call \notin erased
    /\ \A u \in Users : job[h].call \notin TurnsOf(stored[u])
    /\ \A g \in Handlers : pc[g] \in AtWork => job[h].call \notin TurnsOf(Held(g))

CallsDiffer ==
  \A g, h \in Handlers :
    pc[g] # "idle" /\ pc[h] # "idle" /\ job[g].call = job[h].call => g = h

\* Where the calls of a user did not overlap, one handler at most has his context, as it
\* is stored, or with its own turn after it, or the empty one.
OneByOne ==
  \A u \in Users \ mixed :
    /\ stored[u] = since[u]
    /\ \A g, h \in AtWorkFor(u) : g = h
    /\ \A h \in AtWorkFor(u) :
         IF pc[h] = "lines" THEN job[h].uctx = stored[u]
         ELSE job[h].newUctx \in {<<>>, Append(stored[u], job[h].call)}

CtxInv == ContextsOwn /\ PendingNew /\ CallsDiffer /\ OneByOne

LEMMA AppendTurn ==
  ASSUME NEW s \in Turns, NEW t \in 1 .. MaxCalls
  PROVE  /\ TurnsOf(Append(s, t)) = TurnsOf(s) \cup {t}
         /\ Append(s, t) \in Turns
         /\ /\ t \notin TurnsOf(s)
            /\ \A i, k \in DOMAIN s : s[i] = s[k] => i = k
            => \A i, k \in DOMAIN Append(s, t) : Append(s, t)[i] = Append(s, t)[k] => i = k
<1>1. /\ DOMAIN Append(s, t) = 1 .. Len(s) + 1 /\ DOMAIN s = 1 .. Len(s) /\ Len(s) \in Nat
      /\ \A i \in 1 .. Len(s) : Append(s, t)[i] = s[i]
      /\ Append(s, t)[Len(s) + 1] = t
      /\ Append(s, t) \in Turns
  BY AppendProperties DEF Turns
<1>2. TurnsOf(Append(s, t)) = TurnsOf(s) \cup {t}
  <2>1. \A i \in 1 .. Len(s) + 1 : Append(s, t)[i] \in TurnsOf(s) \cup {t}
    BY <1>1 DEF TurnsOf
  <2>2. TurnsOf(s) \cup {t} \subseteq TurnsOf(Append(s, t))
    BY <1>1 DEF TurnsOf
  <2> QED
    BY <1>1, <2>1, <2>2 DEF TurnsOf
<1> QED
  BY <1>1, <1>2 DEF TurnsOf

LEMMA EmptyTurns == TurnsOf(<<>>) = {} /\ \A u : Own(<<>>, u)
BY DEF TurnsOf, Own

-------------------------------------------------------------------------------

\* A handler as the contexts see it stays as it is, or has done with them.
Keeps(g) ==
  \/ /\ pc'[g] = pc[g] /\ job'[g].uuid = job[g].uuid /\ job'[g].call = job[g].call
     /\ job'[g].uctx = job[g].uctx /\ job'[g].newUctx = job[g].newUctx
  \/ pc'[g] = "idle"
  \/ /\ pc'[g] \notin {"text", "lines", "write"} /\ pc[g] # "idle"
     /\ job'[g].call = job[g].call

LEMMA KeepsWhole ==
  ASSUME CtxInv, TypeInv, UNCHANGED <<owner, conversation>>, \A g \in Handlers : Keeps(g)
  PROVE  CtxInv'
<1>1. \A g \in Handlers : pc'[g] \in {"text", "lines", "write"} =>
        /\ pc'[g] = pc[g] /\ job'[g].uuid = job[g].uuid /\ job'[g].call = job[g].call
        /\ job'[g].uctx = job[g].uctx /\ job'[g].newUctx = job[g].newUctx
  BY DEF Keeps
<1>2. \A g \in Handlers : pc'[g] \in AtWork =>
        pc[g] \in AtWork /\ Held(g)' = Held(g) /\ job'[g].uuid = job[g].uuid
  BY <1>1 DEF AtWork, Held
<1>3. \A u : AtWorkFor(u)' \subseteq AtWorkFor(u)
  BY <1>2 DEF AtWorkFor, AtWork
<1>4. UNCHANGED <<owner, stored, since, mixed, erased>>
  BY DEF conversation
<1>5. ContextsOwn'
  BY <1>2, <1>4 DEF CtxInv, ContextsOwn, Own
<1>6. PendingNew'
  BY <1>1, <1>2, <1>4 DEF CtxInv, PendingNew
<1>7. CallsDiffer'
  BY DEF CtxInv, CallsDiffer, Keeps
<1>8. OneByOne'
  BY <1>1, <1>3, <1>4 DEF CtxInv, OneByOne, AtWorkFor
<1> QED
  BY <1>5, <1>6, <1>7, <1>8 DEF CtxInv

\* What the steps of the handlers do to their own fields and to those of others.
LEMMA WorksFields ==
  ASSUME TypeInv, NEW h \in Handlers, NEW to, NEW j, Works(h, to, j)
  PROVE  /\ pc'[h] = to /\ job'[h] = j
         /\ \A g \in Handlers \ {h} : pc'[g] = pc[g] /\ job'[g] = job[g]
BY DEF Works, TypeInv, HandlerType

LEMMA QuietSteps ==
  ASSUME TypeInv, NEW h \in Handlers,
         \/ Refuse(h) \/ Deliver(h) \/ FailContext(h) \/ SayLine(h) \/ FailAnswer(h)
         \/ TakeSlice(h) \/ Synthesize(h) \/ FailSynthesis(h)
         \/ Decode(h) \/ AcceptWaveform(h) \/ Result(h) \/ FinalResult(h)
  PROVE  UNCHANGED <<owner, conversation>> /\ \A g \in Handlers : Keeps(g)
<1>0. job[h] \in Jobs
  BY DEF TypeInv, HandlerType
<1>1. CASE Refuse(h) \/ Deliver(h) \/ FailContext(h) \/ FailAnswer(h) \/ FailSynthesis(h)
  <2>1. Works(h, "idle", NoJob) /\ UNCHANGED <<owner, conversation>>
    BY <1>1 DEF Refuse, Deliver, FailContext, FailAnswer, FailSynthesis
  <2> QED
    BY <2>1, WorksFields DEF Keeps
<1>2. CASE SayLine(h)
  <2> DEFINE text == Append(job[h].resBuf, <<job[h].call, job[h].pieces + 1>>)
             j1 == [job[h] EXCEPT !.pieces = @ + 1, !.resBuf = text]
             j2 == [job[h] EXCEPT !.pieces = @ + 1, !.resBuf = <<>>, !.sent = @ \o text]
  <2>1. /\ j1.uuid = job[h].uuid /\ j1.call = job[h].call
        /\ j1.uctx = job[h].uctx /\ j1.newUctx = job[h].newUctx
        /\ j2.uuid = job[h].uuid /\ j2.call = job[h].call
        /\ j2.uctx = job[h].uctx /\ j2.newUctx = job[h].newUctx
    <3> HIDE DEF text
    <3> QED
      BY <1>0 DEF Jobs
  <2>2. /\ pc[h] = "lines" /\ UNCHANGED <<owner, conversation>>
        /\ Works(h, "lines", j1) \/ Works(h, "lines", j2)
    BY <1>2 DEF SayLine
  <2> HIDE DEF j1, j2
  <2> QED
    BY <2>1, <2>2, WorksFields DEF Keeps
<1>3. CASE \/ TakeSlice(h) \/ Synthesize(h) \/ AcceptWaveform(h) \/ Result(h)
           \/ FinalResult(h)
  <2>1. \E to \in {"synthesis", "done", "chunk", "result"} :
          \E j : Works(h, to, j) /\ j.call = job[h].call
    <3>1. CASE TakeSlice(h)
      BY <1>0, <3>1 DEF TakeSlice, Jobs
    <3>2. CASE Synthesize(h)
      BY <1>0, <3>2 DEF Synthesize, Jobs
    <3>3. CASE AcceptWaveform(h)
      BY <1>0, <3>3 DEF AcceptWaveform, Jobs
    <3>4. CASE Result(h) \/ FinalResult(h)
      BY <1>0, <3>4 DEF Result, FinalResult, Jobs
    <3> QED
      BY <1>3, <3>1, <3>2, <3>3, <3>4
  <2>2. pc[h] # "idle" /\ UNCHANGED <<owner, conversation>>
    BY <1>3 DEF TakeSlice, Synthesize, AcceptWaveform, Result, FinalResult
  <2> QED
    BY <2>1, <2>2, WorksFields DEF Keeps
<1>4. CASE Decode(h)
  <2>1. pc[h] = "speech" /\ UNCHANGED <<owner, conversation>>
    BY <1>4 DEF Decode
  <2>2. CASE Works(h, "idle", NoJob)
    BY <2>1, <2>2, WorksFields DEF Keeps
  <2>3. CASE /\ pc' = [pc EXCEPT ![h] = "chunk"]
             /\ job' = [g \in Handlers |->
                  IF g = h \/ g \in Recognizing
                  THEN [job[g] EXCEPT !.alone = @ /\ Recognizing = {}] ELSE job[g]]
    <3>1. \A g \in Handlers :
            /\ job'[g].uuid = job[g].uuid /\ job'[g].call = job[g].call
            /\ job'[g].uctx = job[g].uctx /\ job'[g].newUctx = job[g].newUctx
      BY <2>3 DEF TypeInv, HandlerType, Jobs
    <3>2. pc'[h] = "chunk" /\ \A g \in Handlers \ {h} : pc'[g] = pc[g]
      BY <2>3 DEF TypeInv, HandlerType
    <3> QED
      BY <2>1, <3>1, <3>2 DEF Keeps
  <2> QED
    BY <1>4, <2>2, <2>3 DEF Decode
<1> QED
  BY <1>1, <1>2, <1>3, <1>4


-------------------------------------------------------------------------------
(* The steps that make, hand on, store and empty contexts.                   *)

\* A new call is later than all turns there are.
LEMMA EnterContext == ASSUME TypeInv, CtxInv, NEW h \in Handlers, Enter(h) PROVE CtxInv'
<1>1. /\ pc[h] = "idle" /\ Len(owner) < MaxCalls /\ UNCHANGED conversation
  BY DEF Enter
<1>2. PICK kind \in Kinds : \E uuid \in Uuids(kind) :
        /\ owner' = Append(owner, uuid)
        /\ Works(h, IF workers'[kind] > Limit /\ uuid # adminUUID THEN "refused" ELSE kind,
                 [NoJob EXCEPT !.kind = kind, !.uuid = uuid, !.call = Len(owner) + 1])
  BY DEF Enter
<1>3. PICK uuid \in Uuids(kind) :
        /\ owner' = Append(owner, uuid)
        /\ Works(h, IF workers'[kind] > Limit /\ uuid # adminUUID THEN "refused" ELSE kind,
                 [NoJob EXCEPT !.kind = kind, !.uuid = uuid, !.call = Len(owner) + 1])
  BY <1>2
<1>4. PICK to, n : /\ to = IF workers'[kind] > Limit /\ uuid # adminUUID THEN "refused" ELSE kind
                   /\ n = Len(owner) + 1
  OBVIOUS
<1>5. /\ to \in {"text", "audio", "speech", "refused"}
      /\ pc'[h] = to /\ job'[h].uuid = uuid /\ job'[h].call = n
      /\ \A g \in Handlers \ {h} : pc'[g] = pc[g] /\ job'[g] = job[g]
  <2> DEFINE j == [NoJob EXCEPT !.kind = kind, !.uuid = uuid, !.call = n]
  <2>1. j.uuid = uuid /\ j.call = n
    BY DEF NoJob
  <2>2. Works(h, to, j)
    BY <1>3, <1>4
  <2> HIDE DEF j
  <2>3. /\ pc'[h] = to /\ job'[h] = j
        /\ \A g \in Handlers \ {h} : pc'[g] = pc[g] /\ job'[g] = job[g]
    BY <2>2, WorksFields
  <2> QED
    BY <1>4, <2>1, <2>3 DEF Kinds
<1>6. /\ owner' = Append(owner, uuid) /\ Len(owner') = n /\ owner'[n] = uuid
      /\ n \notin 1 .. Len(owner) /\ 1 .. Len(owner) \subseteq 1 .. n
      /\ \A i \in 1 .. Len(owner) : owner'[i] = owner[i]
  <2>1. owner \in Seq(Users \cup {0}) /\ uuid \in Users \cup {0}
    BY DEF TypeInv, OwnerType, Uuids, adminUUID
  <2> QED
    BY <1>3, <1>4, <2>1, AppendProperties
<1>7. /\ UNCHANGED <<stored, since, mixed, erased>>
      /\ \A u : AtWorkFor(u)' = AtWorkFor(u)
      /\ pc'[h] \notin AtWork /\ pc[h] \notin AtWork
      /\ \A g \in Handlers : pc'[g] \in AtWork => g # h /\ Held(g)' = Held(g)
  BY <1>1, <1>5 DEF conversation, AtWorkFor, AtWork, Held
<1>8. \A s, u : Own(s, u) => Own(s, u)' /\ n \notin TurnsOf(s)
  BY <1>6, <1>7 DEF Own
<1>9. ContextsOwn'
  <2>1. \A u \in Users : Own(stored[u], u)'
    BY <1>7, <1>8 DEF CtxInv, ContextsOwn
  <2>2. ASSUME NEW g \in Handlers, pc'[g] \in AtWork PROVE Own(Held(g), job[g].uuid)'
    <3>1. g # h /\ Held(g)' = Held(g) /\ job'[g].uuid = job[g].uuid /\ pc[g] \in AtWork
      BY <1>5, <1>7, <2>2
    <3>2. PICK s, u : s = Held(g) /\ u = job[g].uuid
      OBVIOUS
    <3>3. Own(s, u)'
      BY <1>8, <3>1, <3>2 DEF CtxInv, ContextsOwn
    <3> QED
      BY <3>1, <3>2, <3>3
  <2>3. erased' \subseteq 1 .. Len(owner')
    BY <1>6, <1>7 DEF CtxInv, ContextsOwn
  <2> QED
    BY <2>1, <2>2, <2>3 DEF ContextsOwn
<1>10. PendingNew'
  <2> SUFFICES ASSUME NEW f \in Handlers, pc'[f] \in {"text", "lines"}
               PROVE  /\ owner'[job'[f].call] = job'[f].uuid /\ job'[f].call \notin erased
                      /\ \A u \in Users : job'[f].call \notin TurnsOf(stored[u])
                      /\ \A g \in Handlers : pc'[g] \in AtWork =>
                                               job'[f].call \notin TurnsOf(Held(g))
    BY <1>7 DEF PendingNew
  <2>1. CASE f # h
    <3>1. pc[f] \in {"text", "lines"} /\ job[f].call \in 1 .. Len(owner)
      <4>1. pc[f] \in {"text", "lines"}
        BY <1>5, <2>1
      <4>2. /\ job[f] \in Jobs /\ job[f].call > 0 /\ job[f].call <= Len(owner)
            /\ Len(owner) \in Nat
        BY <4>1 DEF TypeInv, HandlerType, OwnerType
      <4> QED
        BY <4>1, <4>2 DEF Jobs
    <3>2. PICK c : c = job[f].call
      OBVIOUS
    <3>3. /\ owner[c] = job[f].uuid /\ c \notin erased
          /\ \A u \in Users : c \notin TurnsOf(stored[u])
          /\ \A g \in Handlers : pc[g] \in AtWork => c \notin TurnsOf(Held(g))
      BY <3>1, <3>2 DEF CtxInv, PendingNew
    <3>4. /\ job'[f].call = c /\ job'[f].uuid = job[f].uuid /\ owner'[c] = owner[c]
          /\ \A g \in Handlers : pc'[g] \in AtWork => pc[g] \in AtWork /\ Held(g)' = Held(g)
      BY <1>5, <1>6, <1>7, <2>1, <3>1, <3>2
    <3> QED
      BY <1>7, <3>3, <3>4
  <2>2. CASE f = h
    BY <1>5, <1>6, <1>7, <1>8, <2>2 DEF CtxInv, ContextsOwn
  <2> QED
    BY <2>1, <2>2
<1>11. CallsDiffer'
  <2>1. \A g \in Handlers \ {h} : pc[g] # "idle" => job[g].call # n
    BY <1>4, <1>6 DEF TypeInv, HandlerType, Jobs
  <2> QED
    BY <1>5, <2>1 DEF CtxInv, CallsDiffer
<1>12. OneByOne'
  BY <1>5, <1>7 DEF CtxInv, OneByOne, AtWorkFor, AtWork
<1> QED
  BY <1>9, <1>10, <1>11, <1>12 DEF CtxInv

\* A context is read; if another handler of the user has it, the calls overlap.
LEMMA ReadContext ==
  ASSUME TypeInv, CtxInv, NEW h \in Handlers, GetUserContext(h)
  PROVE  CtxInv'
<1> PICK u : u = job[h].uuid
  OBVIOUS
<1>1. /\ pc[h] = "text" /\ UNCHANGED <<owner, stored, since, erased>>
      /\ mixed' = IF AtWorkFor(u) = {} THEN mixed ELSE mixed \cup {u}
      /\ u \in Users
  BY DEF GetUserContext, TypeInv, HandlerType
<1>2. PICK x : Works(h, "lines", [job[h] EXCEPT !.uctx = stored[u], !.resBuf = <<>>, !.newUctx = x])
  BY DEF GetUserContext
<1>3. /\ pc'[h] = "lines" /\ job'[h].uuid = u /\ job'[h].call = job[h].call
      /\ job'[h].uctx = stored[u]
      /\ \A g \in Handlers \ {h} : pc'[g] = pc[g] /\ job'[g] = job[g]
  <2> DEFINE j == [job[h] EXCEPT !.uctx = stored[u], !.resBuf = <<>>, !.newUctx = x]
  <2>1. j.uuid = u /\ j.call = job[h].call /\ j.uctx = stored[u]
    BY DEF TypeInv, HandlerType, Jobs
  <2> HIDE DEF j
  <2>2. Works(h, "lines", j)
    BY <1>2 DEF j
  <2> QED
    BY <2>1, <2>2, WorksFields
<1>4. /\ Held(h)' = stored[u] /\ pc[h] \notin AtWork
      /\ \A g \in Handlers \ {h} : Held(g)' = Held(g)
  BY <1>1, <1>3 DEF Held, AtWork
<1>5. ContextsOwn'
  BY <1>1, <1>3, <1>4 DEF CtxInv, ContextsOwn, Own
<1>6. PendingNew'
  <2>1. \A g \in Handlers : pc'[g] \in AtWork => \/ pc[g] \in AtWork /\ Held(g)' = Held(g)
                                                 \/ Held(g)' = stored[u]
    BY <1>3, <1>4
  <2>2. \A g \in Handlers : pc'[g] \in {"text", "lines"} =>
          /\ pc[g] \in {"text", "lines"} /\ job'[g].call = job[g].call
          /\ job'[g].uuid = job[g].uuid
    BY <1>1, <1>3
  <2> QED
    BY <1>1, <2>1, <2>2 DEF CtxInv, PendingNew
<1>7. CallsDiffer'
  BY <1>1, <1>3 DEF CtxInv, CallsDiffer
<1>8. OneByOne'
  <2> SUFFICES ASSUME NEW v \in Users \ mixed'
               PROVE  /\ stored[v] = since[v]
                      /\ \A f, g \in AtWorkFor(v)' : f = g
                      /\ \A g \in AtWorkFor(v)' :
                           IF pc'[g] = "lines" THEN job'[g].uctx = stored[v]
                           ELSE job'[g].newUctx \in {<<>>, Append(stored[v], job'[g].call)}
    BY <1>1 DEF OneByOne
  <2>1. v \in Users \ mixed
    BY <1>1
  <2>2. CASE v # u
    <3>1. AtWorkFor(v)' = AtWorkFor(v) /\ h \notin AtWorkFor(v)
      BY <1>1, <1>3, <2>2 DEF AtWorkFor
    <3> QED
      BY <1>3, <2>1, <3>1 DEF CtxInv, OneByOne, AtWorkFor
  <2>3. CASE v = u
    <3>1. AtWorkFor(u) = {}
      BY <1>1, <2>3
    <3>2. AtWorkFor(u)' = {h}
      BY <1>3, <3>1 DEF AtWorkFor
    <3> QED
      BY <1>3, <2>1, <2>3, <3>2 DEF CtxInv, OneByOne
  <2> QED
    BY <2>2, <2>3
<1> QED
  BY <1>5, <1>6, <1>7, <1>8 DEF CtxInv

\* The new context is the one that was read and the turn, or none.
LEMMA AnswerContext ==
  ASSUME TypeInv, CtxInv, NEW h \in Handlers, EndAnswer(h)
  PROVE  CtxInv'
<1>1. /\ pc[h] = "lines" /\ UNCHANGED <<owner, stored, since, mixed, erased>>
  BY DEF EndAnswer, conversation
<1>2. PICK u, c, old, new :
        /\ u = job[h].uuid /\ c = job[h].call /\ old = job[h].uctx
        /\ new \in {<<>>, Append(old, c)}
        /\ Works(h, "write", [SendRest(job[h]) EXCEPT !.newUctx = new])
  BY DEF EndAnswer, NewContext
<1>3. /\ pc'[h] = "write" /\ job'[h].uuid = u /\ job'[h].call = c /\ job'[h].newUctx = new
      /\ \A g \in Handlers \ {h} : pc'[g] = pc[g] /\ job'[g] = job[g]
  <2> DEFINE j == [SendRest(job[h]) EXCEPT !.newUctx = new]
  <2>1. j.uuid = u /\ j.call = c /\ j.newUctx = new
    BY <1>2 DEF TypeInv, HandlerType, Jobs, SendRest
  <2> HIDE DEF j
  <2>2. Works(h, "write", j)
    BY <1>2 DEF j
  <2> QED
    BY <2>1, <2>2, WorksFields
<1>4. /\ old \in Turns /\ c \in 1 .. MaxCalls /\ u \in Users /\ c \in 1 .. Len(owner)
      /\ Own(old, u) /\ c \notin TurnsOf(old) /\ owner[c] = u /\ c \notin erased
  <2>1. /\ job[h] \in Jobs /\ job[h].call > 0 /\ job[h].call <= Len(owner)
        /\ job[h].uuid \in Users /\ Len(owner) \in Nat
    BY <1>1 DEF TypeInv, HandlerType, OwnerType
  <2>2. Own(old, u) /\ c \notin TurnsOf(old) /\ owner[c] = u /\ c \notin erased
    BY <1>1, <1>2 DEF CtxInv, ContextsOwn, PendingNew, AtWork, Held
  <2> QED
    BY <1>2, <2>1, <2>2 DEF Jobs
<1>5. Own(new, u) /\ TurnsOf(new) \subseteq TurnsOf(old) \cup {c}
  <2>1. CASE new = <<>>
    BY <2>1, EmptyTurns
  <2>2. CASE new = Append(old, c)
    <3>1. \A t \in TurnsOf(new) : t \in 1 .. Len(owner) /\ owner[t] = u /\ t \notin erased
      BY <1>4, <2>2, AppendTurn DEF Own
    <3>2. \A i, k \in DOMAIN new : new[i] = new[k] => i = k
      BY <1>4, <2>2, AppendTurn DEF Own
    <3> QED
      BY <1>4, <2>2, <3>1, <3>2, AppendTurn DEF Own
  <2> QED
    BY <1>2, <2>1, <2>2
<1>6. /\ Held(h)' = new /\ Held(h) = old
      /\ \A g \in Handlers \ {h} : Held(g)' = Held(g)
  BY <1>1, <1>2, <1>3 DEF Held
<1>7. ContextsOwn'
  <2>1. Own(new, u)'
    BY <1>1, <1>5 DEF Own
  <2>2. \A g \in Handlers \ {h} : pc'[g] \in AtWork => Own(Held(g), job[g].uuid)'
    BY <1>1, <1>3, <1>6 DEF CtxInv, ContextsOwn, Own
  <2> QED
    BY <1>1, <1>3, <1>6, <2>1, <2>2 DEF CtxInv, ContextsOwn, Own
<1>8. PendingNew'
  <2>1. \A g \in Handlers : pc'[g] \in {"text", "lines"} =>
          g # h /\ pc[g] = pc'[g] /\ job'[g] = job[g] /\ job[g].call # c
    BY <1>1, <1>2, <1>3 DEF CtxInv, CallsDiffer
  <2>2. ASSUME NEW f \in Handlers, pc'[f] \in {"text", "lines"},
               NEW g \in Handlers, pc'[g] \in AtWork
        PROVE  job[f].call \notin TurnsOf(Held(g)')
    <3>1. job[f].call \notin TurnsOf(Held(g)) /\ job[f].call # c
      BY <1>1, <1>3, <2>1, <2>2 DEF CtxInv, PendingNew, AtWork
    <3> QED
      BY <1>5, <1>6, <3>1
  <2> QED
    BY <1>1, <2>1, <2>2 DEF CtxInv, PendingNew
<1>9. CallsDiffer'
  BY <1>1, <1>2, <1>3 DEF CtxInv, CallsDiffer
<1>10. OneByOne'
  <2>1. \A v : AtWorkFor(v)' = AtWorkFor(v)
    BY <1>1, <1>2, <1>3 DEF AtWorkFor
  <2> SUFFICES ASSUME NEW v \in Users \ mixed, NEW g \in AtWorkFor(v)
               PROVE  IF pc'[g] = "lines" THEN job'[g].uctx = stored[v]
                      ELSE job'[g].newUctx \in {<<>>, Append(stored[v], job'[g].call)}
    BY <1>1, <2>1 DEF CtxInv, OneByOne
  <2>2. CASE g = h
    <3>1. v = u /\ old = stored[v]
      BY <1>1, <1>2, <2>2 DEF CtxInv, OneByOne, AtWorkFor
    <3> QED
      BY <1>2, <1>3, <2>2, <3>1
  <2>3. CASE g # h
    <3>1. pc'[g] = pc[g] /\ job'[g] = job[g]
      BY <1>3, <2>3 DEF AtWorkFor
    <3> QED
      BY <3>1 DEF CtxInv, OneByOne
  <2> QED
    BY <2>2, <2>3
<1> QED
  BY <1>7, <1>8, <1>9, <1>10 DEF CtxInv

\* The context is stored, or is not.
LEMMA WriteContext ==
  ASSUME TypeInv, CtxInv, NEW h \in Handlers, SetUserContext(h)
  PROVE  CtxInv'
<1>1. PICK u, c, new : u = job[h].uuid /\ c = job[h].call /\ new = job[h].newUctx
  OBVIOUS
<1>2. /\ pc[h] = "write" /\ UNCHANGED <<owner, mixed, erased>>
      /\ \/ /\ stored' = [stored EXCEPT ![u] = new]
            /\ since' = [since EXCEPT ![u] = IF new = <<>> THEN <<>> ELSE Append(@, c)]
         \/ UNCHANGED <<stored, since>>
      /\ Works(h, "done", [job[h] EXCEPT !.uctx = <<>>, !.newUctx = <<>>])
  BY <1>1 DEF SetUserContext
<1>3. /\ pc'[h] = "done" /\ job'[h].call = c
      /\ \A g \in Handlers \ {h} : pc'[g] = pc[g] /\ job'[g] = job[g]
  <2> DEFINE j == [job[h] EXCEPT !.uctx = <<>>, !.newUctx = <<>>]
  <2>1. j.call = c
    BY <1>1 DEF TypeInv, HandlerType, Jobs
  <2> HIDE DEF j
  <2>2. Works(h, "done", j)
    BY <1>2 DEF j
  <2> QED
    BY <2>1, <2>2, WorksFields
<1>4. /\ u \in Users /\ Held(h) = new /\ pc[h] \in AtWork /\ pc'[h] \notin AtWork
      /\ stored \in [Users -> Turns] /\ since \in [Users -> Turns]
      /\ \A g \in Handlers \ {h} : Held(g)' = Held(g)
  BY <1>1, <1>2, <1>3 DEF TypeInv, HandlerType, ContextType, Held, AtWork
<1>5. \A v \in Users : stored'[v] # stored[v] => v = u /\ stored'[v] = new
  BY <1>2, <1>4
<1>6. ContextsOwn'
  <2>1. Own(new, u)
    BY <1>1, <1>4 DEF CtxInv, ContextsOwn
  <2>2. \A v \in Users : Own(stored'[v], v)
    BY <1>5, <2>1 DEF CtxInv, ContextsOwn
  <2>3. \A g \in Handlers : pc'[g] \in AtWork => Own(Held(g)', job'[g].uuid)
    BY <1>3, <1>4 DEF CtxInv, ContextsOwn
  <2> QED
    BY <1>2, <2>2, <2>3 DEF CtxInv, ContextsOwn, Own
<1>7. PendingNew'
  <2>1. \A g \in Handlers : pc'[g] \in {"text", "lines"} =>
          /\ pc[g] = pc'[g] /\ job'[g] = job[g] /\ job[g].call \notin TurnsOf(new)
    BY <1>3, <1>4 DEF CtxInv, PendingNew
  <2> QED
    BY <1>2, <1>3, <1>4, <1>5, <2>1 DEF CtxInv, PendingNew
<1>8. CallsDiffer'
  BY <1>1, <1>2, <1>3 DEF CtxInv, CallsDiffer
<1>9. OneByOne'
  <2> SUFFICES ASSUME NEW v \in Users \ mixed
               PROVE  /\ stored'[v] = since'[v]
                      /\ \A f, g \in AtWorkFor(v)' : f = g
                      /\ \A g \in AtWorkFor(v)' :
                           IF pc'[g] = "lines" THEN job'[g].uctx = stored'[v]
                           ELSE job'[g].newUctx \in {<<>>, Append(stored'[v], job'[g].call)}
    BY <1>2 DEF OneByOne
  <2>1. AtWorkFor(v)' \subseteq AtWorkFor(v) \ {h} /\ AtWorkFor(v) \subseteq Handlers
    BY <1>3, <1>4 DEF AtWorkFor, AtWork
  <2>2. CASE v # u
    <3>1. stored'[v] = stored[v] /\ since'[v] = since[v]
      BY <1>2, <1>4, <2>2
    <3> QED
      BY <1>3, <2>1, <3>1 DEF CtxInv, OneByOne
  <2>3. CASE v = u
    <3>1. h \in AtWorkFor(u)
      BY <1>1, <1>2 DEF AtWorkFor
    <3>2. AtWorkFor(v)' = {}
      BY <2>1, <2>3, <3>1 DEF CtxInv, OneByOne
    <3>3. stored[u] = since[u] /\ new \in {<<>>, Append(stored[u], c)}
      BY <1>1, <1>2, <2>3, <3>1 DEF CtxInv, OneByOne
    <3>4. stored'[u] = since'[u]
      BY <1>2, <1>4, <3>3
    <3> QED
      BY <2>3, <3>2, <3>4
  <2> QED
    BY <2>2, <2>3
<1> QED
  BY <1>6, <1>7, <1>8, <1>9 DEF CtxInv

\* A context is emptied; what nobody has in hand is gone for good.
LEMMA ForgetContext == ASSUME TypeInv, CtxInv, NEW u \in Users, Forget(u) PROVE CtxInv'
<1>1. /\ stored' = [stored EXCEPT ![u] = <<>>] /\ since' = [since EXCEPT ![u] = <<>>]
      /\ UNCHANGED <<owner, pc, job>>
      /\ \/ /\ AtWorkFor(u) = {} /\ mixed' = mixed \ {u}
            /\ erased' = erased \cup TurnsOf(stored[u])
         \/ mixed' = mixed \cup {u} /\ erased' = erased
  BY DEF Forget
<1>2. /\ stored \in [Users -> Turns] /\ since \in [Users -> Turns]
      /\ \A v \in Users : stored'[v] = IF v = u THEN <<>> ELSE stored[v]
      /\ \A v \in Users : since'[v] = IF v = u THEN <<>> ELSE since[v]
  BY <1>1 DEF TypeInv, ContextType
<1>3. \A g : Held(g)' = Held(g)
  BY <1>1 DEF Held
<1>4. \A v : AtWorkFor(v)' = AtWorkFor(v)
  BY <1>1 DEF AtWorkFor
<1>5. \A s, v : Own(s, v) /\ (v # u \/ erased' = erased) => Own(s, v)'
  <2>1. \A t \in TurnsOf(stored[u]) : owner[t] = u
    BY DEF CtxInv, ContextsOwn, Own
  <2> QED
    BY <1>1, <2>1 DEF Own
<1>6. ContextsOwn'
  <2>1. ASSUME NEW v \in Users PROVE Own(stored[v], v)'
    <3>1. PICK s : s = stored'[v]
      OBVIOUS
    <3>2. CASE v = u
      BY <1>2, <3>1, <3>2, EmptyTurns DEF Own
    <3>3. CASE v # u
      <4>1. Own(s, v)'
        BY <1>2, <1>5, <3>1, <3>3 DEF CtxInv, ContextsOwn
      <4> QED
        BY <3>1, <4>1 DEF Own
    <3> QED
      BY <3>2, <3>3
  <2>2. ASSUME NEW g \in Handlers, pc[g] \in AtWork PROVE Own(Held(g), job[g].uuid)'
    <3>1. job[g].uuid = u => g \in AtWorkFor(u)
      BY <2>2 DEF AtWorkFor, AtWork
    <3>2. PICK s, v : s = Held(g) /\ v = job[g].uuid
      OBVIOUS
    <3>3. Own(s, v) /\ (v # u \/ erased' = erased)
      BY <1>1, <2>2, <3>1, <3>2 DEF CtxInv, ContextsOwn
    <3>4. Own(s, v)'
      BY <1>5, <3>3
    <3> QED
      BY <1>1, <1>3, <3>2, <3>4
  <2>3. erased' \subseteq 1 .. Len(owner')
    BY <1>1 DEF CtxInv, ContextsOwn, Own
  <2> QED
    BY <1>1, <2>1, <2>2, <2>3 DEF ContextsOwn
<1>7. PendingNew'
  <2>1. \A h \in Handlers : pc[h] \in {"text", "lines"} => job[h].call \notin TurnsOf(stored[u])
    BY DEF CtxInv, PendingNew
  <2> QED
    BY <1>1, <1>2, <1>3, <2>1, EmptyTurns DEF CtxInv, PendingNew
<1>8. CallsDiffer'
  BY <1>1 DEF CtxInv, CallsDiffer
<1>9. OneByOne'
  <2> SUFFICES ASSUME NEW v \in Users \ mixed'
               PROVE  /\ stored'[v] = since'[v]
                      /\ \A f, g \in AtWorkFor(v) : f = g
                      /\ \A g \in AtWorkFor(v) :
                           IF pc[g] = "lines" THEN job[g].uctx = stored'[v]
                           ELSE job[g].newUctx \in {<<>>, Append(stored'[v], job[g].call)}
    BY <1>1, <1>4 DEF OneByOne
  <2>1. CASE v = u
    BY <1>1, <1>2, <2>1
  <2>2. CASE v # u
    BY <1>1, <1>2, <2>2 DEF CtxInv, OneByOne
  <2> QED
    BY <2>1, <2>2
<1> QED
  BY <1>6, <1>7, <1>8, <1>9 DEF CtxInv

LEMMA ContextStep == ASSUME TypeInv, CtxInv, [Next]_vars PROVE CtxInv'
<1>1. ASSUME NEW h \in Handlers,
             \/ Refuse(h) \/ Deliver(h) \/ FailContext(h) \/ SayLine(h) \/ FailAnswer(h)
             \/ TakeSlice(h) \/ Synthesize(h) \/ FailSynthesis(h)
             \/ Decode(h) \/ AcceptWaveform(h) \/ Result(h) \/ FinalResult(h)
      PROVE  CtxInv'
  BY <1>1, QuietSteps, KeepsWhole
<1>2. ASSUME Restart PROVE CtxInv'
  <2>1. UNCHANGED <<owner, conversation>> /\ \A g \in Handlers : Keeps(g)
    BY <1>2 DEF Restart, Keeps
  <2> QED
    BY <2>1, KeepsWhole
<1>3. CASE UNCHANGED vars
  <2>1. UNCHANGED <<owner, conversation>> /\ \A g \in Handlers : Keeps(g)
    BY <1>3 DEF vars, Keeps
  <2> QED
    BY <2>1, KeepsWhole
<1>4. ASSUME NEW u \in Users, ClearAIContext(u) \/ ExpireContext(u) PROVE CtxInv'
  BY <1>4, ForgetContext DEF ClearAIContext, ExpireContext
<1> QED
  BY <1>1, <1>2, <1>3, <1>4, EnterContext, ReadContext, AnswerContext, WriteContext DEF Next

LEMMA ContextInvariant == Spec => [](TypeInv /\ CtxInv)
<1>1. Init => CtxInv
  BY EmptyTurns DEF Init, CtxInv, ContextsOwn, PendingNew, CallsDiffer, OneByOne, AtWork,
     AtWorkFor
<1>2. Init => TypeInv
  BY InitialType
<1>3. TypeInv /\ [Next]_vars => TypeInv'
  BY NextType DEF vars, conversation, TypeInv, OwnerType, HandlerType, ContextType, BufferType
<1>4. TypeInv /\ CtxInv /\ [Next]_vars => CtxInv'
  BY ContextStep
<1> QED
  BY <1>1, <1>2, <1>3, <1>4, PTL DEF Spec

\* Whoever chats, clears, waits and fails at the same time: a user's context is made of
\* his turns, each once; it is the conversation as long as his calls do not overlap; and
\* what was emptied in peace stays away.
THEOREM ContextAlwaysOwn == Spec => []ContextIsOwn
<1>1. CtxInv => ContextIsOwn
  BY DEF CtxInv, ContextsOwn, OneByOne, Own, TurnsOf, ContextIsOwn
<1> QED
  BY <1>1, ContextInvariant, PTL

-------------------------------------------------------------------------------
(* Replies.                                                                  *)

\* What a handler has in hand at a step of its own.
Local(p, j) ==
  /\ p \in {"text", "lines", "write"} => j.kind = "text"
  /\ p \in {"audio", "synthesis"} => j.kind = "audio"
  /\ p \in {"speech", "chunk", "result"} => j.kind = "speech"
  /\ p \in {"text", "speech"} => j.pieces = 0 /\ j.sent = <<>>
  /\ p = "lines" => j.sent \o j.resBuf = Whole(j)
  /\ p = "write" \/ (p = "done" /\ j.kind = "text") => j.sent = Whole(j)
  /\ p = "done" /\ j.kind = "speech" /\ j.alone => j.sent = Whole(j)
  /\ p = "done" /\ j.kind = "audio" => j.audioBuf = j.call

\* The array behind a reply still has its audio; a voice that is alone with the
\* recognizer has all of its parts there or in its reply; nobody leaves anything there.
ReplyInv ==
  /\ \A h \in Handlers : Local(pc[h], job[h])
  /\ \A h \in Handlers :
       pc[h] = "done" /\ job[h].kind = "audio" => array[job[h].call] = job[h].call
  /\ \A h \in Recognizing :
       job[h].alone => Recognizing = {h} /\ job[h].sent \o rec = Whole(job[h])
  /\ Recognizing = {} => rec = <<>>

LEMMA WholeEmpty == ASSUME NEW j, j.pieces = 0 PROVE Whole(j) = <<>>
<1>1. 1 .. 0 = {}
  OBVIOUS
<1>2. Whole(j) = [i \in {} |-> <<j.call, i>>]
  BY <1>1 DEF Whole
<1> QED
  BY <1>2

\* The next part joins those before it.
LEMMA WholeNext ==
  ASSUME NEW j \in Jobs, NEW k \in Jobs, j.call \in 1 .. MaxCalls, j.pieces < Pieces,
         k.call = j.call, k.pieces = j.pieces + 1, NEW s \in Parts, NEW t \in Parts,
         s \o t = Whole(j)
  PROVE  s \o Append(t, <<j.call, j.pieces + 1>>) = Whole(k)
<1> DEFINE S == (1 .. MaxCalls) \X (1 .. Pieces)
<1>0. PICK x : x = <<j.call, j.pieces + 1>>
  OBVIOUS
<1>1. j.pieces \in Nat /\ j.pieces + 1 \in 1 .. Pieces /\ x \in S
  BY <1>0 DEF Jobs
<1>2. s \in Seq(S) /\ t \in Seq(S)
  BY DEF Parts
<1> HIDE DEF S
<1>3. Append(t, x) = t \o <<x>> /\ <<x>> \in Seq(S)
  BY <1>1, <1>2, AppendIsConcat
<1>4. s \o Append(t, x) = (s \o t) \o <<x>>
  <2>1. PICK y : y = <<x>>
    OBVIOUS
  <2>2. (s \o t) \o y = s \o (t \o y)
    BY <1>2, <1>3, <2>1, ConcatAssociative
  <2> QED
    BY <1>3, <2>1, <2>2
<1>5. s \o t \in Seq(S)
  BY <1>2, ConcatProperties
<1>6. Append(s \o t, x) = (s \o t) \o <<x>>
  BY <1>1, <1>5, AppendIsConcat
<1>7. /\ DOMAIN Whole(j) = 1 .. j.pieces /\ \A i \in 1 .. j.pieces : Whole(j)[i] = <<j.call, i>>
      /\ DOMAIN Whole(k) = 1 .. j.pieces + 1
      /\ \A i \in 1 .. j.pieces + 1 : Whole(k)[i] = <<j.call, i>>
  BY DEF Whole
<1>8. Whole(j) \in Seq(S) /\ Len(Whole(j)) = j.pieces
  BY <1>1, <1>5, <1>7, LenProperties
<1>9. Whole(k) \in Seq(S) /\ Len(Whole(k)) = j.pieces + 1
  <2>1. \A i \in 1 .. j.pieces + 1 : <<j.call, i>> \in S
    <3>1. \A i \in 1 .. j.pieces + 1 : i \in 1 .. Pieces
      BY <1>1, NumbersAssumption
    <3> QED
      BY <3>1 DEF S
  <2>2. Whole(k) \in [1 .. j.pieces + 1 -> S]
    BY <2>1 DEF Whole
  <2> QED
    BY <1>1, <2>2
<1>10. /\ Append(Whole(j), x) \in Seq(S) /\ Len(Append(Whole(j), x)) = j.pieces + 1
       /\ \A i \in 1 .. j.pieces + 1 : Append(Whole(j), x)[i] = Whole(k)[i]
  <2>1. /\ Append(Whole(j), x) \in Seq(S) /\ Len(Append(Whole(j), x)) = Len(Whole(j)) + 1
        /\ \A i \in 1 .. Len(Whole(j)) : Append(Whole(j), x)[i] = Whole(j)[i]
        /\ Append(Whole(j), x)[Len(Whole(j)) + 1] = x
    BY <1>1, <1>8, AppendProperties
  <2>2. \A i \in 1 .. j.pieces + 1 : i \in 1 .. j.pieces \/ i = j.pieces + 1
    BY <1>1
  <2> QED
    BY <1>0, <1>7, <1>8, <2>1, <2>2
<1>11. Append(Whole(j), x) = Whole(k)
  BY <1>9, <1>10, SeqEqual
<1> QED
  BY <1>0, <1>4, <1>6, <1>11

\* A handler moves without the recognizer or an array of audio.
LEMMA MoveReplies ==
  ASSUME TypeInv, ReplyInv, NEW h \in Handlers, NEW to, NEW j, Works(h, to, j), Local(to, j),
         pc[h] \notin {"chunk", "result"}, to \notin {"chunk", "result"},
         to = "done" => j.kind # "audio", UNCHANGED <<array, rec>>
  PROVE  ReplyInv'
<1>1. /\ pc'[h] = to /\ job'[h] = j
      /\ \A g \in Handlers \ {h} : pc'[g] = pc[g] /\ job'[g] = job[g]
  BY WorksFields
<1>2. Recognizing' = Recognizing /\ h \notin Recognizing /\ Recognizing \subseteq Handlers
  BY <1>1 DEF Recognizing
<1>3. \A g \in Handlers : Local(pc'[g], job'[g])
  BY <1>1 DEF ReplyInv
<1>4. \A g \in Handlers :
        pc'[g] = "done" /\ job'[g].kind = "audio" => array[job'[g].call] = job'[g].call
  BY <1>1 DEF ReplyInv
<1>5. \A g \in Recognizing :
        job'[g].alone => Recognizing = {g} /\ job'[g].sent \o rec = Whole(job'[g])
  BY <1>1, <1>2 DEF ReplyInv
<1> QED
  BY <1>2, <1>3, <1>4, <1>5 DEF ReplyInv

LEMMA LocalIdle == Local("idle", NoJob)
BY DEF Local

LEMMA LeavingReplies ==
  ASSUME TypeInv, ReplyInv, NEW h \in Handlers,
         \/ Refuse(h) \/ Deliver(h) \/ FailContext(h) \/ FailAnswer(h) \/ FailSynthesis(h)
  PROVE  ReplyInv'
<1>1. /\ Works(h, "idle", NoJob) /\ pc[h] \notin {"chunk", "result"}
      /\ UNCHANGED <<array, rec>>
  BY DEF Refuse, Deliver, FailContext, FailAnswer, FailSynthesis
<1> QED
  BY <1>1, LocalIdle, MoveReplies

LEMMA EnterReplies ==
  ASSUME TypeInv, ReplyInv, NEW h \in Handlers, Enter(h)
  PROVE  ReplyInv'
<1>1. pc[h] = "idle" /\ UNCHANGED <<array, rec>>
  BY DEF Enter
<1>2. PICK kind \in Kinds : \E uuid \in Uuids(kind) :
        Works(h, IF workers'[kind] > Limit /\ uuid # adminUUID THEN "refused" ELSE kind,
              [NoJob EXCEPT !.kind = kind, !.uuid = uuid, !.call = Len(owner) + 1])
  BY DEF Enter
<1>3. PICK uuid \in Uuids(kind) :
        Works(h, IF workers'[kind] > Limit /\ uuid # adminUUID THEN "refused" ELSE kind,
              [NoJob EXCEPT !.kind = kind, !.uuid = uuid, !.call = Len(owner) + 1])
  BY <1>2
<1>4. PICK to, j : /\ to \in {kind, "refused"} /\ Works(h, to, j)
                   /\ j.kind = kind /\ j.pieces = 0 /\ j.sent = <<>>
  <2> DEFINE j == [NoJob EXCEPT !.kind = kind, !.uuid = uuid, !.call = Len(owner) + 1]
  <2>1. j.kind = kind /\ j.pieces = 0 /\ j.sent = <<>>
    BY DEF NoJob
  <2> HIDE DEF j
  <2>2. \/ Works(h, kind, j)
        \/ Works(h, "refused", j)
    BY <1>3 DEF j
  <2> QED
    BY <2>1, <2>2
<1>5. Local(to, j) /\ to \notin {"chunk", "result", "done"}
  BY <1>4 DEF Local, Kinds
<1> QED
  BY <1>1, <1>4, <1>5, MoveReplies

\* The lines of an answer go into the buffer or with it to the client.
LEMMA AnswerReplies ==
  ASSUME TypeInv, ReplyInv, NEW h \in Handlers,
         GetUserContext(h) \/ SayLine(h) \/ EndAnswer(h) \/ SetUserContext(h)
  PROVE  ReplyInv'
<1>0. job[h] \in Jobs /\ Local(pc[h], job[h]) /\ UNCHANGED <<array, rec>>
  BY DEF TypeInv, HandlerType, ReplyInv, GetUserContext, SayLine, EndAnswer, SetUserContext
<1>5. job[h].sent \in Parts /\ job[h].resBuf \in Parts
  BY <1>0 DEF Jobs
<1>1. CASE GetUserContext(h)
  <2>1. PICK x : Works(h, "lines", [job[h] EXCEPT !.uctx = stored[job[h].uuid], !.resBuf = <<>>,
                                                 !.newUctx = x])
    BY <1>1 DEF GetUserContext
  <2>2. pc[h] = "text"
    BY <1>1 DEF GetUserContext
  <2> DEFINE j == [job[h] EXCEPT !.uctx = stored[job[h].uuid], !.resBuf = <<>>, !.newUctx = x]
  <2>3. j.kind = "text" /\ j.pieces = 0 /\ j.sent = <<>> /\ j.resBuf = <<>>
    BY <1>0, <2>2 DEF Local, Jobs
  <2>4. Works(h, "lines", j)
    BY <2>1
  <2> HIDE DEF j
  <2>5. Local("lines", j)
    <3>1. <<>> \o <<>> = <<>>
      BY ConcatEmptySeq, EmptySeq
    <3> QED
      BY <2>3, <3>1, WholeEmpty DEF Local
  <2> QED
    BY <1>0, <2>2, <2>4, <2>5, MoveReplies
<1>2. CASE SayLine(h)
  <2> DEFINE text == Append(job[h].resBuf, <<job[h].call, job[h].pieces + 1>>)
             j1 == [job[h] EXCEPT !.pieces = @ + 1, !.resBuf = text]
             j2 == [job[h] EXCEPT !.pieces = @ + 1, !.resBuf = <<>>, !.sent = @ \o text]
  <2>1. /\ pc[h] = "lines" /\ job[h].pieces < Pieces
        /\ Works(h, "lines", j1) \/ Works(h, "lines", j2)
    BY <1>2 DEF SayLine
  <2>2. job[h].call \in 1 .. MaxCalls
    BY <2>1, BusyCall
  <2>3. text \in Parts /\ job[h].sent \o text \in Parts /\ <<>> \in Parts
    <3>1. text \in Parts
      BY <1>0, <1>5, <2>1, <2>2, PartType DEF Jobs
    <3> QED
      BY <1>5, <3>1, JoinType, EmptySeq DEF Parts
  <2>31. PICK t : t = text
    OBVIOUS
  <2>32. PICK n : n = job[h].pieces + 1
    OBVIOUS
  <2>33. PICK s : s = job[h].sent \o text
    OBVIOUS
  <2>34. n \in 0 .. Pieces
    BY <1>0, <2>1, <2>32, NumbersAssumption DEF Jobs
  <2> HIDE DEF text
  <2>4. /\ j1 \in Jobs /\ j2 \in Jobs /\ j1.kind = "text" /\ j2.kind = "text"
        /\ j1.call = job[h].call /\ j2.call = job[h].call
        /\ j1.pieces = job[h].pieces + 1 /\ j2.pieces = job[h].pieces + 1
        /\ j1.sent = job[h].sent /\ j1.resBuf = text
        /\ j2.sent = job[h].sent \o text /\ j2.resBuf = <<>>
    <3>1. job[h].kind = "text"
      BY <1>0, <2>1 DEF Local
    <3>2. /\ j1 = [job[h] EXCEPT !.pieces = n, !.resBuf = t]
          /\ j2 = [job[h] EXCEPT !.pieces = n, !.resBuf = <<>>, !.sent = s]
      BY <1>0, <2>31, <2>32, <2>33 DEF Jobs
    <3>3. t \in Parts /\ s \in Parts /\ <<>> \in Parts
      BY <2>3, <2>31, <2>33
    <3> HIDE DEF j1, j2
    <3>4. j1 \in Jobs /\ j2 \in Jobs
      BY <1>0, <2>34, <3>2, <3>3 DEF Jobs
    <3>5. /\ j1.kind = "text" /\ j2.kind = "text"
          /\ j1.call = job[h].call /\ j2.call = job[h].call
      BY <1>0, <3>1, <3>2 DEF Jobs
    <3>6. /\ j1.pieces = n /\ j2.pieces = n
          /\ j1.sent = job[h].sent /\ j1.resBuf = t /\ j2.sent = s /\ j2.resBuf = <<>>
      BY <1>0, <3>2 DEF Jobs
    <3> QED
      BY <2>31, <2>32, <2>33, <3>4, <3>5, <3>6
  <2> HIDE DEF j1, j2
  <2>5. job[h].sent \o text = Whole(j1) /\ job[h].sent \o text = Whole(j2)
    BY <1>0, <1>5, <2>1, <2>2, <2>4, WholeNext DEF Local, text
  <2>6. Local("lines", j1)
    BY <2>4, <2>5 DEF Local
  <2>7. Local("lines", j2)
    <3>1. (job[h].sent \o text) \o <<>> = job[h].sent \o text
      BY <2>3, ConcatEmptySeq DEF Parts
    <3> QED
      BY <2>4, <2>5, <3>1 DEF Local
  <2>8. CASE Works(h, "lines", j1)
    BY <1>0, <2>1, <2>6, <2>8, MoveReplies
  <2>9. CASE Works(h, "lines", j2)
    BY <1>0, <2>1, <2>7, <2>9, MoveReplies
  <2> QED
    BY <2>1, <2>8, <2>9
<1>3. CASE EndAnswer(h)
  <2>1. PICK new : pc[h] = "lines" /\ Works(h, "write", [SendRest(job[h]) EXCEPT !.newUctx = new])
    BY <1>3 DEF EndAnswer
  <2> DEFINE j == [SendRest(job[h]) EXCEPT !.newUctx = new]
  <2>2. /\ j.kind = "text" /\ j.sent = job[h].sent \o job[h].resBuf
        /\ j.call = job[h].call /\ j.pieces = job[h].pieces
    BY <1>0, <2>1 DEF SendRest, Jobs, Local
  <2>3. Works(h, "write", j)
    BY <2>1
  <2> HIDE DEF j
  <2>4. Local("write", j)
    BY <1>0, <2>1, <2>2 DEF Local, Whole
  <2> QED
    BY <1>0, <2>1, <2>3, <2>4, MoveReplies
<1>4. CASE SetUserContext(h)
  <2> DEFINE j == [job[h] EXCEPT !.uctx = <<>>, !.newUctx = <<>>]
  <2>1. pc[h] = "write" /\ Works(h, "done", j)
    BY <1>4 DEF SetUserContext
  <2>2. /\ j.kind = "text" /\ j.sent = job[h].sent
        /\ j.call = job[h].call /\ j.pieces = job[h].pieces
    BY <1>0, <2>1 DEF Jobs, Local
  <2> HIDE DEF j
  <2>3. Local("done", j)
    BY <1>0, <2>1, <2>2 DEF Local, Whole
  <2> QED
    BY <1>0, <2>1, <2>2, <2>3, MoveReplies
<1> QED
  BY <1>1, <1>2, <1>3, <1>4

\* Only the handler of a call writes to the array named after it.
LEMMA AudioReplies ==
  ASSUME TypeInv, CallsDiffer, ReplyInv, NEW h \in Handlers, TakeSlice(h) \/ Synthesize(h)
  PROVE  ReplyInv'
<1>0. job[h] \in Jobs /\ Local(pc[h], job[h])
  BY DEF TypeInv, HandlerType, ReplyInv
<1>1. CASE TakeSlice(h)
  <2>1. PICK a : Works(h, "synthesis", [job[h] EXCEPT !.audioBuf = a])
    BY <1>1 DEF TakeSlice
  <2>2. pc[h] = "audio" /\ UNCHANGED <<array, rec>>
    BY <1>1 DEF TakeSlice
  <2> DEFINE j == [job[h] EXCEPT !.audioBuf = a]
  <2>3. j.kind = "audio"
    BY <1>0, <2>2 DEF Jobs, Local
  <2>4. Works(h, "synthesis", j)
    BY <2>1
  <2> HIDE DEF j
  <2>5. Local("synthesis", j)
    BY <2>3 DEF Local
  <2> QED
    BY <2>2, <2>4, <2>5, MoveReplies
<1>2. CASE Synthesize(h)
  <2> DEFINE j == [job[h] EXCEPT !.audioBuf = job[h].call]
  <2>1. /\ pc[h] = "synthesis" /\ Works(h, "done", j) /\ UNCHANGED rec
        /\ array' = [array EXCEPT ![job[h].call] = job[h].call]
    BY <1>2 DEF Synthesize, Output
  <2>2. j.kind = "audio" /\ j.audioBuf = job[h].call /\ j.call = job[h].call
    BY <1>0, <2>1 DEF Jobs, Local
  <2> HIDE DEF j
  <2>3. /\ pc'[h] = "done" /\ job'[h] = j
        /\ \A g \in Handlers \ {h} : pc'[g] = pc[g] /\ job'[g] = job[g]
    BY <2>1, WorksFields
  <2>4. \A g \in Handlers : Local(pc'[g], job'[g])
    <3>1. Local("done", j)
      BY <2>2 DEF Local
    <3>2. \A g \in Handlers \ {h} : Local(pc[g], job[g])
      BY DEF ReplyInv
    <3> HIDE DEF Local
    <3> QED
      BY <2>3, <3>1, <3>2
  <2>5. /\ array \in [1 .. MaxCalls -> 0 .. MaxCalls] /\ job[h].call \in 1 .. MaxCalls
        /\ \A g \in Handlers \ {h} : pc[g] = "done" => job[g].call # job[h].call
    BY <2>1, BusyCall DEF TypeInv, BufferType, CallsDiffer
  <2>6. \A g \in Handlers :
          pc'[g] = "done" /\ job'[g].kind = "audio" => array'[job'[g].call] = job'[g].call
    BY <2>1, <2>2, <2>3, <2>5 DEF ReplyInv
  <2>7. Recognizing' = Recognizing /\ \A g \in Recognizing : job'[g] = job[g]
    BY <2>1, <2>3 DEF Recognizing
  <2> QED
    BY <2>1, <2>4, <2>6, <2>7 DEF ReplyInv
<1> QED
  BY <1>1, <1>2

\* Once two voices are recognized at a time, none of them counts as alone.
LEMMA DecodeReplies ==
  ASSUME TypeInv, ReplyInv, NEW h \in Handlers, Decode(h)
  PROVE  ReplyInv'
<1>1. pc[h] = "speech" /\ UNCHANGED <<array, rec>>
  BY DEF Decode
<1>2. CASE Works(h, "idle", NoJob)
  BY <1>1, <1>2, LocalIdle, MoveReplies
<1>3. CASE /\ pc' = [pc EXCEPT ![h] = "chunk"]
           /\ job' = [g \in Handlers |->
                IF g = h \/ g \in Recognizing
                THEN [job[g] EXCEPT !.alone = @ /\ Recognizing = {}] ELSE job[g]]
  <2>1. /\ pc'[h] = "chunk" /\ \A g \in Handlers \ {h} : pc'[g] = pc[g]
        /\ job \in [Handlers -> Jobs]
    BY <1>3 DEF TypeInv, HandlerType
  <2>2. Recognizing' = Recognizing \cup {h} /\ h \notin Recognizing
    BY <1>1, <2>1 DEF Recognizing
  <2>3. \A g \in Handlers : g # h /\ g \notin Recognizing => job'[g] = job[g]
    BY <1>3
  <2>4. \A g \in Handlers :
          /\ job'[g].kind = job[g].kind /\ job'[g].call = job[g].call
          /\ job'[g].pieces = job[g].pieces /\ job'[g].sent = job[g].sent
    BY <1>3, <2>1 DEF Jobs
  <2>5. Recognizing # {} => \A g \in Recognizing' : ~job'[g].alone
    BY <1>3, <2>1, <2>2 DEF Jobs, Recognizing
  <2>6. ASSUME NEW g \in Handlers PROVE Local(pc'[g], job'[g])
    <3>1. Local(pc[g], job[g])
      BY DEF ReplyInv
    <3>2. CASE g # h /\ g \notin Recognizing
      BY <2>1, <2>3, <3>1, <3>2
    <3>3. CASE g = h \/ g \in Recognizing
      <4>1. pc'[g] \in {"chunk", "result"} /\ pc[g] \in {"speech", "chunk", "result"}
        BY <1>1, <2>1, <3>3 DEF Recognizing
      <4>2. job'[g].kind = "speech"
        BY <2>4, <3>1, <4>1 DEF Local
      <4> QED
        BY <4>1, <4>2 DEF Local
    <3> QED
      BY <3>2, <3>3
  <2>7. \A g \in Handlers :
          pc'[g] = "done" /\ job'[g].kind = "audio" => array'[job'[g].call] = job'[g].call
    BY <1>1, <2>1, <2>4 DEF ReplyInv
  <2>8. ASSUME NEW g \in Recognizing', job'[g].alone
        PROVE  Recognizing' = {g} /\ job'[g].sent \o rec' = Whole(job'[g])
    <3>1. Recognizing = {} /\ g = h
      BY <2>2, <2>5, <2>8
    <3>2. rec' = <<>> /\ job[h].pieces = 0 /\ job[h].sent = <<>>
      BY <1>1, <3>1 DEF ReplyInv, Local
    <3>3. job'[h].pieces = 0 /\ job'[h].sent = <<>>
      BY <2>4, <3>2
    <3>4. PICK j : j = job'[h]
      OBVIOUS
    <3>5. Whole(j) = <<>>
      BY <3>3, <3>4, WholeEmpty
    <3>6. <<>> \o <<>> = <<>>
      BY ConcatEmptySeq, EmptySeq
    <3> QED
      BY <2>2, <3>1, <3>2, <3>3, <3>4, <3>5, <3>6
  <2> QED
    BY <2>2, <2>6, <2>7, <2>8 DEF ReplyInv
<1> QED
  BY <1>2, <1>3 DEF Decode

\* A chunk or a result of the recognizer.  Whoever is alone with it has all it took in.
LEMMA RecognizeReplies ==
  ASSUME TypeInv, ReplyInv, NEW h \in Handlers,
         AcceptWaveform(h) \/ Result(h) \/ FinalResult(h)
  PROVE  ReplyInv'
<1>0. job[h] \in Jobs /\ Local(pc[h], job[h]) /\ rec \in Parts /\ job[h].sent \in Parts
  <2>1. job[h] \in Jobs /\ Local(pc[h], job[h]) /\ rec \in Parts
    BY DEF TypeInv, HandlerType, BufferType, ReplyInv
  <2> QED
    BY <2>1 DEF Jobs
<1>1. h \in Recognizing /\ job[h].kind = "speech" /\ UNCHANGED array
  BY <1>0 DEF AcceptWaveform, Result, FinalResult, Recognizing, Local
<1>2. PICK to, j :
        /\ Works(h, to, j) /\ to \in {"chunk", "result", "done"}
        /\ j.kind = "speech" /\ j.alone = job[h].alone
        /\ job[h].alone => j.sent \o rec' = Whole(j)
        /\ to = "done" => rec' = <<>>
        /\ to = "done" /\ j.alone => j.sent = Whole(j)
  <2>1. CASE AcceptWaveform(h)
    <3>1. PICK to \in {"result", "chunk"} : Works(h, to, [job[h] EXCEPT !.pieces = @ + 1])
      BY <2>1 DEF AcceptWaveform
    <3>0. PICK n : n = job[h].pieces + 1
      OBVIOUS
    <3>9. job[h].pieces \in 0 .. Pieces /\ job[h].pieces < Pieces
      BY <1>0, <2>1 DEF AcceptWaveform, Jobs
    <3>2. n = job[h].pieces + 1 /\ n \in 0 .. Pieces /\ job[h].pieces < Pieces
      BY <3>0, <3>9, NumbersAssumption
    <3> DEFINE j == [job[h] EXCEPT !.pieces = n]
    <3>3. Works(h, to, j)
      BY <1>0, <3>1, <3>2 DEF Jobs
    <3>4. j \in Jobs /\ j.kind = "speech"
      BY <1>0, <1>1, <3>2 DEF Jobs
    <3>5. /\ j.alone = job[h].alone /\ j.sent = job[h].sent
          /\ j.call = job[h].call /\ j.pieces = job[h].pieces + 1
      BY <1>0, <3>2 DEF Jobs
    <3> HIDE DEF j
    <3>6. ASSUME job[h].alone PROVE j.sent \o rec' = Whole(j)
      <4>1. Recognizing = {h} /\ job[h].sent \o rec = Whole(job[h])
        BY <1>1, <3>6 DEF ReplyInv
      <4>2. rec' = Append(rec, <<job[h].call, job[h].pieces + 1>>)
        BY <2>1, <4>1 DEF AcceptWaveform
      <4>3. job[h].call \in 1 .. MaxCalls
        <5>1. pc[h] # "idle"
          BY <2>1 DEF AcceptWaveform
        <5> QED
          BY <5>1, BusyCall
      <4> QED
        <5>1. PICK k : k = job[h] /\ k \in Jobs
          BY <1>0
        <5>2. k.sent \o Append(rec, <<k.call, k.pieces + 1>>) = Whole(j)
          BY <1>0, <3>2, <3>4, <3>5, <4>1, <4>3, <5>1, WholeNext
        <5> QED
          BY <3>5, <4>2, <5>1, <5>2
    <3> QED
      BY <3>3, <3>4, <3>5, <3>6
  <2>2. CASE Result(h) \/ FinalResult(h)
    <3>1. PICK to : /\ to \in {"chunk", "done"} /\ rec' = <<>>
                    /\ Works(h, to, [job[h] EXCEPT !.sent = @ \o rec])
      BY <2>2 DEF Result, FinalResult
    <3>2. PICK s : s = job[h].sent \o rec
      OBVIOUS
    <3>3. s \in Parts
      BY <1>0, <3>2, JoinType
    <3> DEFINE j == [job[h] EXCEPT !.sent = s]
    <3>4. Works(h, to, j)
      BY <1>0, <3>1, <3>2 DEF Jobs
    <3>5. /\ j.kind = "speech" /\ j.alone = job[h].alone /\ j.sent = s
          /\ j.call = job[h].call /\ j.pieces = job[h].pieces
      BY <1>0, <1>1 DEF Jobs
    <3> HIDE DEF j
    <3>6. job[h].alone => j.sent = Whole(j)
      BY <1>1, <3>2, <3>5 DEF ReplyInv, Whole
    <3>7. j.sent \o <<>> = j.sent
      BY <3>3, <3>5, ConcatEmptySeq DEF Parts
    <3> QED
      BY <3>1, <3>4, <3>5, <3>6, <3>7
  <2> QED
    BY <2>1, <2>2
<1>3. /\ pc'[h] = to /\ job'[h] = j
      /\ \A g \in Handlers \ {h} : pc'[g] = pc[g] /\ job'[g] = job[g]
  BY <1>2, WorksFields
<1>4. Local(to, j)
  BY <1>2 DEF Local
<1>5. \A g \in Handlers : Local(pc'[g], job'[g])
  BY <1>3, <1>4 DEF ReplyInv
<1>6. \A g \in Handlers :
        pc'[g] = "done" /\ job'[g].kind = "audio" => array'[job'[g].call] = job'[g].call
  BY <1>1, <1>2, <1>3 DEF ReplyInv
<1>7. /\ Recognizing' = IF to = "done" THEN Recognizing \ {h} ELSE Recognizing
      /\ \A g \in Recognizing \ {h} : ~job[g].alone /\ job'[g] = job[g]
  <2>1. Recognizing' = IF to = "done" THEN Recognizing \ {h} ELSE Recognizing
    BY <1>1, <1>2, <1>3 DEF Recognizing
  <2>2. \A g \in Recognizing \ {h} : ~job[g].alone
    BY <1>1 DEF ReplyInv
  <2> QED
    BY <1>3, <2>1, <2>2 DEF Recognizing
<1>8. ASSUME NEW g \in Recognizing', job'[g].alone
      PROVE  Recognizing' = {g} /\ job'[g].sent \o rec' = Whole(job'[g])
  <2>1. g = h /\ to # "done" /\ j.alone
    BY <1>3, <1>7, <1>8
  <2>2. Recognizing = {h}
    BY <1>1, <1>2, <2>1 DEF ReplyInv
  <2> QED
    BY <1>2, <1>3, <1>7, <2>1, <2>2
<1>9. Recognizing' = {} => rec' = <<>>
  BY <1>1, <1>2, <1>7
<1> QED
  BY <1>5, <1>6, <1>8, <1>9 DEF ReplyInv

\* Where nobody is at work, nobody has anything.
LEMMA IdleReplies ==
  ASSUME \A h \in Handlers : pc[h] = "idle", rec = <<>>
  PROVE  ReplyInv
BY DEF ReplyInv, Local, Recognizing

LEMMA RepliesStep == ASSUME TypeInv, CtxInv, ReplyInv, [Next]_vars PROVE ReplyInv'
<1>1. ASSUME NEW h \in Handlers,
             \/ Enter(h) \/ Refuse(h) \/ Deliver(h)
             \/ GetUserContext(h) \/ FailContext(h) \/ SayLine(h) \/ EndAnswer(h)
             \/ FailAnswer(h) \/ SetUserContext(h)
             \/ TakeSlice(h) \/ Synthesize(h) \/ FailSynthesis(h)
             \/ Decode(h) \/ AcceptWaveform(h) \/ Result(h) \/ FinalResult(h)
      PROVE  ReplyInv'
  BY <1>1, EnterReplies, LeavingReplies, AnswerReplies, AudioReplies, DecodeReplies,
     RecognizeReplies DEF CtxInv
<1>2. ASSUME UNCHANGED <<pc, job, array, rec>> PROVE ReplyInv'
  BY <1>2 DEF ReplyInv, Recognizing
<1>3. ASSUME NEW u \in Users, ClearAIContext(u) \/ ExpireContext(u) PROVE ReplyInv'
  BY <1>2, <1>3 DEF ClearAIContext, ExpireContext, Forget
<1>4. ASSUME UNCHANGED vars PROVE ReplyInv'
  BY <1>2, <1>4 DEF vars
<1>5. ASSUME Restart PROVE ReplyInv'
  <2>1. (\A h \in Handlers : pc'[h] = "idle") /\ rec' = <<>>
    BY <1>5 DEF Restart
  <2> QED
    BY <2>1 DEF ReplyInv, Local, Recognizing
<1> QED
  BY <1>1, <1>3, <1>4, <1>5 DEF Next

\* However many calls share the buffers and the recognizer, and whatever fails or
\* restarts: a client is sent what was made of its own request, each part once and in
\* order; of a voice, if nobody else's was recognized meanwhile.
THEOREM RepliesAlwaysOwn == Spec => []RepliesAreOwn
<1>1. TypeInv /\ ReplyInv => RepliesAreOwn
  <2> SUFFICES ASSUME TypeInv, ReplyInv, NEW h \in Handlers
               PROVE
                 /\ pc[h] = "lines" => job[h].sent \o job[h].resBuf = Whole(job[h])
                 /\ pc[h] = "write" \/ (pc[h] = "done" /\ job[h].kind = "text") =>
                      job[h].sent = Whole(job[h])
                 /\ pc[h] = "done" /\ job[h].kind = "audio" =>
                      array[job[h].audioBuf] = job[h].call
                 /\ job[h].alone /\ pc[h] \in {"chunk", "result"} =>
                      job[h].sent \o rec = Whole(job[h])
                 /\ job[h].alone /\ pc[h] = "done" /\ job[h].kind = "speech" =>
                      job[h].sent = Whole(job[h])
    BY DEF RepliesAreOwn
  <2>1. Local(pc[h], job[h])
    BY DEF ReplyInv
  <2>2. pc[h] = "done" /\ job[h].kind = "audio" => array[job[h].audioBuf] = job[h].call
    BY <2>1 DEF ReplyInv, Local
  <2>3. job[h].alone /\ pc[h] \in {"chunk", "result"} => job[h].sent \o rec = Whole(job[h])
    BY DEF ReplyInv, Recognizing
  <2> QED
    BY <2>1, <2>2, <2>3 DEF Local
<1>2. Init => ReplyInv
  BY IdleReplies DEF Init
<1>3. TypeInv /\ CtxInv /\ ReplyInv /\ [Next]_vars => ReplyInv'
  BY RepliesStep
<1> QED
  BY <1>1, <1>2, <1>3, ContextInvariant, PTL DEF Spec
===============================================================================
