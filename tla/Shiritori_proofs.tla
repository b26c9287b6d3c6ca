--------------------------- MODULE Shiritori_proofs ---------------------------
(***************************************************************************)
(* What Shiritori guarantees for all letters, words, tables of words,        *)
(* numbers of handlers and bounds.                                           *)
(***************************************************************************)
EXTENDS Shiritori, FiniteSetTheorems, WellFoundedInduction, TLAPS

-------------------------------------------------------------------------------
(* The helpers of the game.                                                  *)

\* A set of naturals has a minimum: of the intervals that end in one of its elements,
\* one is the smallest.
LEMMA MinNat ==
  ASSUME NEW S \in SUBSET Nat, S # {}
  PROVE  Min(S) \in S /\ \A y \in S : Min(S) <= y
<1> DEFINE T == {0 .. x : x \in S}
<1>1. T \subseteq FiniteSubsetsOf(Nat) /\ T # {}
  <2>1. \A x \in S : 0 .. x \in SUBSET Nat /\ IsFiniteSet(0 .. x)
    BY FS_Interval
  <2> QED
    BY <2>1 DEF FiniteSubsetsOf
<1> HIDE DEF T
<1>2. PICK t \in T : \A u \in T : ~ (<<u, t>> \in StrictSubsetOrdering(Nat))
  BY <1>1, FS_StrictSubsetOrderingWellFounded, WFMin
<1>3. PICK x \in S : t = 0 .. x
  BY DEF T
<1>4. \A y \in S : x <= y
  <2> SUFFICES ASSUME NEW y \in S, y < x PROVE FALSE
    OBVIOUS
  <2>1. 0 .. y \in T
    BY DEF T
  <2>2. 0 .. y \subseteq 0 .. x /\ 0 .. y # 0 .. x /\ 0 .. x \subseteq Nat
    <3>1. x \in 0 .. x /\ x \notin 0 .. y
      OBVIOUS
    <3> QED
      BY <3>1
  <2> QED
    BY <1>2, <1>3, <2>1, <2>2 DEF StrictSubsetOrdering
<1> QED
  BY <1>4 DEF Min

\* So has a set of positions of a sequence a maximum.
LEMMA MaxPosition ==
  ASSUME NEW n \in Nat, NEW S \in SUBSET (1 .. n), S # {}
  PROVE  Max(S) \in S
<1> DEFINE T == {n - i : i \in S}
<1>1. T \in SUBSET Nat /\ T # {}
  <2>1. \A i \in S : n - i \in Nat
    OBVIOUS
  <2> QED
    BY <2>1
<1>2. PICK t \in T : \A y \in T : t <= y
  BY <1>1, MinNat
<1>3. PICK x \in S : t = n - x
  BY <1>2
<1>4. \A y \in S : x >= y
  <2> SUFFICES ASSUME NEW y \in S PROVE x >= y
    OBVIOUS
  <2>1. n - y \in T
    OBVIOUS
  <2> QED
    BY <1>2, <1>3, <2>1
<1> QED
  BY <1>3, <1>4 DEF Max

\* What GetLastLetter returns: a letter in lower case, or none.
LEMMA LastLetterType ==
  ASSUME NEW w \in Words
  PROVE  LastLetter(w) \in Letters \cup {NoLetter}
<1> DEFINE heard == {i \in 1 .. Len(w) : Lower[w[i]] \notin Silent}
<1>1. w \in Seq(Letters)
  BY WordsAssumption
<1>2. CASE heard = {}
  BY <1>2 DEF LastLetter
<1>3. CASE heard # {}
  <2>1. Max(heard) \in heard
    <3>1. Len(w) \in Nat /\ heard \in SUBSET (1 .. Len(w))
      BY <1>1
    <3> HIDE DEF heard
    <3> QED
      BY <1>3, <3>1, MaxPosition
  <2>2. LastLetter(w) = Lower[w[Max(heard)]]
    BY <1>3 DEF LastLetter
  <2>3. w[Max(heard)] \in Letters
    BY <1>1, <2>1
  <2> QED
    BY <2>2, <2>3, LettersAssumption
<1> QED
  BY <1>2, <1>3

\* What the bot answers with: a row of the table that is the user's word again, or one
\* whose first_letter is the letter to go on with and that comes after the offset.
LEMMA BotSerialIsARow ==
  ASSUME dict \in Seq(Words), NEW w, NEW offset \in Nat
  PROVE  LET s == BotSerial(w, offset)
         IN  s # 0 => /\ s \in DOMAIN dict
                      /\ \/ dict[s] = w /\ \E t \in DOMAIN dict : t # s /\ dict[t] = w
                         \/ initial[s] = LastLetter(w) /\ s > offset
<1> DEFINE twins == Serials(w) \ {Min(Serials(w))}
           rows == IF twins # {} THEN twins ELSE Candidates(w, offset)
<1>1. Serials(w) \in SUBSET Nat /\ rows \in SUBSET Nat
  <2>1. DOMAIN dict \in SUBSET Nat
    OBVIOUS
  <2>2. Serials(w) \in SUBSET Nat /\ Candidates(w, offset) \in SUBSET Nat
    BY <2>1 DEF Serials, Candidates
  <2> QED
    BY <2>2
<1>2. CASE Serials(w) = {} \/ rows = {}
  BY <1>2 DEF BotSerial
<1>3. CASE Serials(w) # {} /\ rows # {}
  <2>1. BotSerial(w, offset) = Min(rows)
    BY <1>3 DEF BotSerial
  <2>2. Min(rows) \in rows
    <3> HIDE DEF rows
    <3> QED
      BY <1>1, <1>3, MinNat
  <2>3. Min(Serials(w)) \in Serials(w)
    BY <1>1, <1>3, MinNat
  <2> QED
    BY <2>1, <2>2, <2>3 DEF Serials, Candidates
<1> QED
  BY <1>2, <1>3

\* A session is its fields.
LEMMA SessionFields ==
  ASSUME NEW ses \in Sessions
  PROVE  ses = [last |-> ses.last, used |-> ses.used, offsets |-> ses.offsets,
                all |-> ses.all, user |-> ses.user, correct |-> ses.correct]
BY DEF Sessions

\* A move leaves a session, in which the offset of the letter is the row played.
LEMMA MoveType ==
  ASSUME dict \in Seq(Words), NEW ses \in Sessions, NEW w \in Words,
         LastLetter(w) \in Letters, NEW s \in DOMAIN dict
  PROVE  /\ Move(ses, w, s) \in Sessions
         /\ Move(ses, w, s) =
              [last |-> LastLetter(dict[s]), used |-> ses.used \cup {w, dict[s]},
               offsets |-> [ses.offsets EXCEPT ![LastLetter(w)] = s],
               all |-> ses.all, user |-> ses.user, correct |-> ses.correct + 1]
         /\ Move(ses, w, s).offsets[LastLetter(w)] = s
<1>1. dict[s] \in Words /\ s \in Nat
  OBVIOUS
<1>2. LastLetter(dict[s]) \in Letters \cup {NoLetter}
  BY <1>1, LastLetterType
<1> QED
  BY <1>1, <1>2 DEF Move, Sessions

\* An attempt is counted in a session of the same game.
LEMMA AttemptType ==
  ASSUME NEW ses \in Sessions
  PROVE  /\ Attempt(ses) \in Sessions
         /\ Attempt(ses) =
              [last |-> ses.last, used |-> ses.used, offsets |-> ses.offsets,
               all |-> ses.all + 1, user |-> ses.user + 1, correct |-> ses.correct]
         /\ CountWord(ses) \in Sessions
         /\ CountWord(ses) =
              [last |-> ses.last, used |-> ses.used, offsets |-> ses.offsets,
               all |-> ses.all + 1, user |-> ses.user, correct |-> ses.correct]
<1>1. \A t \in Sessions :
        /\ CountWord(t) = [last |-> t.last, used |-> t.used, offsets |-> t.offsets,
                           all |-> t.all + 1, user |-> t.user, correct |-> t.correct]
        /\ CountWord(t) \in Sessions
  BY SessionFields DEF CountWord, Sessions
<1>2. Attempt(ses) =
        [last |-> ses.last, used |-> ses.used, offsets |-> ses.offsets,
         all |-> ses.all + 1, user |-> ses.user + 1, correct |-> ses.correct]
  BY <1>1 DEF Attempt, Sessions
<1> QED
  BY <1>1, <1>2 DEF Sessions

LEMMA NewSessionType == NewSession \in Sessions
BY LettersAssumption DEF NewSession, Sessions

-------------------------------------------------------------------------------
(* Types.                                                                    *)

Live(h) == pc[h] \in {"lookup", "saveAttempt", "saveMove"}

\* The row a move in hand answers with.
Reply(h) == local[h].offsets[LastLetter(word[h])]

\* What a handler has in hand: a word with a letter to go on with, and a row.
InHand ==
  \A h \in Handlers :
    /\ Live(h) => word[h] \in Words /\ LastLetter(word[h]) \in Letters
    /\ pc[h] = "saveMove" => Reply(h) \in DOMAIN dict

TypeInv == TypeOK /\ InHand

\* The row a handler that looks a word up is going to answer with.
LEMMA AnswerIsARow ==
  ASSUME TypeInv, NEW h \in Handlers, pc[h] = "lookup", Answer(h) # 0
  PROVE  /\ Answer(h) \in DOMAIN dict
         /\ \/ /\ dict[Answer(h)] = word[h]
               /\ \E t \in DOMAIN dict : t # Answer(h) /\ dict[t] = word[h]
            \/ /\ initial[Answer(h)] = LastLetter(word[h])
               /\ Answer(h) > local[h].offsets[LastLetter(word[h])]
<1>1. dict \in Seq(Words) /\ local[h].offsets[LastLetter(word[h])] \in Nat
  BY DEF TypeInv, TypeOK, InHand, Live, Sessions
<1> QED
  BY <1>1, BotSerialIsARow DEF Answer

\* The move it has in hand then: the letter's offset is that row, and the words of both
\* are used.
Played(h) == Move(CountWord(local[h]), word[h], Answer(h))

LEMMA PlayedType ==
  ASSUME TypeInv, NEW h \in Handlers, pc[h] = "lookup", Answer(h) # 0
  PROVE  /\ Played(h) \in Sessions
         /\ Played(h).offsets[LastLetter(word[h])] = Answer(h)
         /\ Played(h).used = local[h].used \cup {word[h], dict[Answer(h)]}
<1>1. /\ local[h] \in Sessions /\ dict \in Seq(Words)
      /\ word[h] \in Words /\ LastLetter(word[h]) \in Letters
  BY DEF TypeInv, TypeOK, InHand, Live
<1> DEFINE c == CountWord(local[h])
<1>2. c \in Sessions
  BY <1>1, AttemptType
<1>3. c.used = local[h].used
  <2>1. c = [last |-> local[h].last, used |-> local[h].used, offsets |-> local[h].offsets,
             all |-> local[h].all + 1, user |-> local[h].user, correct |-> local[h].correct]
    BY <1>1, AttemptType
  <2> QED
    BY <2>1
<1>4. Answer(h) \in DOMAIN dict
  BY AnswerIsARow
<1> HIDE DEF c
<1>5. LET m == Move(c, word[h], Answer(h))
      IN  /\ m \in Sessions
          /\ m.offsets[LastLetter(word[h])] = Answer(h)
  BY <1>1, <1>2, <1>4, MoveType
<1>6. Move(c, word[h], Answer(h)).used = local[h].used \cup {word[h], dict[Answer(h)]}
  BY <1>3 DEF Move
<1> QED
  BY <1>5, <1>6 DEF Played, c

LEMMA TypeInvInit == Init => TypeInv
BY NewSessionType, RowsAssumption DEF Init, TypeInv, TypeOK, InHand, Live

LEMMA TypeInvStep == TypeInv /\ [Next]_vars => TypeInv'
<1> SUFFICES ASSUME TypeInv, [Next]_vars PROVE TypeInv'
  OBVIOUS
<1> USE NewSessionType
<1>1. CASE UNCHANGED vars
  BY <1>1 DEF vars, TypeInv, TypeOK, InHand, Live, Reply, LastLetter
<1>2. CASE StartGame
  BY <1>2 DEF StartGame, EndHistory, handlerVars, TypeInv, TypeOK, InHand, Live, Reply
<1>3. CASE Expire
  BY <1>3 DEF Expire, EndHistory, handlerVars, TypeInv, TypeOK, InHand, Live, Reply
<1>4. ASSUME NEW row \in NewRows, AddWord(row[1], row[2]) PROVE TypeInv'
  <2>1. row[1] \in Words /\ row[2] \in Initials
    BY RowsAssumption
  <2> QED
    BY <1>4, <2>1 DEF AddWord, handlerVars, TypeInv, TypeOK, InHand, Live, Reply
<1>5. ASSUME NEW h \in Handlers, Handle(h) PROVE TypeInv'
  <2> USE DEF sessionVars, TypeInv, TypeOK, InHand, Live, Reply
  <2>1. ASSUME NEW w \in Words \cup {Stop}, Receive(h, w) PROVE TypeInv'
    BY <2>1 DEF Receive
  <2>2. CASE StopGame(h)
    BY <2>2 DEF StopGame, Return, EndHistory
  <2>3. CASE RefuseWord(h)
    BY <2>3 DEF RefuseWord, Return
  <2>4. CASE LoadSession(h)
    BY <2>4, AttemptType, LastLetterType DEF LoadSession
  <2>5. CASE NoAnswer(h)
    BY <2>5 DEF NoAnswer
  <2>6. CASE RejectAnswer(h) \/ RefuseMove(h)
    <3>1. CASE RejectAnswer(h)
      BY <3>1 DEF RejectAnswer, Return
    <3>2. CASE RefuseMove(h)
      BY <3>2 DEF RefuseMove, Return
    <3> QED
      BY <2>6, <3>1, <3>2
  <2>7. CASE PlayMove(h)
    <3> DEFINE m == Played(h)
    <3>1. m \in Sessions /\ m.offsets[LastLetter(word[h])] = Answer(h)
      BY <2>7, PlayedType DEF PlayMove
    <3>2. Answer(h) \in DOMAIN dict
      BY <2>7, AnswerIsARow DEF PlayMove
    <3>3. local' = [local EXCEPT ![h] = m]
      BY <2>7 DEF PlayMove, Played
    <3> HIDE DEF m
    <3>4. local' \in [Handlers -> Sessions] /\ Reply(h)' = Answer(h)
      <4>1. local' \in [Handlers -> Sessions] /\ local'[h] = m
        BY <3>1, <3>3
      <4>2. LastLetter(word[h])' = LastLetter(word[h])
        BY <2>7 DEF PlayMove, LastLetter
      <4> QED
        BY <3>1, <4>1, <4>2
    <3>5. \A g \in Handlers \ {h} : Reply(g)' = Reply(g)
      BY <2>7, <3>3 DEF PlayMove, LastLetter
    <3>6. InHand'
      BY <2>7, <3>2, <3>4, <3>5 DEF PlayMove
    <3>7. TypeOK'
      BY <2>7, <3>4 DEF PlayMove
    <3> QED
      BY <3>6, <3>7
  <2>8. CASE SaveAttempt(h)
    BY <2>8 DEF SaveAttempt, SaveState, Return
  <2>9. CASE SaveMove(h)
    <3>1. Reply(h) \in DOMAIN dict /\ DOMAIN dict = 1 .. Len(dict) /\ word[h] \in Words
      BY <2>9 DEF SaveMove
    <3>2. replies' = replies \cup {Reply(h)} /\ accepted' = accepted \cup {word[h]}
      BY <2>9 DEF SaveMove
    <3>3. replies' \subseteq 1 .. Len(dict') /\ accepted' \subseteq Words
      BY <2>9, <3>1, <3>2 DEF SaveMove
    <3> QED
      BY <2>9, <3>3 DEF SaveMove, SaveState, Return
  <2>10. CASE HandlerFails(h)
    BY <2>10 DEF HandlerFails, Return
  <2> QED
    BY <1>5, <2>1, <2>2, <2>3, <2>4, <2>5, <2>6, <2>7, <2>8, <2>9, <2>10 DEF Handle
<1> QED
  BY <1>1, <1>2, <1>3, <1>4, <1>5 DEF Next

LEMMA Typed == Spec => []TypeInv
BY TypeInvInit, TypeInvStep, PTL DEF Spec

\* The types of the game's state are kept: in particular every reply in hand is a row of
\* the table, and no letter's offset is ever anything but a natural number.
THEOREM TypeCorrect == Spec => []TypeOK
<1>1. TypeInv => TypeOK
  BY DEF TypeInv
<1> QED
  BY <1>1, Typed, PTL

-------------------------------------------------------------------------------
(* A session is one that a game can reach, whichever handlers wrote it.      *)

\* A session of a game with table d: the words of the bot are counted and answer all
\* correct words of the user, every offset is the row of a used word, and the letter to
\* follow is the one the word of such a row leaves.
IsGame(d, ses) ==
  /\ ses.all - ses.user = ses.correct /\ ses.correct <= ses.user
  /\ ses.correct = 0 <=> ses.last = NoLetter
  /\ \A l \in Letters :
       ses.offsets[l] # 0 => ses.offsets[l] \in DOMAIN d /\ d[ses.offsets[l]] \in ses.used
  /\ ses.last # NoLetter =>
       \E l \in Letters : ses.offsets[l] # 0 /\ ses.last = LastLetter(d[ses.offsets[l]])

\* The user's attempt is counted, and the bot has not answered yet.
Unanswered(ses) == ses.correct < ses.user

\* The session in the key is a game's, and so is the one each handler works on.
GameInv ==
  /\ TypeInv
  /\ IsGame(dict, ctx.ses)
  /\ \A h \in Handlers :
       /\ Live(h) => IsGame(dict, local[h])
       /\ pc[h] = "lookup" => Unanswered(local[h])

\* The rows of a table stay what they are when a word is added.
LEMMA GameGrows ==
  ASSUME NEW d \in Seq(Words), NEW w \in Words, NEW ses \in Sessions, IsGame(d, ses)
  PROVE  IsGame(Append(d, w), ses)
<1>1. \A s \in DOMAIN d : s \in DOMAIN Append(d, w) /\ Append(d, w)[s] = d[s]
  OBVIOUS
<1> QED
  BY <1>1 DEF IsGame

LEMMA NewGame == ASSUME NEW d PROVE IsGame(d, NewSession)
BY LettersAssumption DEF IsGame, NewSession

LEMMA AttemptGame ==
  ASSUME NEW d, NEW ses \in Sessions, IsGame(d, ses)
  PROVE  IsGame(d, Attempt(ses)) /\ Unanswered(Attempt(ses))
<1> DEFINE t == [last |-> ses.last, used |-> ses.used, offsets |-> ses.offsets,
                 all |-> ses.all + 1, user |-> ses.user + 1, correct |-> ses.correct]
<1>1. Attempt(ses) = t
  BY AttemptType
<1>2. IsGame(d, t) /\ Unanswered(t)
  BY DEF IsGame, Unanswered, Sessions
<1> QED
  BY <1>1, <1>2

\* The bot's answer, with a row that leaves a letter to follow, continues the game.
LEMMA MoveGame ==
  ASSUME dict \in Seq(Words), NEW ses \in Sessions, IsGame(dict, ses), Unanswered(ses),
         NEW w \in Words, LastLetter(w) \in Letters,
         NEW s \in DOMAIN dict, LastLetter(dict[s]) # NoLetter
  PROVE  IsGame(dict, Move(CountWord(ses), w, s))
<1> DEFINE letter == LastLetter(w)
           t == [last |-> LastLetter(dict[s]), used |-> ses.used \cup {w, dict[s]},
                 offsets |-> [ses.offsets EXCEPT ![letter] = s],
                 all |-> ses.all + 1, user |-> ses.user, correct |-> ses.correct + 1]
<1>1. Move(CountWord(ses), w, s) = t
  <2> DEFINE c == CountWord(ses)
  <2>1. c = [last |-> ses.last, used |-> ses.used, offsets |-> ses.offsets,
             all |-> ses.all + 1, user |-> ses.user, correct |-> ses.correct]
    BY AttemptType
  <2> HIDE DEF c
  <2>2. Move(c, w, s) = t
    BY <2>1 DEF Move
  <2> QED
    BY <2>2 DEF c
<1>2. s \in Nat \ {0} /\ ses.offsets \in [Letters -> Nat] /\ letter \in Letters
  BY DEF Sessions
<1>3. t.offsets[letter] = s /\ \A l \in Letters \ {letter} : t.offsets[l] = ses.offsets[l]
  BY <1>2
<1>4. t.all - t.user = t.correct /\ t.correct <= t.user /\ t.correct # 0 /\ t.last # NoLetter
  BY DEF IsGame, Unanswered, Sessions
<1>5. /\ t.used = ses.used \cup {w, dict[s]}
      /\ t.last = LastLetter(dict[s])
  OBVIOUS
<1> HIDE DEF t, letter
<1>6. \A l \in Letters :
        t.offsets[l] # 0 => t.offsets[l] \in DOMAIN dict /\ dict[t.offsets[l]] \in t.used
  BY <1>3, <1>5 DEF IsGame
<1>7. \E l \in Letters : t.offsets[l] # 0 /\ t.last = LastLetter(dict[t.offsets[l]])
  BY <1>2, <1>3, <1>5
<1>8. IsGame(dict, t)
  BY <1>4, <1>6, <1>7 DEF IsGame
<1> QED
  BY <1>1, <1>8

LEMMA GameInvInit == Init => GameInv
BY TypeInvInit, NewGame DEF Init, GameInv, Live

LEMMA GameInvStep == GameInv /\ [Next]_vars => GameInv'
<1> SUFFICES ASSUME GameInv, [Next]_vars PROVE GameInv'
  OBVIOUS
<1>1. TypeInv /\ TypeInv'
  BY TypeInvStep DEF GameInv
<1> USE NewGame DEF GameInv, Live
<1>2. CASE UNCHANGED vars
  BY <1>1, <1>2 DEF vars
<1>3. CASE StartGame
  BY <1>1, <1>3 DEF StartGame, handlerVars
<1>4. CASE Expire
  BY <1>1, <1>4 DEF Expire, handlerVars
<1>5. ASSUME NEW row \in NewRows, AddWord(row[1], row[2]) PROVE GameInv'
  <2>1. /\ dict \in Seq(Words) /\ row[1] \in Words /\ ctx.ses \in Sessions
        /\ \A h \in Handlers : local[h] \in Sessions
    BY <1>1, RowsAssumption DEF TypeInv, TypeOK
  <2>2. /\ dict' = Append(dict, row[1])
        /\ ctx' = ctx /\ pc' = pc /\ local' = local
    BY <1>5 DEF AddWord, handlerVars
  <2>3. IsGame(dict', ctx'.ses)
    BY <2>1, <2>2, GameGrows
  <2>4. \A h \in Handlers : Live(h) => IsGame(dict', local'[h])
    BY <2>1, <2>2, GameGrows
  <2> QED
    BY <1>1, <2>2, <2>3, <2>4
<1>6. ASSUME NEW h \in Handlers, Handle(h) PROVE GameInv'
  <2> USE DEF sessionVars
  <2>1. pc \in [Handlers -> {"idle", "load", "lookup", "saveAttempt", "saveMove"}]
        /\ local \in [Handlers -> Sessions] /\ ctx.ses \in Sessions
    BY <1>1 DEF TypeInv, TypeOK
  <2>2. ASSUME NEW w \in Words \cup {Stop}, Receive(h, w) PROVE GameInv'
    BY <1>1, <2>1, <2>2 DEF Receive
  <2>3. CASE StopGame(h)
    BY <1>1, <2>1, <2>3 DEF StopGame, Return
  <2>4. CASE RefuseWord(h)
    BY <1>1, <2>1, <2>4 DEF RefuseWord, Return
  <2>5. CASE LoadSession(h)
    <3>1. IsGame(dict, Attempt(ctx.ses)) /\ Unanswered(Attempt(ctx.ses))
      BY <2>1, AttemptGame
    <3> QED
      BY <1>1, <2>1, <2>5, <3>1 DEF LoadSession
  <2>6. CASE NoAnswer(h)
    BY <1>1, <2>1, <2>6 DEF NoAnswer
  <2>7. CASE RejectAnswer(h) \/ RefuseMove(h)
    BY <1>1, <2>1, <2>7 DEF RejectAnswer, RefuseMove, Return
  <2>8. CASE PlayMove(h)
    <3> DEFINE m == Move(CountWord(local[h]), word[h], Answer(h))
    <3>1. /\ pc[h] = "lookup" /\ Answer(h) # 0 /\ UNCHANGED <<dict, ctx>>
          /\ local' = [local EXCEPT ![h] = m] /\ pc' = [pc EXCEPT ![h] = "saveMove"]
      BY <2>8 DEF PlayMove
    <3>2. /\ dict \in Seq(Words) /\ local[h] \in Sessions
          /\ word[h] \in Words /\ LastLetter(word[h]) \in Letters
          /\ IsGame(dict, local[h]) /\ Unanswered(local[h])
      BY <1>1, <3>1 DEF TypeInv, TypeOK, InHand
    <3>3. Answer(h) \in DOMAIN dict /\ LastLetter(dict[Answer(h)]) # NoLetter
      BY <1>1, <2>8, <3>1, AnswerIsARow DEF PlayMove, CanFollow
    <3>4. IsGame(dict, m)
      BY <3>2, <3>3, MoveGame
    <3> HIDE DEF m
    <3> QED
      BY <1>1, <2>1, <3>1, <3>4
  <2>9. CASE SaveAttempt(h)
    BY <1>1, <2>1, <2>9 DEF SaveAttempt, SaveState, Return
  <2>10. CASE SaveMove(h)
    BY <1>1, <2>1, <2>10 DEF SaveMove, SaveState, Return
  <2>11. CASE HandlerFails(h)
    BY <1>1, <2>1, <2>11 DEF HandlerFails, Return
  <2> QED
    BY <1>6, <2>2, <2>3, <2>4, <2>5, <2>6, <2>7, <2>8, <2>9, <2>10, <2>11 DEF Handle
<1> QED
  BY <1>2, <1>3, <1>4, <1>5, <1>6 DEF Next

LEMMA AlwaysAGame == Spec => []GameInv
BY GameInvInit, GameInvStep, PTL DEF Spec

\* The numbers "/stop" reports agree with each other, whichever handlers overlap, fail or
\* write their session over one another's.
THEOREM NumbersAgree == Spec => []CountsAgree
<1>1. GameInv => CountsAgree
  BY DEF GameInv, IsGame, CountsAgree
<1> QED
  BY <1>1, AlwaysAGame, PTL

\* The session in the key is always one a game can reach: its letter to follow and its
\* offsets belong to words that were used.
THEOREM StoredSessionIsAGame == Spec => []SessionIsAGame
<1>1. GameInv => SessionIsAGame
  BY DEF GameInv, IsGame, SessionIsAGame
<1> QED
  BY <1>1, AlwaysAGame, PTL

-------------------------------------------------------------------------------
(* While messages are handled one after the other, the key is the handler's. *)

\* The session in the key remembers the words of the game.
Remembers == \A w \in accepted \cup {dict[s] : s \in replies} : w \in ctx.ses.used

\* The one handler at work still works on the session that is in the key.
InStep(h) ==
  /\ pc[h] # "idle" => ctx.state = "Shiritori"
  /\ pc[h] \in {"lookup", "saveAttempt"} =>
       local[h].used = ctx.ses.used /\ local[h].last = ctx.ses.last
  /\ pc[h] = "saveMove" =>
       /\ word[h] \notin ctx.ses.used /\ Follows(ctx.ses, word[h])
       /\ ctx.ses.used \cup {word[h], dict[Reply(h)]} \subseteq local[h].used

OneAtWork == \A g, h \in Handlers : pc[g] # "idle" /\ pc[h] # "idle" => g = h

AloneInv == TypeInv /\ (alone => OneAtWork /\ Remembers /\ \A h \in Handlers : InStep(h))

LEMMA AloneInvInit == Init => AloneInv
BY TypeInvInit DEF Init, AloneInv, OneAtWork, Remembers, InStep

\* What a handler may not disturb: when it is done, nobody is at work.
LEMMA NobodyLeft ==
  ASSUME TypeOK, NEW h \in Handlers, OneAtWork, pc[h] # "idle", Return(h)
  PROVE  \A g \in Handlers : pc'[g] = "idle"
BY DEF TypeOK, OneAtWork, Return

LEMMA NothingInHand ==
  ASSUME \A g \in Handlers : pc'[g] = "idle"
  PROVE  OneAtWork' /\ \A g \in Handlers : InStep(g)'
BY DEF OneAtWork, InStep

\* A handler that goes on is still the only one.
LEMMA OneGoesOn ==
  ASSUME TypeOK, NEW h \in Handlers, OneAtWork, pc[h] # "idle",
         NEW step, pc' = [pc EXCEPT ![h] = step]
  PROVE  OneAtWork' /\ \A g \in Handlers \ {h} : InStep(g)'
<1>1. \A g \in Handlers \ {h} : pc'[g] = "idle"
  BY DEF TypeOK, OneAtWork
<1> QED
  BY <1>1 DEF OneAtWork, InStep

LEMMA AloneInvStep == AloneInv /\ [Next]_vars => AloneInv'
<1> SUFFICES ASSUME AloneInv, [Next]_vars PROVE AloneInv'
  OBVIOUS
<1>1. TypeInv /\ TypeInv'
  BY TypeInvStep DEF AloneInv
<1> DEFINE Goal == OneAtWork' /\ Remembers' /\ \A h \in Handlers : InStep(h)'
<1>2. SUFFICES ASSUME alone' PROVE Goal
  BY <1>1 DEF AloneInv
<1>3. TypeOK /\ pc \in [Handlers -> {"idle", "load", "lookup", "saveAttempt", "saveMove"}]
      /\ local \in [Handlers -> Sessions] /\ alone \in BOOLEAN
  BY <1>1 DEF TypeInv, TypeOK
<1>4. CASE UNCHANGED vars
  <2>1. UNCHANGED <<dict, ctx, pc, word, local, accepted, replies, alone>>
    BY <1>4 DEF vars
  <2>2. OneAtWork' /\ Remembers'
    BY <1>2, <2>1 DEF AloneInv, OneAtWork, Remembers
  <2>3. ASSUME NEW h \in Handlers PROVE InStep(h)'
    <3>1. InStep(h)
      BY <1>2, <2>1 DEF AloneInv
    <3>2. Reply(h)' = Reply(h) /\ Follows(ctx.ses, word[h])' = Follows(ctx.ses, word[h])
      BY <2>1 DEF Reply, Follows, LastLetter, FirstLetter
    <3> QED
      BY <2>1, <3>1, <3>2 DEF InStep
  <2> QED
    BY <2>2, <2>3
<1>5. CASE StartGame
  BY <1>2, <1>5 DEF StartGame, handlerVars, EndHistory, Busy, OneAtWork, Remembers, InStep
<1>6. CASE Expire
  BY <1>2, <1>3, <1>6 DEF Expire, handlerVars, EndHistory, Busy, OneAtWork, Remembers, InStep
<1>7. ASSUME NEW row \in NewRows, AddWord(row[1], row[2]) PROVE Goal
  <2>1. /\ dict' = Append(dict, row[1]) /\ dict \in Seq(Words)
        /\ UNCHANGED <<ctx, accepted, replies, pc, word, local, alone>>
    BY <1>3, <1>7 DEF AddWord, handlerVars, TypeOK
  <2>2. \A s \in DOMAIN dict : dict'[s] = dict[s]
    BY <2>1
  <2>3. replies \subseteq DOMAIN dict
    BY <1>3, <2>1 DEF TypeOK
  <2>4. \A h \in Handlers : pc[h] = "saveMove" => Reply(h) \in DOMAIN dict
    BY <1>1 DEF TypeInv, InHand
  <2>5. Remembers'
    BY <1>2, <2>1, <2>2, <2>3 DEF AloneInv, Remembers
  <2>6. \A h \in Handlers : InStep(h)'
    <3> SUFFICES ASSUME NEW h \in Handlers PROVE InStep(h)'
      OBVIOUS
    <3>1. InStep(h)
      BY <1>2, <2>1 DEF AloneInv
    <3>2. Reply(h)' = Reply(h) /\ Follows(ctx.ses, word[h])' = Follows(ctx.ses, word[h])
      BY <2>1 DEF Reply, Follows, LastLetter, FirstLetter
    <3>3. pc[h] = "saveMove" => dict'[Reply(h)] = dict[Reply(h)]
      BY <2>2, <2>4
    <3> QED
      BY <2>1, <3>1, <3>2, <3>3 DEF InStep
  <2> QED
    BY <1>2, <2>1, <2>5, <2>6 DEF AloneInv, OneAtWork
<1>8. ASSUME NEW h \in Handlers, Handle(h) PROVE Goal
  <2>1. ASSUME NEW w \in Words \cup {Stop}, Receive(h, w) PROVE Goal
    <3>1. /\ ctx.state = "Shiritori" /\ pc' = [pc EXCEPT ![h] = "load"]
          /\ \A g \in Handlers : pc[g] = "idle"
          /\ UNCHANGED <<dict, ctx, accepted, replies>>
      BY <1>2, <2>1 DEF Receive, Busy, sessionVars
    <3>2. pc'[h] = "load" /\ \A g \in Handlers \ {h} : pc'[g] = "idle"
      BY <1>3, <3>1
    <3>3. Remembers
      BY <1>2, <2>1 DEF AloneInv, Receive
    <3>4. Remembers'
      BY <3>1, <3>3 DEF Remembers
    <3>5. OneAtWork'
      BY <3>2 DEF OneAtWork
    <3>6. \A g \in Handlers : InStep(g)'
      BY <3>1, <3>2 DEF InStep
    <3> QED
      BY <3>4, <3>5, <3>6
  <2>2. ASSUME alone' = alone, pc[h] # "idle"
        PROVE  /\ OneAtWork /\ Remembers /\ InStep(h) /\ ctx.state = "Shiritori"
               /\ Return(h) /\ Remembers' => Goal
    <3>1. OneAtWork /\ Remembers /\ InStep(h)
      BY <1>2, <2>2 DEF AloneInv
    <3>2. ctx.state = "Shiritori"
      BY <2>2, <3>1 DEF InStep
    <3>3. ASSUME Return(h), Remembers' PROVE Goal
      <4>1. \A g \in Handlers : pc'[g] = "idle"
        BY <1>3, <2>2, <3>1, <3>3, NobodyLeft
      <4> QED
        BY <3>3, <4>1, NothingInHand
    <3> QED
      BY <3>1, <3>2, <3>3
  <2>3. CASE StopGame(h)
    <3>1. /\ pc[h] # "idle" /\ Return(h) /\ alone' = alone
          /\ accepted' = {} /\ replies' = {}
      BY <2>3 DEF StopGame, EndHistory
    <3>2. Remembers'
      BY <3>1 DEF Remembers
    <3> QED
      BY <2>2, <3>1, <3>2
  <2>4. CASE RefuseWord(h) \/ RejectAnswer(h) \/ RefuseMove(h) \/ HandlerFails(h)
    <3>1. /\ pc[h] # "idle" /\ Return(h) /\ alone' = alone
          /\ UNCHANGED <<dict, ctx, accepted, replies>>
      BY <2>4 DEF RefuseWord, RejectAnswer, RefuseMove, HandlerFails, sessionVars
    <3>2. Remembers'
      BY <2>2, <3>1 DEF Remembers
    <3> QED
      BY <2>2, <3>1, <3>2
  <2>5. CASE LoadSession(h)
    <3>1. /\ pc[h] = "load" /\ pc' = [pc EXCEPT ![h] = "lookup"]
          /\ local' = [local EXCEPT ![h] = Attempt(ctx.ses)]
          /\ UNCHANGED <<dict, ctx, accepted, replies, alone>>
      BY <2>5 DEF LoadSession, sessionVars
    <3>2. Attempt(ctx.ses).used = ctx.ses.used /\ Attempt(ctx.ses).last = ctx.ses.last
      <4>1. ctx.ses \in Sessions
        BY <1>3 DEF TypeOK
      <4>2. Attempt(ctx.ses) =
              [last |-> ctx.ses.last, used |-> ctx.ses.used, offsets |-> ctx.ses.offsets,
               all |-> ctx.ses.all + 1, user |-> ctx.ses.user + 1,
               correct |-> ctx.ses.correct]
        BY <4>1, AttemptType
      <4> QED
        BY <4>2
    <3>3. OneAtWork' /\ \A g \in Handlers \ {h} : InStep(g)'
      BY <1>3, <2>2, <3>1, OneGoesOn
    <3>4. pc'[h] = "lookup" /\ local'[h] = Attempt(ctx.ses)
      BY <1>3, <3>1
    <3>5. InStep(h)'
      BY <2>2, <3>1, <3>2, <3>4 DEF InStep
    <3>6. Remembers'
      BY <2>2, <3>1 DEF Remembers
    <3> QED
      BY <3>3, <3>5, <3>6
  <2>6. CASE NoAnswer(h)
    <3>1. /\ pc[h] = "lookup" /\ pc' = [pc EXCEPT ![h] = "saveAttempt"]
          /\ UNCHANGED <<dict, ctx, accepted, replies, local, alone>>
      BY <2>6 DEF NoAnswer, sessionVars
    <3>2. OneAtWork' /\ \A g \in Handlers \ {h} : InStep(g)'
      BY <1>3, <2>2, <3>1, OneGoesOn
    <3>3. pc'[h] = "saveAttempt"
      BY <1>3, <3>1
    <3>4. InStep(h)'
      BY <2>2, <3>1, <3>3 DEF InStep
    <3>5. Remembers'
      BY <2>2, <3>1 DEF Remembers
    <3> QED
      BY <3>2, <3>4, <3>5
  <2>7. CASE PlayMove(h)
    <3> DEFINE m == Played(h)
    <3>1. /\ pc[h] = "lookup" /\ Answer(h) # 0 /\ ~BreaksRules(local[h], word[h])
          /\ local' = [local EXCEPT ![h] = m] /\ pc' = [pc EXCEPT ![h] = "saveMove"]
          /\ UNCHANGED <<dict, ctx, accepted, replies, word, alone>>
      BY <2>7 DEF PlayMove, Played, sessionVars
    <3>2. local[h].used = ctx.ses.used /\ local[h].last = ctx.ses.last
      BY <2>2, <3>1 DEF InStep
    <3>3. /\ m.used = ctx.ses.used \cup {word[h], dict[Answer(h)]}
          /\ m.offsets[LastLetter(word[h])] = Answer(h)
      BY <1>1, <3>1, <3>2, PlayedType
    <3> HIDE DEF m
    <3>4. word[h] \notin ctx.ses.used /\ Follows(ctx.ses, word[h])
      BY <3>1, <3>2 DEF BreaksRules, Follows
    <3>5. OneAtWork' /\ \A g \in Handlers \ {h} : InStep(g)'
      BY <1>3, <2>2, <3>1, OneGoesOn
    <3>6. pc'[h] = "saveMove" /\ local'[h] = m
      BY <1>3, <3>1
    <3>7. Reply(h)' = Answer(h) /\ Follows(ctx.ses, word[h])' = Follows(ctx.ses, word[h])
      BY <3>1, <3>3, <3>6 DEF Reply, Follows, LastLetter, FirstLetter
    <3>8. InStep(h)'
      BY <2>2, <3>1, <3>3, <3>4, <3>6, <3>7 DEF InStep
    <3>9. Remembers'
      BY <2>2, <3>1 DEF Remembers
    <3> QED
      BY <3>5, <3>8, <3>9
  <2>8. CASE SaveAttempt(h)
    <3>1. /\ pc[h] = "saveAttempt" /\ Return(h) /\ ctx'.ses = local[h]
          /\ UNCHANGED <<dict, accepted, replies, alone>>
      BY <2>8 DEF SaveAttempt, SaveState
    <3>2. local[h].used = ctx.ses.used
      BY <2>2, <3>1 DEF InStep
    <3>3. Remembers'
      BY <2>2, <3>1, <3>2 DEF Remembers
    <3> QED
      BY <2>2, <3>1, <3>3
  <2>9. CASE SaveMove(h)
    <3>1. /\ pc[h] = "saveMove" /\ Return(h) /\ ctx'.ses = local[h]
          /\ accepted' = accepted \cup {word[h]} /\ replies' = replies \cup {Reply(h)}
          /\ UNCHANGED <<dict, alone>>
      BY <2>9 DEF SaveMove, SaveState, Reply
    <3>2. Remembers /\ ctx.ses.used \cup {word[h], dict[Reply(h)]} \subseteq local[h].used
      BY <2>2, <3>1 DEF InStep
    <3>3. Remembers'
      BY <3>1, <3>2 DEF Remembers
    <3> QED
      BY <2>2, <3>1, <3>3
  <2> QED
    BY <1>8, <2>1, <2>3, <2>4, <2>5, <2>6, <2>7, <2>8, <2>9 DEF Handle
<1> HIDE DEF Goal
<1> QED
  BY <1>4, <1>5, <1>6, <1>7, <1>8 DEF Next

LEMMA AlwaysAlone == Spec => []AloneInv
BY AloneInvInit, AloneInvStep, PTL DEF Spec

\* As long as the messages of the user are handled one after the other, the session
\* remembers the game: no word of the user is accepted that the user or the bot played
\* before in it, and every accepted word begins with the letter to follow.
UserNeverRepeats ==
  alone => \A h \in Handlers :
    pc[h] = "saveMove" =>
      /\ word[h] \notin accepted \cup {dict[s] : s \in replies}
      /\ Follows(ctx.ses, word[h])

\* As long as messages are handled one after the other, whatever expires, fails or is
\* added to the table between them: no accepted word was played before in the game, and
\* every accepted word begins with the letter to follow.
THEOREM NeverRepeats == Spec => []UserNeverRepeats
<1>1. AloneInv => UserNeverRepeats
  BY DEF AloneInv, InStep, Remembers, UserNeverRepeats
<1> QED
  BY <1>1, AlwaysAlone, PTL

\* A stopped or expired game comes back only when the user starts one, unless a handler
\* overlapped another step.
THEOREM StoppedIsOver == Spec => StopIsFinal
<1> DEFINE Back == ctx.state = "None" /\ ctx'.state = "Shiritori"
<1>1. AloneInv /\ [Next]_vars => [Back => StartGame \/ ~alone]_vars
  <2> SUFFICES ASSUME AloneInv, Next, Back, alone PROVE StartGame
    OBVIOUS
  <2>1. CASE Expire \/ \E row \in NewRows : AddWord(row[1], row[2])
    BY <2>1 DEF Expire, AddWord
  <2>2. ASSUME NEW h \in Handlers, Handle(h) PROVE FALSE
    <3>1. InStep(h)
      BY DEF AloneInv
    <3>2. pc[h] # "idle" /\ ctx.state = "None" => FALSE
      BY <3>1 DEF InStep
    <3> QED
      BY <2>2, <3>2 DEF Handle, Receive, StopGame, RefuseWord, LoadSession, NoAnswer,
         RejectAnswer, RefuseMove, PlayMove, SaveAttempt, SaveMove, HandlerFails, sessionVars
  <2> QED
    BY <2>1, <2>2 DEF Next
<1> QED
  BY <1>1, AlwaysAlone, PTL DEF Spec, StopIsFinal

-------------------------------------------------------------------------------
(* The row the bot answers with, and the letter it leaves.                   *)

\* Rows are added to the table, and those before keep their word and first_letter.
LEMMA TableGrows ==
  ASSUME TypeInv, [Next]_vars
  PROVE  /\ \A s \in DOMAIN dict :
              s \in DOMAIN dict' /\ dict'[s] = dict[s] /\ initial'[s] = initial[s]
         /\ UniqueWords' => UniqueWords
         /\ TruthfulTable' => TruthfulTable
<1> DEFINE Kept ==
      \A s \in DOMAIN dict :
        s \in DOMAIN dict' /\ dict'[s] = dict[s] /\ initial'[s] = initial[s]
<1>1. Kept
  <2>1. CASE UNCHANGED <<dict, initial>>
    BY <2>1
  <2>2. ASSUME NEW row \in NewRows, AddWord(row[1], row[2]) PROVE Kept
    <3>1. /\ dict \in Seq(Words) /\ initial \in Seq(Initials) /\ Len(initial) = Len(dict)
          /\ dict' = Append(dict, row[1]) /\ initial' = Append(initial, row[2])
      BY <2>2 DEF AddWord, TypeInv, TypeOK
    <3> QED
      BY <3>1
  <2>3. CASE \E h \in Handlers : Handle(h)
    BY <2>1, <2>3 DEF Handle, Receive, StopGame, RefuseWord, LoadSession, NoAnswer,
       RejectAnswer, RefuseMove, PlayMove, SaveAttempt, SaveMove, HandlerFails, sessionVars
  <2> QED
    BY <2>1, <2>2, <2>3 DEF Next, StartGame, Expire, vars
<1> QED
  BY <1>1 DEF UniqueWords, TruthfulTable, IsTruthful, FirstLetter

\* A handler disturbs nothing of the others.
LEMMA OthersStay ==
  ASSUME TypeInv, NEW h \in Handlers, Handle(h)
  PROVE  \A g \in Handlers \ {h} : UNCHANGED <<pc[g], word[g], local[g]>>
BY DEF Handle, Receive, StopGame, RefuseWord, LoadSession, NoAnswer, RejectAnswer, RefuseMove,
   PlayMove, SaveAttempt, SaveMove, HandlerFails, Return, TypeInv, TypeOK

\* A move comes into a handler's hands only when it is played: its row is the bot's answer,
\* which leaves a letter to follow, and the table is as it was.
LEMMA MoveInHand ==
  ASSUME TypeInv, NEW h \in Handlers, Handle(h), pc'[h] = "saveMove"
  PROVE  /\ pc[h] = "lookup" /\ Answer(h) # 0 /\ CanFollow(h)
         /\ UNCHANGED <<dict, initial, word>>
         /\ local'[h] = Played(h) /\ Reply(h)' = Answer(h)
<1>1. PlayMove(h)
  BY DEF Handle, Receive, StopGame, RefuseWord, LoadSession, NoAnswer, RejectAnswer,
     RefuseMove, PlayMove, SaveAttempt, SaveMove, HandlerFails, Return, TypeInv, TypeOK
<1>2. /\ pc[h] = "lookup" /\ Answer(h) # 0 /\ CanFollow(h)
      /\ UNCHANGED <<dict, initial, word>>
      /\ local' = [local EXCEPT ![h] = Played(h)]
  BY <1>1 DEF PlayMove, Played, sessionVars
<1>3. local'[h] = Played(h)
  BY <1>2 DEF TypeInv, TypeOK
<1>4. Played(h).offsets[LastLetter(word[h])] = Answer(h)
  BY <1>2, PlayedType
<1>5. Reply(h)' = Answer(h)
  BY <1>2, <1>3, <1>4 DEF Reply, LastLetter
<1> QED
  BY <1>2, <1>3, <1>5

\* The letter a move in hand leaves is that of the row it answers with, and there is one.
Leaves(h) ==
  pc[h] = "saveMove" =>
    local[h].last = LastLetter(dict[Reply(h)]) /\ local[h].last # NoLetter

LeavesInv == \A h \in Handlers : Leaves(h)

LEMMA LeavesStep == ASSUME TypeInv, LeavesInv, [Next]_vars PROVE LeavesInv'
<1>1. ASSUME NEW h \in Handlers, UNCHANGED <<pc[h], word[h], local[h]>> PROVE Leaves(h)'
  <2> SUFFICES ASSUME pc[h] = "saveMove"
               PROVE  /\ local[h].last = LastLetter(dict[Reply(h)])'
                      /\ local[h].last # NoLetter
    BY <1>1 DEF Leaves
  <2>1. Reply(h)' = Reply(h) /\ Reply(h) \in DOMAIN dict
    BY <1>1 DEF Reply, LastLetter, TypeInv, InHand
  <2>2. dict'[Reply(h)] = dict[Reply(h)]
    BY <2>1, TableGrows
  <2> QED
    BY <1>1, <2>1, <2>2 DEF LeavesInv, Leaves, LastLetter
<1>2. CASE UNCHANGED handlerVars
  BY <1>1, <1>2 DEF handlerVars, LeavesInv
<1>3. ASSUME NEW h \in Handlers, Handle(h) PROVE LeavesInv'
  <2>1. Leaves(h)'
    <3> SUFFICES ASSUME pc'[h] = "saveMove"
                 PROVE  /\ local'[h].last = LastLetter(dict[Reply(h)])'
                        /\ local'[h].last # NoLetter
      BY DEF Leaves
    <3>1. /\ CanFollow(h) /\ UNCHANGED dict
          /\ local'[h] = Played(h) /\ Reply(h)' = Answer(h)
      BY <1>3, MoveInHand
    <3>2. Played(h).last = LastLetter(dict[Answer(h)])
      BY DEF Played, Move
    <3> QED
      BY <3>1, <3>2 DEF LastLetter, CanFollow
  <2> QED
    BY <1>1, <1>3, <2>1, OthersStay DEF LeavesInv
<1>4. ASSUME NEW row \in NewRows, AddWord(row[1], row[2]) PROVE UNCHANGED handlerVars
  BY <1>4 DEF AddWord
<1> QED
  BY <1>2, <1>3, <1>4 DEF Next, StartGame, Expire, vars, handlerVars

\* The first_letter of the row in hand is the letter to go on with.
Answers ==
  \A h \in Handlers : pc[h] = "saveMove" => initial[Reply(h)] = LastLetter(word[h])

AnswersInv == UniqueWords => Answers

LEMMA AnswersStep == ASSUME TypeInv, AnswersInv, [Next]_vars PROVE AnswersInv'
<1> SUFFICES ASSUME UniqueWords' PROVE Answers'
  BY DEF AnswersInv
<1>0. UniqueWords /\ Answers /\ \A s \in DOMAIN dict : initial'[s] = initial[s]
  BY TableGrows DEF AnswersInv
<1>1. ASSUME NEW h \in Handlers, pc[h] = "saveMove", UNCHANGED <<word[h], local[h]>>
      PROVE  initial[Reply(h)]' = LastLetter(word[h])'
  <2>1. Reply(h) \in DOMAIN dict
    BY <1>1 DEF TypeInv, InHand
  <2>2. Reply(h)' = Reply(h) /\ LastLetter(word[h])' = LastLetter(word[h])
    BY <1>1 DEF Reply, LastLetter
  <2>3. initial'[Reply(h)] = initial[Reply(h)]
    BY <1>0, <2>1
  <2> QED
    BY <1>0, <1>1, <2>2, <2>3 DEF Answers
<1>2. CASE UNCHANGED handlerVars
  <2>1. UNCHANGED <<pc, word, local>>
    BY <1>2 DEF handlerVars
  <2> QED
    BY <1>1, <2>1 DEF Answers
<1>3. ASSUME NEW h \in Handlers, Handle(h) PROVE Answers'
  <2>1. ASSUME pc'[h] = "saveMove" PROVE initial[Reply(h)]' = LastLetter(word[h])'
    <3>1. /\ pc[h] = "lookup" /\ Answer(h) # 0
          /\ UNCHANGED <<initial, word>> /\ Reply(h)' = Answer(h)
      BY <1>3, <2>1, MoveInHand
    <3>2. initial[Answer(h)] = LastLetter(word[h])
      BY <1>0, <3>1, AnswerIsARow DEF UniqueWords
    <3> QED
      BY <3>1, <3>2 DEF LastLetter
  <2> QED
    BY <1>1, <1>3, <2>1, OthersStay DEF Answers
<1>4. ASSUME NEW row \in NewRows, AddWord(row[1], row[2]) PROVE UNCHANGED handlerVars
  BY <1>4 DEF AddWord
<1> QED
  BY <1>2, <1>3, <1>4 DEF Next, StartGame, Expire, vars, handlerVars

\* Every reply of the game has a letter for first_letter and does not come after its offset.
BehindOffset ==
  \A s \in replies : initial[s] \in Letters /\ s <= ctx.ses.offsets[initial[s]]

\* A handler at work has the offsets of the key, but for the row it answers with, and that comes
\* after the one in the key.
Later(h) ==
  /\ pc[h] \in {"lookup", "saveAttempt"} => local[h].offsets = ctx.ses.offsets
  /\ pc[h] = "saveMove" =>
       /\ local[h].offsets = [ctx.ses.offsets EXCEPT ![LastLetter(word[h])] = Reply(h)]
       /\ Reply(h) > ctx.ses.offsets[LastLetter(word[h])]

BotInv == UniqueWords /\ alone => BehindOffset /\ \A h \in Handlers : Later(h)

LEMMA BotStep == ASSUME AloneInv, AnswersInv, BotInv, [Next]_vars PROVE BotInv'
<1> SUFFICES ASSUME UniqueWords', alone' PROVE BehindOffset' /\ \A h \in Handlers : Later(h)'
  BY DEF BotInv
<1>0. TypeInv /\ UniqueWords /\ \A s \in DOMAIN dict : initial'[s] = initial[s]
  BY TableGrows DEF AloneInv
<1>1. TypeOK /\ replies \subseteq DOMAIN dict /\ ctx.ses.offsets \in [Letters -> Nat]
  <2>1. TypeOK /\ dict \in Seq(Words) /\ replies \subseteq DOMAIN dict /\ ctx.ses \in Sessions
    BY <1>0 DEF TypeInv, TypeOK
  <2> QED
    BY <2>1 DEF Sessions
<1>2. ASSUME UNCHANGED replies, UNCHANGED ctx.ses.offsets, alone PROVE BehindOffset'
  BY <1>0, <1>1, <1>2 DEF BotInv, BehindOffset
<1>3. ASSUME replies' = {} PROVE BehindOffset'
  BY <1>3 DEF BehindOffset
<1>4. ASSUME \A g \in Handlers : pc'[g] = "idle" PROVE \A g \in Handlers : Later(g)'
  BY <1>4 DEF Later
<1>5. ASSUME StartGame \/ Expire PROVE BehindOffset' /\ \A h \in Handlers : Later(h)'
  BY <1>3, <1>4, <1>5 DEF StartGame, Expire, EndHistory, Busy, handlerVars
<1>6. ASSUME UNCHANGED <<ctx, pc, word, local, replies>>, alone
      PROVE  BehindOffset' /\ \A h \in Handlers : Later(h)'
  <2>1. ASSUME NEW h \in Handlers PROVE Later(h)'
    <3>1. Later(h) /\ LastLetter(word[h])' = LastLetter(word[h]) /\ Reply(h)' = Reply(h)
      BY <1>0, <1>6 DEF BotInv, LastLetter, Reply
    <3> QED
      BY <1>6, <3>1 DEF Later
  <2> QED
    BY <1>2, <1>6, <2>1
<1>7. ASSUME NEW h \in Handlers, Handle(h) PROVE BehindOffset' /\ \A g \in Handlers : Later(g)'
  <2>0. pc \in [Handlers -> {"idle", "load", "lookup", "saveAttempt", "saveMove"}]
        /\ local \in [Handlers -> Sessions]
    BY <1>1 DEF TypeOK
  <2>1. ASSUME NEW w \in Words \cup {Stop}, Receive(h, w)
        PROVE  BehindOffset' /\ \A g \in Handlers : Later(g)'
    <3>1. /\ alone /\ pc' = [pc EXCEPT ![h] = "load"] /\ \A g \in Handlers : pc[g] = "idle"
          /\ UNCHANGED <<ctx, replies>>
      BY <2>1 DEF Receive, Busy, sessionVars
    <3>2. \A g \in Handlers : pc'[g] \in {"idle", "load"}
      BY <2>0, <3>1
    <3> QED
      BY <1>2, <3>1, <3>2 DEF Later
  <2>2. ASSUME alone' = alone, pc[h] # "idle"
        PROVE  /\ alone /\ OneAtWork /\ BehindOffset /\ Later(h)
               /\ Return(h) => \A g \in Handlers : Later(g)'
    <3>1. alone /\ OneAtWork /\ BehindOffset /\ Later(h)
      BY <1>0, <2>2 DEF AloneInv, BotInv
    <3> QED
      BY <1>1, <1>4, <2>2, <3>1, NobodyLeft
  <2>3. ASSUME alone' = alone, pc[h] # "idle", NEW step, pc' = [pc EXCEPT ![h] = step]
        PROVE  pc'[h] = step /\ \A g \in Handlers \ {h} : Later(g)'
    <3>1. \A g \in Handlers \ {h} : pc'[g] = "idle"
      BY <2>0, <2>2, <2>3 DEF OneAtWork
    <3> QED
      BY <2>0, <2>3, <3>1 DEF Later
  <2>4. CASE StopGame(h)
    BY <1>3, <2>2, <2>4 DEF StopGame, EndHistory
  <2>5. CASE RefuseWord(h) \/ RejectAnswer(h) \/ RefuseMove(h) \/ HandlerFails(h)
    BY <1>2, <2>2, <2>5 DEF RefuseWord, RejectAnswer, RefuseMove, HandlerFails, sessionVars
  <2>6. CASE LoadSession(h)
    <3>1. /\ pc[h] = "load" /\ alone' = alone /\ UNCHANGED <<ctx, replies>>
          /\ pc' = [pc EXCEPT ![h] = "lookup"] /\ local' = [local EXCEPT ![h] = Attempt(ctx.ses)]
      BY <2>6 DEF LoadSession, sessionVars
    <3>2. Attempt(ctx.ses).offsets = ctx.ses.offsets
      <4>1. ctx.ses \in Sessions
        BY <1>1 DEF TypeOK
      <4>2. Attempt(ctx.ses) =
              [last |-> ctx.ses.last, used |-> ctx.ses.used, offsets |-> ctx.ses.offsets,
               all |-> ctx.ses.all + 1, user |-> ctx.ses.user + 1,
               correct |-> ctx.ses.correct]
        BY <4>1, AttemptType
      <4> QED
        BY <4>2
    <3>3. pc'[h] = "lookup" /\ local'[h] = Attempt(ctx.ses)
      BY <2>0, <3>1
    <3>4. Later(h)'
      BY <3>1, <3>2, <3>3 DEF Later
    <3> QED
      BY <1>2, <2>2, <2>3, <3>1, <3>4
  <2>7. CASE NoAnswer(h)
    <3>1. /\ pc[h] = "lookup" /\ alone' = alone /\ UNCHANGED <<ctx, replies, local>>
          /\ pc' = [pc EXCEPT ![h] = "saveAttempt"]
      BY <2>7 DEF NoAnswer, sessionVars
    <3>2. pc'[h] = "saveAttempt"
      BY <2>0, <3>1
    <3>3. Later(h)'
      BY <2>2, <3>1, <3>2 DEF Later
    <3> QED
      BY <1>2, <2>2, <2>3, <3>1, <3>3
  <2>8. CASE PlayMove(h)
    <3>1. /\ pc[h] = "lookup" /\ Answer(h) # 0 /\ alone' = alone
          /\ UNCHANGED <<dict, ctx, replies, word>>
          /\ pc' = [pc EXCEPT ![h] = "saveMove"] /\ local' = [local EXCEPT ![h] = Played(h)]
      BY <2>8 DEF PlayMove, Played, sessionVars
    <3>2. local[h].offsets = ctx.ses.offsets /\ LastLetter(word[h]) \in Letters
      BY <1>0, <2>2, <3>1 DEF Later, TypeInv, InHand, Live
    <3>3. Answer(h) > ctx.ses.offsets[LastLetter(word[h])]
      BY <1>0, <3>1, <3>2, AnswerIsARow DEF UniqueWords
    <3>4. Played(h).offsets = [ctx.ses.offsets EXCEPT ![LastLetter(word[h])] = Answer(h)]
      <4>1. CountWord(local[h]).offsets = local[h].offsets
        <5>1. CountWord(local[h]) =
                [last |-> local[h].last, used |-> local[h].used, offsets |-> local[h].offsets,
                 all |-> local[h].all + 1, user |-> local[h].user, correct |-> local[h].correct]
          BY <2>0, AttemptType
        <5> QED
          BY <5>1
      <4> QED
        BY <3>2, <4>1 DEF Played, Move
    <3>5. pc'[h] = "saveMove" /\ local'[h] = Played(h)
      BY <2>0, <3>1
    <3>6. Reply(h)' = Answer(h) /\ LastLetter(word[h])' = LastLetter(word[h])
      <4>1. Played(h).offsets[LastLetter(word[h])] = Answer(h)
        BY <1>1, <3>2, <3>4
      <4>2. LastLetter(word[h])' = LastLetter(word[h])
        BY <3>1 DEF LastLetter
      <4>3. Reply(h)' = Played(h).offsets[LastLetter(word[h])]
        BY <3>5, <4>2 DEF Reply
      <4> QED
        BY <4>1, <4>2, <4>3
    <3>7. Later(h)'
      BY <3>1, <3>3, <3>4, <3>5, <3>6 DEF Later
    <3> QED
      BY <1>2, <2>2, <2>3, <3>1, <3>7
  <2>9. CASE SaveAttempt(h)
    <3>1. /\ pc[h] = "saveAttempt" /\ Return(h) /\ ctx'.ses = local[h] /\ alone' = alone
          /\ UNCHANGED replies
      BY <2>9 DEF SaveAttempt, SaveState
    <3>2. local[h].offsets = ctx.ses.offsets
      BY <2>2, <3>1 DEF Later
    <3> QED
      BY <1>2, <2>2, <3>1, <3>2
  <2>10. CASE SaveMove(h)
    <3>1. /\ pc[h] = "saveMove" /\ Return(h) /\ ctx'.ses = local[h] /\ alone' = alone
          /\ replies' = replies \cup {Reply(h)} /\ UNCHANGED <<dict, initial>>
      BY <2>10 DEF SaveMove, SaveState, Reply
    <3>2. /\ local[h].offsets = [ctx.ses.offsets EXCEPT ![LastLetter(word[h])] = Reply(h)]
          /\ Reply(h) > ctx.ses.offsets[LastLetter(word[h])]
      BY <2>2, <3>1 DEF Later
    <3>3. /\ initial[Reply(h)] = LastLetter(word[h]) /\ LastLetter(word[h]) \in Letters
          /\ Reply(h) \in DOMAIN dict
      BY <1>0, <3>1 DEF AnswersInv, Answers, TypeInv, InHand, Live
    <3>4. \A s \in DOMAIN dict : s \in Nat
      BY <1>1 DEF TypeOK
    <3>5. ASSUME NEW s \in replies'
          PROVE  initial[s] \in Letters /\ s <= local[h].offsets[initial[s]]
      <4>1. CASE s = Reply(h)
        BY <1>1, <3>2, <3>3, <3>4, <4>1
      <4>2. CASE s \in replies
        <5>1. PICK l \in Letters : l = initial[s]
          BY <2>2, <3>1, <4>2 DEF BehindOffset
        <5>2. s <= ctx.ses.offsets[l] /\ s \in Nat /\ ctx.ses.offsets[l] \in Nat
          BY <1>1, <2>2, <3>1, <3>4, <4>2, <5>1 DEF BehindOffset
        <5>3. CASE l = LastLetter(word[h])
          <6>1. local[h].offsets[l] = Reply(h) /\ Reply(h) \in Nat
            BY <1>1, <3>2, <3>3, <3>4, <5>3
          <6> QED
            BY <3>2, <5>1, <5>2, <5>3, <6>1
        <5>4. CASE l # LastLetter(word[h])
          BY <1>1, <3>2, <5>1, <5>2, <5>4
        <5> QED
          BY <5>3, <5>4
      <4> QED
        BY <3>1, <4>1, <4>2
    <3>6. BehindOffset'
      BY <3>1, <3>5 DEF BehindOffset
    <3> QED
      BY <2>2, <3>1, <3>6
  <2> QED
    BY <1>7, <2>1, <2>4, <2>5, <2>6, <2>7, <2>8, <2>9, <2>10 DEF Handle
<1>8. ASSUME (\E row \in NewRows : AddWord(row[1], row[2])) \/ UNCHANGED vars
      PROVE  UNCHANGED <<ctx, pc, word, local, replies>> /\ alone
  BY <1>8 DEF AddWord, handlerVars, vars
<1> QED
  BY <1>5, <1>6, <1>7, <1>8 DEF Next

\* The row a move in hand answers with is none of the replies of the game.
LEMMA MoveIsNew ==
  ASSUME AloneInv, AnswersInv, BotInv, UniqueWords, alone,
         NEW h \in Handlers, pc[h] = "saveMove"
  PROVE  Reply(h) \notin replies
<1> SUFFICES ASSUME Reply(h) \in replies PROVE FALSE
  OBVIOUS
<1>1. initial[Reply(h)] = LastLetter(word[h])
  BY DEF AnswersInv, Answers
<1>2. Reply(h) <= ctx.ses.offsets[LastLetter(word[h])]
  BY <1>1 DEF BotInv, BehindOffset
<1>3. Reply(h) > ctx.ses.offsets[LastLetter(word[h])]
  BY DEF BotInv, Later
<1>4. Reply(h) \in Nat /\ ctx.ses.offsets[LastLetter(word[h])] \in Nat
  <2>1. LastLetter(word[h]) \in Letters /\ Reply(h) \in DOMAIN dict
    BY DEF AloneInv, TypeInv, InHand, Live
  <2>2. dict \in Seq(Words) /\ ctx.ses \in Sessions
    BY DEF AloneInv, TypeInv, TypeOK
  <2> QED
    BY <2>1, <2>2 DEF Sessions
<1> QED
  BY <1>2, <1>3, <1>4

BotRules == AnswersInv /\ BotInv /\ LeavesInv

LEMMA AlwaysByTheRules == Spec => []BotRules
<1>1. Init => BotRules
  BY DEF Init, BotRules, AnswersInv, Answers, BotInv, BehindOffset, Later, LeavesInv, Leaves
<1>2. TypeInv /\ AloneInv /\ BotRules /\ [Next]_vars => BotRules'
  BY AnswersStep, BotStep, LeavesStep DEF BotRules
<1> QED
  BY <1>1, <1>2, AlwaysAlone, Typed, PTL DEF Spec

\* For every table of words, first letters wrong or missing in it too, and whatever handlers
\* overlap, the bot's word leaves a letter to follow.  While no word is in the table twice, it
\* begins with the last letter of the user's if the row has the right first_letter; and while
\* messages are handled one after the other, the bot never answers twice with the same word.
THEOREM BotAlwaysPlaysByTheRules == Spec => []BotPlaysByTheRules
<1>1. ASSUME AloneInv, BotRules, NEW h \in Handlers, pc[h] = "saveMove"
      PROVE  /\ LastLetter(dict[Reply(h)]) # NoLetter
             /\ UniqueWords /\ IsTruthful(Reply(h)) =>
                  FirstLetter(dict[Reply(h)]) = LastLetter(word[h])
             /\ UniqueWords /\ alone => Reply(h) \notin replies
  <2>1. LastLetter(dict[Reply(h)]) # NoLetter
    BY <1>1 DEF BotRules, LeavesInv, Leaves
  <2>2. UniqueWords => initial[Reply(h)] = LastLetter(word[h])
    BY <1>1 DEF BotRules, AnswersInv, Answers
  <2>3. UniqueWords /\ alone => Reply(h) \notin replies
    BY <1>1, MoveIsNew DEF BotRules
  <2> QED
    BY <2>1, <2>2, <2>3 DEF IsTruthful
<1>2. AloneInv /\ BotRules => BotPlaysByTheRules
  BY <1>1 DEF BotPlaysByTheRules, Reply
<1> QED
  BY <1>2, AlwaysByTheRules, AlwaysAlone, PTL

-------------------------------------------------------------------------------
(* What is said in the chat is a game.                                      *)

\* What the game is made of changes only with a word that is said, with the key or with
\* the table.
LEMMA SameTalk ==
  ASSUME UNCHANGED <<dict, initial, accepted, replies>>
  PROVE  /\ accepted' = accepted
         /\ UniqueWords' = UniqueWords /\ TruthfulTable' = TruthfulTable
         /\ {dict[s] : s \in replies}' = {dict[s] : s \in replies}
BY DEF UniqueWords, TruthfulTable, IsTruthful, FirstLetter

\* A move that is saved is a turn of the game.
LEMMA MoveIsATurn ==
  ASSUME AloneInv, BotRules, NEW h \in Handlers, SaveMove(h)
  PROVE  Game!GameNext
<1> DEFINE w == word[h]
           r == dict[Reply(h)]
           Said == {dict[s] : s \in replies}
<1>1. /\ pc[h] = "saveMove" /\ ctx' = [state |-> "Shiritori", ses |-> local[h]]
      /\ accepted' = accepted \cup {w} /\ replies' = replies \cup {Reply(h)}
      /\ UNCHANGED <<dict, initial, alone>>
  BY DEF SaveMove, SaveState, Reply
<1>2. /\ w \in Words /\ Reply(h) \in DOMAIN dict /\ r \in Words
      /\ replies \subseteq DOMAIN dict
  <2>1. dict \in Seq(Words) /\ replies \subseteq 1 .. Len(dict)
    BY DEF AloneInv, TypeInv, TypeOK
  <2>2. w \in Words /\ Reply(h) \in DOMAIN dict
    BY <1>1 DEF AloneInv, TypeInv, InHand, Live
  <2> QED
    BY <2>1, <2>2
<1>3. ASSUME alone
      PROVE  /\ ctx.state = "Shiritori" /\ w \notin accepted \cup Said
             /\ ctx.ses.last \in {NoLetter, FirstLetter(w)}
  BY <1>1, <1>3 DEF AloneInv, InStep, Remembers, Follows
<1>4. ASSUME UniqueWords, TruthfulTable PROVE FirstLetter(r) = LastLetter(w)
  <2>1. initial[Reply(h)] = LastLetter(w)
    BY <1>1, <1>4 DEF BotRules, AnswersInv, Answers
  <2> QED
    BY <1>2, <1>4, <2>1 DEF TruthfulTable, IsTruthful
<1>5. ASSUME UniqueWords, alone PROVE r \notin Said
  <2>1. Reply(h) \notin replies
    BY <1>1, <1>5, MoveIsNew DEF BotRules
  <2> QED
    BY <1>2, <1>5, <2>1 DEF UniqueWords
<1>6. ctx'.ses.last = LastLetter(r) /\ LastLetter(r) # NoLetter
  BY <1>1 DEF BotRules, LeavesInv, Leaves
<1>7. /\ {dict[s] : s \in replies}' = Said \cup {r}
      /\ UniqueWords' = UniqueWords /\ TruthfulTable' = TruthfulTable
  BY <1>1 DEF UniqueWords, TruthfulTable, IsTruthful, FirstLetter
<1>8. \E v, t \in Words : v = w /\ t = r
  BY <1>2
<1> HIDE DEF w, r
<1>9. PICK v, t \in Words : v = w /\ t = r
  BY <1>8
<1>10. Game!Turn(v, t)
  BY <1>1, <1>3, <1>4, <1>5, <1>6, <1>7, <1>9 DEF Game!Turn, Game!tableVars
<1> QED
  BY <1>10 DEF Game!GameNext

\* For every table of words, unique or not and with any first letters, the handlers implement
\* the game, whose turns ask for what the table of that moment allows: a session is started,
\* ended and moved on in single steps of the key; reading it, looking words up, refusing and
\* failing are stutters, as is counting an attempt while messages are handled one after the
\* other.
THEOREM HandlersImplementGame == Spec => ImplementsGame
<1> DEFINE Inv == AloneInv /\ BotRules
<1>1. Init => Game!GameInit
  BY DEF Init, NewSession, Game!GameInit
<1>2. Inv /\ [Next]_vars => [Game!GameNext]_(Game!gameVars)
  <2> SUFFICES ASSUME Inv, [Next]_vars PROVE [Game!GameNext]_(Game!gameVars)
    OBVIOUS
  <2>1. ASSUME UNCHANGED <<dict, initial, ctx, accepted, replies>>
        PROVE  /\ UNCHANGED <<Game!talkVars, ctx.state = "Shiritori", Game!tableVars>>
               /\ UNCHANGED alone => UNCHANGED Game!gameVars
    BY <2>1, SameTalk DEF Game!gameVars, Game!talkVars, Game!tableVars
  <2>2. CASE StartGame
    <3>1. ctx'.state = "Shiritori" /\ ctx'.ses.last = NoLetter
      BY <2>2 DEF StartGame, NewSession
    <3>2. accepted' = {} /\ {dict[s] : s \in replies}' = {} /\ alone' \in BOOLEAN
      BY <2>2 DEF StartGame, EndHistory
    <3>3. UNCHANGED Game!tableVars
      BY <2>2 DEF StartGame, UniqueWords, TruthfulTable, IsTruthful, FirstLetter, Game!tableVars
    <3> QED
      BY <3>1, <3>2, <3>3 DEF Game!GameNext, Game!Start, Game!Blank
  <2>3. CASE Expire \/ \E h \in Handlers : StopGame(h)
    <3>1. ctx' = [state |-> "None", ses |-> NewSession]
      BY <2>3 DEF Expire, StopGame
    <3>2. ctx'.state # "Shiritori" /\ ctx'.ses.last = NoLetter
      BY <3>1 DEF NewSession
    <3>3. accepted' = {} /\ {dict[s] : s \in replies}' = {}
      <4>1. accepted' = {} /\ replies' = {}
        BY <2>3 DEF Expire, StopGame, EndHistory
      <4> QED
        BY <4>1
    <3>4. UNCHANGED Game!tableVars
      <4>1. UNCHANGED <<dict, initial>>
        BY <2>3 DEF Expire, StopGame
      <4> QED
        BY <4>1 DEF UniqueWords, TruthfulTable, IsTruthful, FirstLetter, Game!tableVars
    <3>5. alone' => alone
      BY <2>3 DEF Expire, StopGame
    <3> QED
      BY <3>2, <3>3, <3>4, <3>5 DEF Game!GameNext, Game!End, Game!Blank
  <2>4. ASSUME NEW row \in NewRows, AddWord(row[1], row[2]) PROVE Game!GameNext
    <3>1. UNCHANGED <<ctx, accepted, replies, alone>>
      BY <2>4 DEF AddWord
    <3>2. \A s \in replies : dict'[s] = dict[s]
      <4>1. replies \subseteq DOMAIN dict
        BY DEF AloneInv, TypeInv, TypeOK
      <4> QED
        BY <4>1, TableGrows DEF AloneInv
    <3>3. {dict[s] : s \in replies}' = {dict[s] : s \in replies}
      BY <3>1, <3>2
    <3>4. (UniqueWords' => UniqueWords) /\ (TruthfulTable' => TruthfulTable)
      BY TableGrows DEF AloneInv
    <3> QED
      BY <3>1, <3>3, <3>4 DEF Game!GameNext, Game!AddWord, Game!talkVars
  <2>5. ASSUME NEW h \in Handlers, NEW w \in Words \cup {Stop}, Receive(h, w)
        PROVE  [Game!GameNext]_(Game!gameVars)
    <3>1. UNCHANGED <<dict, initial, ctx, accepted, replies>> /\ (alone' = alone \/ ~alone')
      BY <2>5 DEF Receive, sessionVars, AloneInv, TypeInv, TypeOK
    <3> QED
      BY <2>1, <3>1 DEF Game!GameNext, Game!Meet, Game!tableVars
  <2>6. ASSUME NEW h \in Handlers,
               \/ RefuseWord(h) \/ LoadSession(h) \/ NoAnswer(h)
               \/ RejectAnswer(h) \/ RefuseMove(h) \/ PlayMove(h) \/ HandlerFails(h)
        PROVE  UNCHANGED Game!gameVars
    <3>1. UNCHANGED <<dict, initial, ctx, accepted, replies, alone>>
      BY <2>6 DEF RefuseWord, LoadSession, NoAnswer, RejectAnswer, RefuseMove, PlayMove,
         HandlerFails, sessionVars
    <3> QED
      BY <2>1, <3>1
  <2>7. ASSUME NEW h \in Handlers, SaveAttempt(h) PROVE [Game!GameNext]_(Game!gameVars)
    <3>1. /\ pc[h] = "saveAttempt" /\ ctx' = [state |-> "Shiritori", ses |-> local[h]]
          /\ UNCHANGED <<dict, initial, accepted, replies, alone>>
      BY <2>7 DEF SaveAttempt, SaveState
    <3>2. ctx'.state = "Shiritori" /\ ctx'.ses.last = local[h].last
      BY <3>1
    <3>3. CASE alone
      <4>1. ctx.state = "Shiritori" /\ local[h].last = ctx.ses.last
        BY <3>1, <3>3 DEF AloneInv, InStep
      <4> QED
        BY <3>1, <3>2, <4>1, SameTalk DEF Game!gameVars, Game!talkVars, Game!tableVars
    <3>4. CASE ~alone
      BY <3>1, <3>2, <3>4, SameTalk DEF Game!GameNext, Game!GoBack, Game!tableVars
    <3> QED
      BY <3>3, <3>4
  <2>8. ASSUME NEW h \in Handlers, SaveMove(h) PROVE Game!GameNext
    BY <2>8, MoveIsATurn
  <2>9. CASE UNCHANGED vars
    BY <2>1, <2>9 DEF vars
  <2> QED
    BY <2>2, <2>3, <2>4, <2>5, <2>6, <2>7, <2>8, <2>9 DEF Next, Handle
<1>3. Spec => []Inv
  BY AlwaysAlone, AlwaysByTheRules, PTL
<1> QED
  BY <1>1, <1>2, <1>3, PTL DEF Spec, ImplementsGame, Game!GameSpec
===============================================================================
