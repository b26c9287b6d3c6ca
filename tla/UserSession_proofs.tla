-------------------------- MODULE UserSession_proofs --------------------------
(***************************************************************************)
(* What UserSession guarantees for every set of messages, every number of    *)
(* handlers of one user and every number of messages.                        *)
(***************************************************************************)
EXTENDS UserSession, TLAPS

USE MessagesAssumption

-------------------------------------------------------------------------------
(* What the tables of states hold.                                           *)

LEMMA ButtonStates ==
  /\ DOMAIN ButtonState = {"Chatting", "SystemPrompt", "LanguageLevel"}
  /\ \A m \in DOMAIN ButtonState :
       ButtonState[m] \in {"AiSetting", "SetSysPrompt", "SetLangLevel"}
BY DEF ButtonState

LEMMA ModeStates ==
  /\ DOMAIN ModeState = {"UseTTS", "UseSTT", "UseSTTAndTTS", "UseTTT"}
  /\ \A m \in DOMAIN ModeState : ModeState[m] \in {"TTS", "STT", "STTandTTS", "TTT"}
BY DEF ModeState

LEMMA CommandStates ==
  /\ AdminCommands = {"tasks_add", "task_del", "words_add", "word_del"}
  /\ AdminStates = {"TaskAdding", "TaskDeleting", "WordAdding", "WordDeleting"}
  /\ \A m \in AdminCommands : AdminState[m] \in AdminStates
BY DEF AdminState, AdminStates, AdminCommands

\* What is written into the key.
LEMMA JsonType ==
  NoData \in Json /\ GameData \in Json /\ ChatData \in Json /\ \A n \in Int : TaskData(n) \in Json
BY DEF NoData, GameData, ChatData, TaskData, Json

-------------------------------------------------------------------------------
(* Types.                                                                    *)

Texts == Messages \cup {"text"}
Locs == [first : Int, counter : Int, add : {-1, 0, 1}]

\* A handler is where its message takes it.
Fits(step, m) ==
  /\ step \in {"learn", "giveTask"} => m = "Learning"
  /\ step = "startGame" => m = "Shiritori"
  /\ step = "button" => m \in DOMAIN ButtonState
  /\ step = "mode" => m \in DOMAIN ModeState

HandlerType ==
  /\ pc \in [Handlers -> Steps] /\ msg \in [Handlers -> Texts] /\ loc \in [Handlers -> Locs]
  /\ \A h \in Handlers : (loc[h].add # 0 <=> pc[h] \in Answering) /\ Fits(pc[h], msg[h])

KeyType == ctx \in [state : States, json : Json] /\ balance \in Int

OtherType == admin \in BOOLEAN /\ messages \in Nat /\ open \in BOOLEAN /\ clean \in BOOLEAN

TypeInv == HandlerType /\ KeyType /\ OtherType

\* The handler h goes to a step, with a message and what it read.
Moves(h, step, m, l) ==
  /\ pc' = [pc EXCEPT ![h] = step] /\ msg' = [msg EXCEPT ![h] = m]
  /\ loc' = [loc EXCEPT ![h] = l]

LEMMA MoveType ==
  ASSUME HandlerType, NEW h \in Handlers, NEW step \in Steps, NEW m \in Texts, NEW l \in Locs,
         Moves(h, step, m, l), Fits(step, m), l.add # 0 <=> step \in Answering
  PROVE  HandlerType'
BY DEF HandlerType, Moves

LEMMA ReturnMoves ==
  ASSUME HandlerType, NEW h \in Handlers, Return(h)
  PROVE  Moves(h, "idle", "text", NothingRead) /\ HandlerType'
<1>1. Moves(h, "idle", "text", NothingRead)
  BY DEF Return, Moves
<1>2. /\ "idle" \in Steps /\ "text" \in Texts /\ NothingRead \in Locs /\ Fits("idle", "text")
      /\ NothingRead.add # 0 <=> "idle" \in Answering
  BY DEF Steps, Texts, NothingRead, Locs, Fits, Answering
<1> QED
  BY <1>1, <1>2, MoveType

LEMMA GotoMoves ==
  ASSUME HandlerType, NEW h \in Handlers, NEW step \in Steps, Goto(h, step),
         step \in Answering <=> pc[h] \in Answering, Fits(step, msg[h])
  PROVE  Moves(h, step, msg[h], loc[h]) /\ HandlerType'
<1>1. msg[h] \in Texts /\ loc[h] \in Locs /\ (loc[h].add # 0 <=> step \in Answering)
  BY DEF HandlerType
<1>2. Moves(h, step, msg[h], loc[h])
  BY DEF Goto, Moves, HandlerType
<1> QED
  BY <1>1, <1>2, MoveType

\* The commands of Redis keep the type of the key.
LEMMA WriteType ==
  ASSUME KeyType, NEW state \in States, NEW json \in Json
  PROVE  /\ SetUserCtx(state, json) => KeyType'
         /\ UpdUserStateCtx(state) => KeyType'
         /\ UpdateUserDataCtx(json) => KeyType'
BY DEF KeyType, SetUserCtx, UpdUserStateCtx, UpdateUserDataCtx, KeepBalance

LEMMA QuietType == ASSUME KeyType, OtherType, Quiet PROVE KeyType' /\ OtherType'
BY DEF KeyType, OtherType, Quiet, historyVars

\* The writes that end a handler.
LEMMA WrittenType ==
  ASSUME TypeInv, NEW h \in Handlers, Written(h), KeyType'
  PROVE  TypeInv'
BY ReturnMoves DEF Written, TypeInv, OtherType

LEMMA ReceiveType ==
  ASSUME TypeInv, NEW h \in Handlers, NEW m \in Messages, Receive(h, m)
  PROVE  TypeInv'
<1>1. pc[h] = "idle" /\ Moves(h, FirstStep(m), m, loc[h])
  BY DEF Receive, Moves, TypeInv, HandlerType
<1>2. FirstStep(m) \in Steps \ Answering /\ Fits(FirstStep(m), m)
  BY ButtonStates DEF FirstStep, Steps, Answering, Fits
<1>3. m \in Texts /\ loc[h] \in Locs /\ loc[h].add = 0
  BY <1>1 DEF TypeInv, HandlerType, Texts, Answering
<1>4. HandlerType'
  BY <1>1, <1>2, <1>3, MoveType DEF TypeInv
<1>5. KeyType' /\ OtherType'
  BY DEF Receive, TypeInv, KeyType, OtherType, historyVars
<1> QED
  BY <1>4, <1>5 DEF TypeInv

LEMMA PressType ==
  ASSUME TypeInv, NEW h \in Handlers, Press(h)
  PROVE  TypeInv'
<1> USE JsonType DEF TypeInv
<1>1. CASE ReadForTask(h)
  <2> DEFINE l == [loc[h] EXCEPT !.counter = CounterIn(ctx.json)]
  <2>1. pc[h] = "learn" /\ Moves(h, "giveTask", msg[h], l)
    BY <1>1 DEF ReadForTask, Moves, HandlerType
  <2>2. l \in Locs /\ l.add = 0 /\ Fits("giveTask", msg[h]) /\ msg[h] \in Texts
    BY <2>1 DEF HandlerType, KeyType, Json, CounterIn, Locs, Fits, Answering
  <2>3. "giveTask" \in Steps \ Answering
    BY DEF Steps, Answering
  <2>4. HandlerType'
    <3> HIDE DEF l
    <3> QED
      BY <2>1, <2>2, <2>3, MoveType
  <2> QED
    BY <1>1, <2>4, QuietType DEF ReadForTask
<1>2. CASE GiveTask(h)
  <2>1. loc[h].counter \in Int /\ "TaskLearning" \in States
    BY DEF HandlerType, Locs, States
  <2>2. KeyType'
    BY <1>2, <2>1, WriteType DEF GiveTask
  <2> QED
    BY <1>2, <2>2, ReturnMoves DEF GiveTask, OtherType
<1>3. CASE StartGame(h)
  BY <1>3, WriteType, WrittenType DEF StartGame, States
<1>4. CASE PressButton(h)
  <2>1. ButtonState[msg[h]] \in States
    BY <1>4, ButtonStates DEF PressButton, HandlerType, Fits, States
  <2> QED
    BY <1>4, <2>1, WriteType, WrittenType DEF PressButton
<1> QED
  BY <1>1, <1>2, <1>3, <1>4 DEF Press

LEMMA AdministerType ==
  ASSUME TypeInv, NEW h \in Handlers, Administer(h)
  PROVE  TypeInv'
<1> USE JsonType DEF TypeInv
<1>1. CASE AdminCommand(h)
  <2>1. AdminState[msg[h]] \in States
    BY <1>1, CommandStates DEF AdminCommand, States
  <2>2. KeyType'
    BY <1>1, <2>1, WriteType DEF AdminCommand
  <2>3. CASE Written(h)
    BY <2>2, <2>3, WrittenType
  <2>4. CASE Goto(h, "state") /\ UNCHANGED <<admin, messages, open, clean>>
    <3>1. "state" \in Steps \ Answering /\ Fits("state", msg[h]) /\ pc[h] \notin Answering
      BY <1>1 DEF Steps, Answering, Fits, AdminCommand
    <3> QED
      BY <2>2, <2>4, <3>1, GotoMoves DEF OtherType
  <2> QED
    BY <1>1, <2>3, <2>4 DEF AdminCommand, AfterCommand
<1>2. CASE AdminText(h)
  <2>1. PICK step \in {"adminCall", "state"} : Goto(h, step)
    BY <1>2 DEF AdminText
  <2>2. step \in Steps \ Answering /\ Fits(step, msg[h]) /\ pc[h] \notin Answering
    BY <1>2 DEF Steps, Answering, Fits, AdminText
  <2> QED
    BY <1>2, <2>1, <2>2, GotoMoves, QuietType DEF AdminText
<1>3. CASE AdminCall(h)
  BY <1>3, WriteType, WrittenType DEF AdminCall, States
<1>4. CASE AdminFails(h)
  <2>1. "state" \in Steps \ Answering /\ Fits("state", msg[h]) /\ pc[h] \notin Answering
    BY <1>4 DEF Steps, Answering, Fits, AdminFails
  <2> QED
    BY <1>4, <2>1, GotoMoves, QuietType DEF AdminFails
<1> QED
  BY <1>1, <1>2, <1>3, <1>4 DEF Administer

LEMMA HandleStateType ==
  ASSUME TypeInv, NEW h \in Handlers, HandleState(h)
  PROVE  TypeInv'
<1> USE DEF TypeInv
<1>1. CASE TakeAnswer(h)
  <2>1. PICK add \in {-1, 1} :
          loc' = [loc EXCEPT ![h] = [@ EXCEPT !.first = CounterIn(ctx.json), !.add = add]]
    BY <1>1 DEF TakeAnswer
  <2> DEFINE l == [loc[h] EXCEPT !.first = CounterIn(ctx.json), !.add = add]
  <2>2. Moves(h, "readScore", msg[h], l)
    BY <1>1, <2>1 DEF TakeAnswer, Moves, HandlerType
  <2>3. l \in Locs /\ l.add # 0 /\ msg[h] \in Texts /\ Fits("readScore", msg[h])
    <3>1. loc[h] \in Locs /\ ctx.json.counter \in Int /\ msg[h] \in Texts
      BY DEF HandlerType, KeyType, Json
    <3>2. l \in Locs /\ l.add = add
      BY <3>1 DEF CounterIn, Locs
    <3> QED
      BY <3>1, <3>2 DEF Fits
  <2>4. "readScore" \in Steps \cap Answering
    BY DEF Steps, Answering
  <2>5. HandlerType'
    <3> HIDE DEF l
    <3> QED
      BY <2>2, <2>3, <2>4, MoveType
  <2> QED
    BY <1>1, <2>5, QuietType DEF TakeAnswer
<1>2. CASE RejectMessage(h)
  BY <1>2, ReturnMoves, QuietType DEF RejectMessage
<1>3. ASSUME NEW step \in {"game", "mode", "reset", "resetAndTalk", "readChat"},
             pc[h] = "state", Goto(h, step), Quiet, step = "mode" => msg[h] \in DOMAIN ModeState
      PROVE  TypeInv'
  <2>1. step \in Steps \ Answering /\ Fits(step, msg[h]) /\ pc[h] \notin Answering
    BY <1>3 DEF Steps, Answering, Fits
  <2> QED
    BY <1>3, <2>1, GotoMoves, QuietType
<1>4. CASE ContinueGame(h)
  BY <1>3, <1>4 DEF ContinueGame
<1>5. CASE ChooseMode(h)
  BY <1>3, <1>5 DEF ChooseMode
<1>6. CASE ResetState(h)
  BY <1>3, <1>6 DEF ResetState
<1>7. CASE StopSpeech(h)
  BY <1>3, <1>7 DEF StopSpeech
<1>8. CASE TalkToAI(h)
  BY <1>3, <1>8 DEF TalkToAI
<1> QED
  BY <1>1, <1>2, <1>4, <1>5, <1>6, <1>7, <1>8 DEF HandleState

LEMMA ProceedType ==
  ASSUME TypeInv, NEW h \in Handlers, Proceed(h)
  PROVE  TypeInv'
<1> USE JsonType DEF TypeInv
<1>1. /\ loc[h] \in Locs /\ msg[h] \in Texts /\ loc[h].counter \in Int /\ loc[h].add \in Int
      /\ loc[h].first \in Int /\ ctx.json.counter \in Int /\ balance \in Int
  BY DEF HandlerType, KeyType, Json, Locs
<1>2. CASE ReadScore(h) \/ ReadScoreAgain(h)
  <2> DEFINE l == [loc[h] EXCEPT !.counter = CounterIn(ctx.json) + loc[h].add]
  <2>1. PICK step \in {"writeScore", "endTask"} : Moves(h, step, msg[h], l) /\ Quiet
    BY <1>2 DEF ReadScore, ReadScoreAgain, Moves, HandlerType
  <2>2. l \in Locs /\ l.add = loc[h].add
    BY <1>1 DEF CounterIn, Locs
  <2>3. step \in Steps /\ step \in Answering /\ Fits(step, msg[h]) /\ pc[h] \in Answering
    BY <1>2 DEF Steps, Answering, Fits, ReadScore, ReadScoreAgain
  <2>4. HandlerType'
    <3>1. loc[h].add # 0
      BY <2>3 DEF HandlerType
    <3> HIDE DEF l
    <3> QED
      BY <1>1, <2>1, <2>2, <2>3, <3>1, MoveType
  <2> QED
    BY <2>1, <2>4, QuietType
<1>3. CASE WriteScore(h)
  <2>1. KeyType'
    BY <1>1, <1>3, WriteType DEF WriteScore, States
  <2>2. "publish" \in Steps /\ "publish" \in Answering /\ Fits("publish", msg[h])
    BY DEF Steps, Answering, Fits
  <2>3. pc[h] \in Answering
    BY <1>3 DEF Answering, WriteScore
  <2> QED
    BY <1>3, <2>1, <2>2, <2>3, GotoMoves DEF WriteScore, OtherType
<1>4. CASE Publish(h)
  <2>1. KeyType'
    BY <1>1, <1>4 DEF Publish, KeyType
  <2>2. /\ "readScoreAgain" \in Steps /\ "readScoreAgain" \in Answering
        /\ Fits("readScoreAgain", msg[h]) /\ pc[h] \in Answering
    BY <1>4 DEF Steps, Answering, Fits, Publish
  <2> QED
    BY <1>4, <2>1, <2>2, GotoMoves DEF Publish, OtherType
<1>5. CASE EndTask(h) \/ SaveGame(h) \/ Reset(h)
  BY <1>1, <1>5, WriteType, WrittenType DEF EndTask, SaveGame, Reset, States
<1>6. CASE SetMode(h)
  <2>1. ModeState[msg[h]] \in States
    BY <1>6, ModeStates DEF SetMode, HandlerType, Fits, States
  <2> QED
    BY <1>6, <2>1, WriteType, WrittenType DEF SetMode
<1>7. CASE SaveChat(h)
  BY <1>7, WriteType, WrittenType DEF SaveChat, States
<1>8. CASE ResetAndTalk(h)
  <2>1. KeyType'
    BY <1>8, WriteType DEF ResetAndTalk, States
  <2>2. /\ "readChat" \in Steps /\ "readChat" \notin Answering
        /\ Fits("readChat", msg[h]) /\ pc[h] \notin Answering
    BY <1>8 DEF Steps, Answering, Fits, ResetAndTalk
  <2> QED
    BY <1>8, <2>1, <2>2, GotoMoves DEF ResetAndTalk, OtherType
<1>9. ASSUME NEW step \in {"reset", "saveGame", "saveChat"},
             pc[h] \notin Answering, Goto(h, step), Quiet
      PROVE  TypeInv'
  <2>1. step \in Steps \ Answering /\ Fits(step, msg[h])
    BY DEF Steps, Answering, Fits
  <2> QED
    BY <1>9, <2>1, GotoMoves, QuietType
<1>10. ASSUME Return(h), Quiet PROVE TypeInv'
  BY <1>10, ReturnMoves, QuietType
<1>11. CASE ReadGame(h) \/ ReadChat(h) \/ Fails(h)
  BY <1>9, <1>10, <1>11 DEF ReadGame, ReadChat, Fails, Answering
<1>12. CASE ScoreFails(h)
  <2>1. KeyType' /\ OtherType'
    BY <1>12 DEF ScoreFails, KeyType, OtherType, historyVars
  <2>2. CASE Return(h)
    BY <2>1, <2>2, ReturnMoves
  <2>3. CASE Goto(h, "publish") /\ pc[h] \in {"readScore", "writeScore"}
    <3>1. /\ "publish" \in Steps /\ "publish" \in Answering /\ Fits("publish", msg[h])
          /\ pc[h] \in Answering
      BY <2>3 DEF Steps, Answering, Fits
    <3> QED
      BY <2>1, <2>3, <3>1, GotoMoves
  <2> QED
    BY <1>12, <2>2, <2>3 DEF ScoreFails
<1> QED
  BY <1>2, <1>3, <1>4, <1>5, <1>6, <1>7, <1>8, <1>11, <1>12 DEF Proceed

LEMMA InitialType == Init => TypeInv
<1> SUFFICES ASSUME Init PROVE TypeInv
  OBVIOUS
<1>1. /\ "idle" \in Steps /\ "text" \in Texts /\ NothingRead \in Locs /\ Fits("idle", "text")
      /\ NothingRead.add # 0 <=> "idle" \in Answering
  BY DEF Steps, Texts, NothingRead, Locs, Fits, Answering
<1>2. HandlerType
  BY <1>1 DEF Init, HandlerType
<1>3. KeyType
  <2>1. ctx = [state |-> "None", json |-> NoData] /\ balance = 0
    BY DEF Init
  <2>2. "None" \in States
    BY DEF States
  <2> QED
    BY <2>1, <2>2, JsonType DEF KeyType
<1>4. OtherType
  BY DEF Init, OtherType
<1> QED
  BY <1>2, <1>3, <1>4 DEF TypeInv

LEMMA NextType == TypeInv /\ [Next]_vars => TypeInv'
<1> SUFFICES ASSUME TypeInv, [Next]_vars PROVE TypeInv'
  OBVIOUS
<1>1. CASE Expire
  <2>1. KeyType'
    BY <1>1, WriteType, JsonType DEF Expire, TypeInv, States
  <2>2. HandlerType' /\ OtherType'
    BY <1>1 DEF Expire, TypeInv, HandlerType, OtherType, handlerVars
  <2> QED
    BY <2>1, <2>2 DEF TypeInv
<1>2. CASE UNCHANGED vars
  BY <1>2 DEF vars, TypeInv, HandlerType, KeyType, OtherType
<1>3. ASSUME NEW h \in Handlers, Handle(h) PROVE TypeInv'
  BY <1>3, ReceiveType, PressType, AdministerType, HandleStateType, ProceedType DEF Handle
<1> QED
  BY <1>1, <1>2, <1>3 DEF Next

-------------------------------------------------------------------------------
(* An answer is never awaited without a task, whatever overlaps.             *)

\* However the handlers of two messages interleave, a user in StateTaskLearning has
\* data that handleState can unmarshal (user.go:58-63); otherwise every answer would
\* fail, until the key expires.
AnswerHasTask == ctx.state = "TaskLearning" => ctx.json.kind # "empty"

LEMMA AnswerStep == TypeInv /\ AnswerHasTask /\ [Next]_vars => AnswerHasTask'
<1> SUFFICES ASSUME TypeInv, AnswerHasTask, [Next]_vars PROVE AnswerHasTask'
  OBVIOUS
<1>1. CASE ctx' = ctx
  BY <1>1 DEF AnswerHasTask
<1>2. ASSUME NEW state, NEW json, SetUserCtx(state, json),
             state # "TaskLearning" \/ json.kind # "empty"
      PROVE  AnswerHasTask'
  BY <1>2 DEF SetUserCtx, AnswerHasTask
<1>3. ASSUME NEW state, UpdUserStateCtx(state), state # "TaskLearning" PROVE AnswerHasTask'
  BY <1>3 DEF UpdUserStateCtx, AnswerHasTask, TypeInv, KeyType
<1>4. ASSUME UpdateUserDataCtx(ChatData) PROVE AnswerHasTask'
  BY <1>4 DEF UpdateUserDataCtx, AnswerHasTask, TypeInv, KeyType, ChatData
<1>5. \A n : TaskData(n).kind # "empty"
  BY DEF TaskData
<1>6. CASE Expire
  BY <1>2, <1>6 DEF Expire
<1>7. ASSUME NEW h \in Handlers, Press(h) PROVE AnswerHasTask'
  <2>1. pc[h] = "button" => ButtonState[msg[h]] # "TaskLearning"
    BY ButtonStates DEF TypeInv, HandlerType, Fits
  <2> QED
    BY <1>1, <1>2, <1>3, <1>5, <1>7, <2>1
    DEF Press, ReadForTask, GiveTask, StartGame, PressButton, Quiet
<1>8. ASSUME NEW h \in Handlers, Administer(h) PROVE AnswerHasTask'
  <2>1. msg[h] \in AdminCommands => AdminState[msg[h]] # "TaskLearning"
    BY CommandStates
  <2> QED
    BY <1>1, <1>2, <1>8, <2>1
    DEF Administer, AdminCommand, AdminText, AdminCall, AdminFails, Quiet
<1>9. ASSUME NEW h \in Handlers, Proceed(h) PROVE AnswerHasTask'
  <2>1. pc[h] = "mode" => ModeState[msg[h]] # "TaskLearning"
    BY ModeStates DEF TypeInv, HandlerType, Fits
  <2> QED
    BY <1>1, <1>2, <1>3, <1>4, <1>5, <1>9, <2>1
    DEF Proceed, ReadScore, WriteScore, Publish, ReadScoreAgain, EndTask, ReadGame, SaveGame,
        SetMode, Reset, ResetAndTalk, ReadChat, SaveChat, Fails, ScoreFails, Quiet
<1>10. ASSUME NEW h \in Handlers, HandleState(h) PROVE ctx' = ctx
  BY <1>10 DEF HandleState, TakeAnswer, RejectMessage, ContinueGame, ChooseMode, ResetState,
     StopSpeech, TalkToAI, Quiet
<1>11. ASSUME NEW h \in Handlers, NEW m \in Messages, Receive(h, m) PROVE ctx' = ctx
  BY <1>11 DEF Receive
<1>12. CASE UNCHANGED vars
  BY <1>1, <1>12 DEF vars
<1> QED
  BY <1>1, <1>6, <1>7, <1>8, <1>9, <1>10, <1>11, <1>12 DEF Next, Handle

-------------------------------------------------------------------------------
(* What holds as long as no two messages are handled at a time.              *)

\* The data are those of the feature the state belongs to.
JsonFits ==
  /\ ctx.state = "TaskLearning" => ctx.json.kind = "task"
  /\ ctx.state = "Shiritori" => ctx.json.kind \in {"empty", "game"}
  /\ ctx.state \in AdminStates => ctx.json.kind = "empty"

\* Between two answers the counter is twice the balance, and a task is open.
Rest == ctx.json.counter = 2 * balance /\ (ctx.state = "TaskLearning" => open)

\* What a handler that read l may rely on before a step.
InHand(step, l) ==
  /\ step \in {"game", "saveGame"} => ctx.state = "Shiritori"
  /\ step \in {"readChat", "saveChat"} => ctx.state \in {"TTT", "TTS", "STTandTTS", "None"}
  /\ step = "giveTask" => l.counter = ctx.json.counter
  /\ step \in Answering => ctx.state = "TaskLearning" /\ ctx.json.kind = "task"
  /\ step \in {"readScore", "writeScore", "publish"} => l.first = 2 * balance /\ open
  /\ step = "writeScore" => l.counter = 2 * balance + l.add
  /\ step = "publish" => ctx.json.counter = 2 * balance + l.add
  /\ step \in {"readScoreAgain", "endTask"} => ctx.json.counter = 2 * balance - l.add
  /\ step = "endTask" => l.counter = 2 * balance
  /\ step \notin {"publish", "readScoreAgain", "endTask"} => Rest

CleanInv ==
  clean =>
    /\ JsonFits
    /\ \A g, h \in Handlers : pc[g] # "idle" /\ pc[h] # "idle" => g = h
    /\ \A h \in Handlers : pc[h] # "idle" => InHand(pc[h], loc[h])
    /\ (\A h \in Handlers : pc[h] = "idle") => Rest

\* The one handler at work goes to a step, or returns.
LEMMA CleanMove ==
  ASSUME TypeInv, CleanInv, NEW h \in Handlers, pc[h] # "idle", NEW step, NEW m, NEW l,
         Moves(h, step, m, l), clean' => clean /\ JsonFits' /\ InHand(step, l)'
  PROVE  CleanInv'
<1> SUFFICES ASSUME clean' PROVE CleanInv'
  BY DEF CleanInv
<1>1. pc'[h] = step /\ loc'[h] = l
  BY DEF Moves, TypeInv, HandlerType
<1>2. \A g \in Handlers : g # h => pc'[g] = "idle"
  BY DEF Moves, TypeInv, HandlerType, CleanInv
<1>3. \A g \in Handlers : pc'[g] # "idle" => InHand(pc[g], loc[g])'
  <2>1. InHand(pc[h], loc[h])'
    BY <1>1 DEF InHand
  <2> QED
    BY <1>2, <2>1
<1>4. (\A g \in Handlers : pc'[g] = "idle") => Rest'
  BY <1>1 DEF InHand
<1> QED
  BY <1>2, <1>3, <1>4 DEF CleanInv

LEMMA CleanReturn ==
  ASSUME TypeInv, CleanInv, NEW h \in Handlers, pc[h] # "idle", Return(h),
         clean' => clean /\ JsonFits' /\ Rest'
  PROVE  CleanInv'
<1>1. Moves(h, "idle", "text", NothingRead)
  BY ReturnMoves DEF TypeInv
<1>2. Rest' => InHand("idle", NothingRead)'
  BY DEF InHand, Answering
<1> QED
  BY <1>1, <1>2, CleanMove

LEMMA CleanGoto ==
  ASSUME TypeInv, CleanInv, NEW h \in Handlers, pc[h] # "idle", NEW step, Goto(h, step),
         NEW l, l = loc[h], clean' => clean /\ JsonFits' /\ InHand(step, l)'
  PROVE  CleanInv'
<1>1. Moves(h, step, msg[h], l)
  BY DEF Moves, Goto, TypeInv, HandlerType
<1> QED
  BY <1>1, CleanMove

\* The handler at work relies on what it has in hand.
LEMMA CleanHand ==
  ASSUME CleanInv, clean, NEW h \in Handlers, pc[h] # "idle"
  PROVE  JsonFits /\ InHand(pc[h], loc[h])
BY DEF CleanInv

LEMMA QuietClean ==
  ASSUME CleanInv, Quiet, clean'
  PROVE  clean /\ JsonFits' /\ (Rest => Rest')
BY DEF CleanInv, Quiet, JsonFits, Rest, historyVars

\* A handler that wrote data of no task returns.
LEMMA ResetClean ==
  ASSUME NEW state, NEW json \in {NoData, GameData}, SetUserCtx(state, json),
         state # "TaskLearning", state = "Shiritori" \/ json = NoData
  PROVE  JsonFits' /\ Rest'
BY CommandStates DEF SetUserCtx, KeepBalance, JsonFits, Rest, NoData, GameData

\* ... or data of a task.
LEMMA TaskClean ==
  ASSUME NEW state \in {"None", "TaskLearning"}, NEW n \in Int,
         SetUserCtx(state, TaskData(n))
  PROVE  /\ JsonFits' /\ ctx'.state = state /\ ctx'.json.counter = n /\ ctx'.json.kind = "task"
         /\ balance' = balance
BY CommandStates DEF SetUserCtx, KeepBalance, JsonFits, TaskData

\* A state without data of its own is set.
LEMMA StateClean ==
  ASSUME TypeInv, JsonFits, Rest, NEW state, UpdUserStateCtx(state), open' = open,
         state \notin {"TaskLearning", "Shiritori"} \cup AdminStates
  PROVE  JsonFits' /\ Rest'
BY DEF UpdUserStateCtx, TypeInv, KeyType, JsonFits, Rest

LEMMA ReceiveClean ==
  ASSUME TypeInv, CleanInv, NEW h \in Handlers, NEW m \in Messages, Receive(h, m)
  PROVE  CleanInv'
<1> SUFFICES ASSUME clean' PROVE CleanInv'
  BY DEF CleanInv
<1>1. clean /\ \A g \in Handlers : pc[g] = "idle"
  BY DEF Receive, Busy
<1>2. JsonFits' /\ Rest'
  BY <1>1 DEF CleanInv, Receive, JsonFits, Rest, historyVars
<1>3. \A g \in Handlers : g # h => pc'[g] = "idle"
  BY <1>1 DEF Receive, TypeInv, HandlerType
<1>4. pc'[h] = FirstStep(m)
  BY DEF Receive, TypeInv, HandlerType
<1>5. FirstStep(m) \in {"learn", "startGame", "button", "admin", "state"}
  BY DEF FirstStep
<1>6. InHand(pc[h], loc[h])'
  BY <1>2, <1>4, <1>5 DEF InHand, Answering
<1> QED
  BY <1>2, <1>3, <1>6 DEF CleanInv

LEMMA PressClean ==
  ASSUME TypeInv, CleanInv, NEW h \in Handlers, Press(h)
  PROVE  CleanInv'
<1>1. CASE ReadForTask(h)
  <2> PICK l : l = [loc[h] EXCEPT !.counter = CounterIn(ctx.json)]
    OBVIOUS
  <2>1. pc[h] = "learn" /\ Moves(h, "giveTask", msg[h], l) /\ Quiet
    BY <1>1 DEF ReadForTask, Moves, TypeInv, HandlerType
  <2>2. l.counter = ctx.json.counter
    BY DEF CounterIn, TypeInv, HandlerType, Locs
  <2>3. ASSUME clean' PROVE clean /\ JsonFits' /\ InHand("giveTask", l)'
    <3>1. clean /\ JsonFits' /\ (Rest => Rest') /\ ctx' = ctx
      BY <2>1, <2>3, QuietClean DEF Quiet
    <3>2. Rest
      BY <2>1, <3>1, CleanHand DEF InHand
    <3> QED
      BY <2>2, <3>1, <3>2 DEF InHand, Answering
  <2> QED
    BY <2>1, <2>3, CleanMove
<1>2. CASE GiveTask(h)
  <2>1. pc[h] = "giveTask" /\ loc[h].counter \in Int /\ clean' = clean /\ open' /\ Return(h)
    BY <1>2 DEF GiveTask, TypeInv, HandlerType, Locs
  <2>2. SetUserCtx("TaskLearning", TaskData(loc[h].counter))
    BY <1>2 DEF GiveTask
  <2>3. ASSUME clean' PROVE JsonFits' /\ Rest'
    <3>1. loc[h].counter = 2 * balance
      BY <2>1, <2>3, CleanHand DEF InHand, Rest
    <3>2. /\ JsonFits' /\ ctx'.json.counter = loc[h].counter /\ balance' = balance
      BY <2>1, <2>2, TaskClean
    <3> QED
      BY <2>1, <3>1, <3>2 DEF Rest
  <2> QED
    BY <2>1, <2>3, CleanReturn
<1>3. CASE StartGame(h)
  <2>1. JsonFits' /\ Rest'
    BY <1>3, ResetClean DEF StartGame
  <2> QED
    BY <1>3, <2>1, CleanReturn DEF StartGame, Written
<1>4. CASE PressButton(h)
  <2>1. ButtonState[msg[h]] \in {"AiSetting", "SetSysPrompt", "SetLangLevel"}
    BY <1>4, ButtonStates DEF PressButton, TypeInv, HandlerType, Fits
  <2>2. pc[h] = "button" /\ Return(h) /\ clean' = clean /\ open' = open
    BY <1>4 DEF PressButton, Written
  <2>3. clean => JsonFits /\ Rest
    BY <2>2, CleanHand DEF InHand
  <2>4. clean => JsonFits' /\ Rest'
    BY <1>4, <2>1, <2>2, <2>3, StateClean, CommandStates DEF PressButton
  <2> QED
    BY <2>2, <2>4, CleanReturn
<1> QED
  BY <1>1, <1>2, <1>3, <1>4 DEF Press

\* A handler goes on without a write, to a step that relies on no more than Rest.
LEMMA QuietGoto ==
  ASSUME TypeInv, CleanInv, NEW h \in Handlers, pc[h] # "idle", NEW step, Goto(h, step), Quiet,
         pc[h] \notin {"publish", "readScoreAgain", "endTask"},
         step \notin Answering \cup {"giveTask"},
         clean /\ step \in {"game", "saveGame"} => ctx.state = "Shiritori",
         clean /\ step \in {"readChat", "saveChat"} =>
           ctx.state \in {"TTT", "TTS", "STTandTTS", "None"}
  PROVE  CleanInv'
<1>1. ASSUME clean', NEW l PROVE clean /\ JsonFits' /\ InHand(step, l)'
  <2>1. clean /\ JsonFits' /\ (Rest => Rest') /\ ctx' = ctx
    BY <1>1, QuietClean DEF Quiet
  <2>2. Rest
    BY <2>1, CleanHand DEF InHand
  <2> QED
    BY <2>1, <2>2 DEF InHand, Answering
<1> QED
  BY <1>1, CleanGoto

LEMMA QuietReturn ==
  ASSUME TypeInv, CleanInv, NEW h \in Handlers, Return(h), Quiet,
         pc[h] \notin {"idle", "publish", "readScoreAgain", "endTask"}
  PROVE  CleanInv'
<1>1. ASSUME clean' PROVE clean /\ JsonFits' /\ Rest'
  <2>1. clean /\ JsonFits' /\ (Rest => Rest')
    BY <1>1, QuietClean
  <2>2. Rest
    BY <2>1, CleanHand DEF InHand
  <2> QED
    BY <2>1, <2>2
<1> QED
  BY <1>1, CleanReturn

LEMMA AdministerClean ==
  ASSUME TypeInv, CleanInv, NEW h \in Handlers, Administer(h)
  PROVE  CleanInv'
<1>1. CASE AdminCommand(h)
  <2>1. pc[h] = "admin" /\ clean' = clean
    BY <1>1 DEF AdminCommand, AfterCommand, Written
  <2>2. JsonFits' /\ Rest'
    BY <1>1, ResetClean, CommandStates DEF AdminCommand
  <2>3. CASE Return(h)
    BY <2>1, <2>2, <2>3, CleanReturn
  <2>4. CASE Goto(h, "state")
    <3>1. \A l : InHand("state", l)'
      BY <2>2 DEF InHand, Answering
    <3> QED
      BY <2>1, <2>2, <2>4, <3>1, CleanGoto
  <2> QED
    BY <1>1, <2>3, <2>4 DEF AdminCommand, AfterCommand, Written
<1>2. CASE AdminText(h) \/ AdminFails(h)
  <2>1. PICK step \in {"adminCall", "state"} : Goto(h, step) /\ Quiet /\ pc[h] = "admin"
    BY <1>2 DEF AdminText, AdminFails
  <2> QED
    BY <2>1, QuietGoto DEF Answering
<1>3. CASE AdminCall(h)
  <2>1. JsonFits' /\ Rest'
    BY <1>3, ResetClean DEF AdminCall
  <2> QED
    BY <1>3, <2>1, CleanReturn DEF AdminCall, Written
<1> QED
  BY <1>1, <1>2, <1>3 DEF Administer

LEMMA HandleStateClean ==
  ASSUME TypeInv, CleanInv, NEW h \in Handlers, HandleState(h)
  PROVE  CleanInv'
<1>1. CASE TakeAnswer(h)
  <2>1. PICK add \in {-1, 1} :
          loc' = [loc EXCEPT ![h] = [@ EXCEPT !.first = CounterIn(ctx.json), !.add = add]]
    BY <1>1 DEF TakeAnswer
  <2> PICK l : l = [loc[h] EXCEPT !.first = CounterIn(ctx.json), !.add = add]
    OBVIOUS
  <2>2. pc[h] = "state" /\ AnswersTask /\ Moves(h, "readScore", msg[h], l) /\ Quiet
    BY <1>1, <2>1 DEF TakeAnswer, Moves, TypeInv, HandlerType
  <2>3. l.first = ctx.json.counter
    BY DEF CounterIn, TypeInv, HandlerType, Locs
  <2>4. ASSUME clean' PROVE clean /\ JsonFits' /\ InHand("readScore", l)'
    <3>1. clean /\ JsonFits' /\ (Rest => Rest')
      BY <2>2, <2>4, QuietClean
    <3>2. Rest /\ JsonFits
      BY <2>2, <3>1, CleanHand DEF InHand
    <3>3. ctx.state = "TaskLearning" /\ ctx.json.kind = "task" /\ open
      BY <2>2, <3>2 DEF AnswersTask, JsonFits, Rest
    <3>4. ctx' = ctx /\ balance' = balance /\ open' = open
      BY <2>2 DEF Quiet, historyVars
    <3> QED
      BY <2>3, <3>1, <3>2, <3>3, <3>4 DEF InHand, Rest
  <2> QED
    BY <2>2, <2>4, CleanMove
<1>2. CASE RejectMessage(h)
  BY <1>2, QuietReturn DEF RejectMessage
<1>3. CASE ContinueGame(h)
  BY <1>3, QuietGoto DEF ContinueGame, Answering
<1>4. CASE TalkToAI(h)
  BY <1>4, QuietGoto DEF TalkToAI, Answering
<1>5. CASE ChooseMode(h) \/ ResetState(h) \/ StopSpeech(h)
  <2>1. PICK step \in {"mode", "reset", "resetAndTalk"} :
          Goto(h, step) /\ Quiet /\ pc[h] = "state"
    BY <1>5 DEF ChooseMode, ResetState, StopSpeech
  <2> QED
    BY <2>1, QuietGoto DEF Answering
<1> QED
  BY <1>1, <1>2, <1>3, <1>4, <1>5 DEF HandleState

\* The five steps of an answer.
LEMMA AnswerClean ==
  ASSUME TypeInv, CleanInv, NEW h \in Handlers,
         \/ ReadScore(h) \/ WriteScore(h) \/ Publish(h) \/ ReadScoreAgain(h) \/ EndTask(h)
  PROVE  CleanInv'
<1> PICK m : m = loc[h]
  OBVIOUS
<1>1. m \in Locs /\ m.counter \in Int /\ m.add \in Int /\ balance \in Int
  BY DEF TypeInv, HandlerType, KeyType, Locs
<1>2. pc[h] \in Answering /\ pc[h] # "idle"
  BY DEF ReadScore, WriteScore, Publish, ReadScoreAgain, EndTask, Answering
<1>3. clean => JsonFits /\ InHand(pc[h], m)
  BY <1>2, CleanHand
<1>4. CASE ReadScore(h) \/ ReadScoreAgain(h)
  <2> PICK l : l = [m EXCEPT !.counter = CounterIn(ctx.json) + m.add]
    OBVIOUS
  <2>1. Quiet /\ \/ pc[h] = "readScore" /\ Moves(h, "writeScore", msg[h], l)
                 \/ pc[h] = "readScoreAgain" /\ Moves(h, "endTask", msg[h], l)
    BY <1>4 DEF ReadScore, ReadScoreAgain, Moves, TypeInv, HandlerType
  <2>2. l.counter = ctx.json.counter + m.add /\ l.first = m.first /\ l.add = m.add
    BY <1>1 DEF CounterIn, Locs
  <2>3. ctx' = ctx /\ balance' = balance /\ open' = open /\ clean' = clean
    BY <2>1 DEF Quiet, historyVars
  <2>4. ASSUME clean', pc[h] = "readScore" PROVE JsonFits' /\ InHand("writeScore", l)'
    BY <1>1, <1>3, <2>2, <2>3, <2>4 DEF InHand, Answering, Rest, JsonFits
  <2>5. ASSUME clean', pc[h] = "readScoreAgain" PROVE JsonFits' /\ InHand("endTask", l)'
    BY <1>1, <1>3, <2>2, <2>3, <2>5 DEF InHand, Answering, Rest, JsonFits
  <2> QED
    BY <1>2, <2>1, <2>3, <2>4, <2>5, CleanMove
<1>5. CASE WriteScore(h)
  <2>1. pc[h] = "writeScore" /\ Goto(h, "publish") /\ clean' = clean /\ open' = open
    BY <1>5 DEF WriteScore
  <2>2. /\ JsonFits' /\ ctx'.state = "TaskLearning" /\ ctx'.json.kind = "task"
        /\ ctx'.json.counter = m.counter /\ balance' = balance
    BY <1>1, <1>5, TaskClean DEF WriteScore
  <2>3. clean => InHand("publish", m)'
    BY <1>3, <2>1, <2>2 DEF InHand, Answering
  <2> QED
    BY <1>2, <2>1, <2>2, <2>3, CleanGoto
<1>6. CASE Publish(h)
  <2>1. /\ pc[h] = "publish" /\ Goto(h, "readScoreAgain") /\ clean' = clean /\ ctx' = ctx
        /\ balance' = balance + m.add
    BY <1>6 DEF Publish
  <2>2. clean => JsonFits' /\ InHand("readScoreAgain", m)'
    BY <1>1, <1>3, <2>1 DEF InHand, Answering, JsonFits
  <2> QED
    BY <1>2, <2>1, <2>2, CleanGoto
<1>7. CASE EndTask(h)
  <2>1. pc[h] = "endTask" /\ Return(h) /\ clean' = clean
    BY <1>7 DEF EndTask, Written
  <2>2. JsonFits' /\ ctx'.state = "None" /\ ctx'.json.counter = m.counter /\ balance' = balance
    BY <1>1, <1>7, TaskClean DEF EndTask
  <2>3. clean => Rest'
    BY <1>3, <2>1, <2>2 DEF InHand, Rest
  <2> QED
    BY <2>1, <2>2, <2>3, CleanReturn
<1> QED
  BY <1>4, <1>5, <1>6, <1>7

LEMMA ProceedClean ==
  ASSUME TypeInv, CleanInv, NEW h \in Handlers, Proceed(h)
  PROVE  CleanInv'
<1>1. CASE \/ ReadScore(h) \/ WriteScore(h) \/ Publish(h) \/ ReadScoreAgain(h) \/ EndTask(h)
  BY <1>1, AnswerClean
<1>2. CASE ReadGame(h) \/ ReadChat(h)
  <2>1. pc[h] \in {"game", "readChat"} /\ Quiet
    BY <1>2 DEF ReadGame, ReadChat
  <2>2. /\ clean /\ pc[h] = "game" => ctx.state = "Shiritori"
        /\ clean /\ pc[h] = "readChat" => ctx.state \in {"TTT", "TTS", "STTandTTS", "None"}
    BY <2>1, CleanHand DEF InHand
  <2>3. CASE Return(h)
    BY <2>1, <2>3, QuietReturn
  <2>4. CASE Goto(h, "reset")
    BY <2>1, <2>4, QuietGoto DEF Answering
  <2>5. CASE pc[h] = "game" /\ Goto(h, "saveGame")
    BY <2>1, <2>2, <2>5, QuietGoto DEF Answering
  <2>6. CASE pc[h] = "readChat" /\ Goto(h, "saveChat")
    BY <2>1, <2>2, <2>6, QuietGoto DEF Answering
  <2> QED
    BY <1>2, <2>3, <2>4, <2>5, <2>6 DEF ReadGame, ReadChat
<1>3. CASE SaveGame(h) \/ Reset(h)
  <2>1. JsonFits' /\ Rest'
    BY <1>3, ResetClean DEF SaveGame, Reset
  <2> QED
    BY <1>3, <2>1, CleanReturn DEF SaveGame, Reset, Written
<1>4. CASE SetMode(h)
  <2>1. ModeState[msg[h]] \in {"TTS", "STT", "STTandTTS", "TTT"}
    BY <1>4, ModeStates DEF SetMode, TypeInv, HandlerType, Fits
  <2>2. pc[h] = "mode" /\ Return(h) /\ clean' = clean /\ open' = open
    BY <1>4 DEF SetMode, Written
  <2>3. clean => JsonFits /\ Rest
    BY <2>2, CleanHand DEF InHand
  <2>4. clean => JsonFits' /\ Rest'
    BY <1>4, <2>1, <2>2, <2>3, StateClean, CommandStates DEF SetMode
  <2> QED
    BY <2>2, <2>4, CleanReturn
<1>5. CASE ResetAndTalk(h)
  <2>1. JsonFits' /\ Rest' /\ ctx'.state = "None"
    BY <1>5, ResetClean DEF ResetAndTalk, SetUserCtx
  <2>2. \A l : InHand("readChat", l)'
    BY <2>1 DEF InHand, Answering
  <2> QED
    BY <1>5, <2>1, <2>2, CleanGoto DEF ResetAndTalk
<1>6. CASE SaveChat(h)
  <2>1. pc[h] = "saveChat" /\ Return(h) /\ clean' = clean /\ UpdateUserDataCtx(ChatData)
    BY <1>6 DEF SaveChat, Written
  <2>2. clean => ctx.state \in {"TTT", "TTS", "STTandTTS", "None"}
    BY <2>1, CleanHand DEF InHand
  <2>3. ctx'.state = ctx.state /\ ctx'.json = ChatData /\ balance' = 0
    BY <2>1 DEF UpdateUserDataCtx, KeepBalance, ChatData, TypeInv, KeyType
  <2>4. clean => JsonFits' /\ Rest'
    BY <2>2, <2>3, CommandStates DEF JsonFits, Rest, ChatData
  <2> QED
    BY <2>1, <2>4, CleanReturn
<1>7. CASE Fails(h)
  BY <1>7, QuietReturn DEF Fails
<1>8. CASE ScoreFails(h)
  BY <1>8 DEF ScoreFails, CleanInv
<1> QED
  BY <1>1, <1>2, <1>3, <1>4, <1>5, <1>6, <1>7, <1>8 DEF Proceed

LEMMA CleanStep == TypeInv /\ CleanInv /\ [Next]_vars => CleanInv'
<1> SUFFICES ASSUME TypeInv, CleanInv, [Next]_vars PROVE CleanInv'
  OBVIOUS
<1>1. CASE Expire
  <2>1. JsonFits' /\ Rest'
    BY <1>1, ResetClean DEF Expire
  <2>2. clean' => \A h \in Handlers : pc'[h] = "idle"
    BY <1>1 DEF Expire, Busy, handlerVars
  <2> QED
    BY <2>1, <2>2 DEF CleanInv
<1>2. CASE UNCHANGED vars
  BY <1>2 DEF vars, CleanInv, JsonFits, InHand, Rest
<1>3. ASSUME NEW h \in Handlers, Handle(h) PROVE CleanInv'
  BY <1>3, ReceiveClean, PressClean, AdministerClean, HandleStateClean, ProceedClean DEF Handle
<1> QED
  BY <1>1, <1>2, <1>3 DEF Next

-------------------------------------------------------------------------------
(* Theorems.                                                                 *)

Inv == TypeInv /\ AnswerHasTask /\ CleanInv

LEMMA AlwaysInv == Spec => []Inv
<1>1. Init => Inv
  <2> SUFFICES ASSUME Init PROVE Inv
    OBVIOUS
  <2>1. TypeInv
    BY InitialType
  <2>2. AnswerHasTask
    BY DEF Init, AnswerHasTask
  <2>3. CleanInv
    BY CommandStates DEF Init, CleanInv, JsonFits, Rest, NoData
  <2> QED
    BY <2>1, <2>2, <2>3 DEF Inv
<1>2. Inv /\ [Next]_vars => Inv'
  BY NextType, AnswerStep, CleanStep DEF Inv
<1> QED
  BY <1>1, <1>2, PTL DEF Spec

\* The key and the handlers keep their types, whatever the user sends and however many
\* handlers are at work.
THEOREM TypeCorrect == Spec => []TypeOK
<1>1. TypeInv => TypeOK
  BY DEF TypeInv, HandlerType, KeyType, OtherType, TypeOK, Texts, Locs
<1> QED
  BY <1>1, AlwaysInv, PTL DEF Inv

\* A user in StateTaskLearning has data to answer, for any number of handlers in any
\* interleaving.
THEOREM AnswerAlwaysHasTask == Spec => []AnswerHasTask
BY AlwaysInv, PTL DEF Inv

\* As long as messages do not overlap, the task, the game and the administrator's commands
\* never find the data of another feature in the key.  (The AI modes read what is left there.)
THEOREM JsonAlwaysFits == Spec => []JsonFitsState
<1>1. CleanInv => JsonFitsState
  BY DEF CleanInv, JsonFits, JsonFitsState
<1> QED
  BY <1>1, AlwaysInv, PTL DEF Inv

\* ... and the stored counter is twice the right minus the wrong answers, that of the
\* published event one step of it, after any number of answers.
THEOREM CounterAlwaysTwice == Spec => []CounterIsTwiceBalance
<1>1. TypeInv /\ CleanInv => CounterIsTwiceBalance
  <2> SUFFICES ASSUME TypeInv, CleanInv, clean PROVE CounterIsTwiceBalance
    BY DEF CounterIsTwiceBalance
  <2>1. Busy = {} => ctx.json.counter = 2 * balance
    BY DEF CleanInv, Busy, Rest
  <2>2. ASSUME NEW h \in Handlers, pc[h] = "publish"
        PROVE  Published(h) = 2 * balance + loc[h].add
    BY <2>2, CleanHand DEF InHand, Published
  <2> QED
    BY <2>1, <2>2 DEF CounterIsTwiceBalance
<1> QED
  BY <1>1, AlwaysInv, PTL DEF Inv

\* ... and an answer is published for a task that is open, and so once for each task.
THEOREM TaskAnsweredOnce == Spec => OneAnswerPerTask
<1>1. Inv /\ [Next]_vars =>
        [\A h \in Handlers : clean /\ pc[h] = "publish" /\ pc'[h] # "publish" => open]_vars
  BY CleanHand DEF Inv, InHand
<1> QED
  BY <1>1, AlwaysInv, PTL DEF Spec, OneAnswerPerTask

\* The steps of a message that is no button and no command leave StateNone alone, but for
\* the two writes an overtaken handler may still make.
LEMMA NoneIsLeft ==
  ASSUME Inv, Next, NEW h \in Handlers, pc'[h] # pc[h], msg[h] \in {"text", "voice", "/stop"},
         ctx.state = "None", ctx'.state # "None"
  PROVE  ~clean /\ pc[h] \in {"saveGame", "writeScore"}
<1>1. TypeInv /\ CleanInv /\ Fits(pc[h], msg[h])
  BY DEF Inv, TypeInv, HandlerType
<1>2. Handle(h)
  <2>1. ASSUME NEW g \in Handlers, Handle(g), g # h PROVE FALSE
    <3>1. \E step : pc' = [pc EXCEPT ![g] = step]
      BY <2>1
      DEF Handle, Receive, Press, ReadForTask, GiveTask, StartGame, PressButton, Administer,
          AdminCommand, AfterCommand, AdminText, AdminCall, AdminFails, HandleState, TakeAnswer,
          RejectMessage, ContinueGame, ChooseMode, ResetState, StopSpeech, TalkToAI, Proceed,
          ReadScore, WriteScore, Publish, ReadScoreAgain, EndTask, ReadGame, SaveGame, SetMode,
          Reset, ResetAndTalk, ReadChat, SaveChat, Fails, ScoreFails, Written, Return, Goto
    <3> QED
      BY <1>1, <2>1, <3>1 DEF TypeInv, HandlerType
  <2>2. ~Expire
    BY DEF Expire, handlerVars
  <2> QED
    BY <2>1, <2>2 DEF Next
<1>3. \A m \in Messages : ~Receive(h, m)
  BY DEF Receive
<1>4. ~Press(h)
  BY <1>1, ButtonStates DEF Press, ReadForTask, GiveTask, StartGame, PressButton, Quiet, Fits
<1>5. ~Administer(h)
  BY CommandStates DEF Administer, AdminCommand, AdminText, AdminCall, AdminFails, Quiet, SetUserCtx
<1>6. ~HandleState(h)
  BY DEF HandleState, TakeAnswer, RejectMessage, ContinueGame, ChooseMode, ResetState, StopSpeech,
     TalkToAI, Quiet
<1>7. Proceed(h)
  BY <1>2, <1>3, <1>4, <1>5, <1>6 DEF Handle
<1>8. pc[h] # "mode"
  BY <1>1, ModeStates DEF Fits
<1>9. SaveGame(h) \/ WriteScore(h)
  BY <1>1, <1>7, <1>8
  DEF Proceed, ReadScore, Publish, ReadScoreAgain, EndTask, ReadGame, SetMode, Reset,
      ResetAndTalk, ReadChat, SaveChat, Fails, ScoreFails, Quiet, SetUserCtx, UpdateUserDataCtx,
      TypeInv, KeyType
<1>10. pc[h] \in {"saveGame", "writeScore"}
  BY <1>9 DEF SaveGame, WriteScore
<1>11. ~clean
  BY <1>1, <1>10, CleanHand DEF InHand, Answering
<1> QED
  BY <1>10, <1>11

\* A mode the user left does not come back by itself, for any number of handlers.
THEOREM ModesStayLeft == Spec => NothingIsResurrected
<1>1. Inv /\ [Next]_vars =>
        [\A h \in Handlers :
           pc'[h] # pc[h] /\ msg[h] \in {"text", "voice", "/stop"} =>
             (ctx.state = "None" /\ ctx'.state # "None" =>
                ~clean /\ pc[h] \in {"saveGame", "writeScore"})]_vars
  BY NoneIsLeft
<1> QED
  BY <1>1, AlwaysInv, PTL DEF Spec, NothingIsResurrected
===============================================================================
