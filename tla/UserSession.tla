------------------------------ MODULE UserSession ------------------------------
(***************************************************************************)
(* The state machine of one user of the bot: the key users:state<uuid> in    *)
(* Redis (StateManager), shared by every feature of the bot, and the         *)
(* handlers of the user's messages, each a goroutine that makes one Redis    *)
(* command or one RPC at a time.  All features keep their data in the one    *)
(* field json_data, and a handler writes what it made of an earlier read.    *)
(* The rules of the word game are in Shiritori; here a game is only data of  *)
(* a kind of its own.                                                        *)
(***************************************************************************)
EXTENDS Integers

CONSTANTS
  Messages,     \* what the user sends: a button, a command, or anything else
  Handlers,     \* goroutines that may handle messages of this user at a time
  MaxMessages   \* bound: messages of the user

VARIABLES
  ctx,        \* the key: [state, json]; an absent key reads as StateNone and ""
  admin,      \* whether the user is ADMIN_UUID
  pc,         \* the next Redis command or RPC of every handler
  msg,        \* the message it handles
  loc,        \* what it read: [first, counter, add]
  messages,   \* messages so far
  open,       \* history: the task the user was given last has not been answered
  balance,    \* history: right minus wrong answers, since the counter began
  clean       \* history: no two messages were handled at a time, and no write of an
              \* answer failed

handlerVars == <<pc, msg, loc>>
historyVars == <<open, balance>>
vars == <<ctx, admin, pc, msg, loc, messages, open, balance, clean>>

\* Commands of the administrator and the state each one sets.
AdminState ==
  [tasks_add |-> "TaskAdding", task_del |-> "TaskDeleting",
   words_add |-> "WordAdding", word_del |-> "WordDeleting"]
AdminCommands == DOMAIN AdminState
AdminStates == {AdminState[c] : c \in AdminCommands}

\* Buttons that only set a state, the chat and the two of the settings menu (captions
\* are written without spaces here).
ButtonState ==
  [Chatting |-> "AiSetting", SystemPrompt |-> "SetSysPrompt",
   LanguageLevel |-> "SetLangLevel"]

\* The ways to use the AI and the state each one sets.
ModeState ==
  [UseTTS |-> "TTS", UseSTT |-> "STT", UseSTTAndTTS |-> "STTandTTS", UseTTT |-> "TTT"]

States ==
  {"None", "TaskLearning", "Shiritori", "AiSetting", "SetSysPrompt", "SetLangLevel",
   "TTS", "STT", "STTandTTS", "TTT"} \cup AdminStates

ASSUME MessagesAssumption ==
  Messages \subseteq AdminCommands \cup DOMAIN ButtonState \cup DOMAIN ModeState
                     \cup {"Learning", "Shiritori", "/stop", "voice", "text"}

\* json_data by the feature that wrote it; only a task's counter is told apart.
Json == [kind : {"empty", "game", "chat", "task"}, counter : Int]
NoData == [kind |-> "empty", counter |-> 0]
GameData == [kind |-> "game", counter |-> 0]
ChatData == [kind |-> "chat", counter |-> 0]
TaskData(n) == [kind |-> "task", counter |-> n]

NothingRead == [first |-> 0, counter |-> 0, add |-> 0]

Init ==
  /\ ctx = [state |-> "None", json |-> NoData]
  /\ admin \in BOOLEAN
  /\ pc = [h \in Handlers |-> "idle"]
  /\ msg = [h \in Handlers |-> "text"]
  /\ loc = [h \in Handlers |-> NothingRead]
  /\ messages = 0
  /\ open = FALSE /\ balance = 0 /\ clean = TRUE

-------------------------------------------------------------------------------
(* The state manager.                                                        *)

\* The counter of the answers is gone with data of another kind.
KeepBalance(json) == balance' = IF json.kind = "task" THEN balance ELSE 0

\* Both fields are written, as one command.
SetUserCtx(state, json) ==
  /\ ctx' = [state |-> state, json |-> json]
  /\ KeepBalance(json)

\* The state is written, json_data stays (the Lua script updateonlystate).
UpdUserStateCtx(state) ==
  /\ ctx' = [ctx EXCEPT !.state = state]
  /\ UNCHANGED balance

\* json_data is written, the state stays, whatever it is by now (updateonlyjsondata).
UpdateUserDataCtx(json) ==
  /\ ctx' = [ctx EXCEPT !.json = json]
  /\ KeepBalance(json)

\* A TaskSession read from data of another kind has no field set.
CounterIn(json) == json.counter

-------------------------------------------------------------------------------
(* Control of a handler.                                                     *)

Busy == {h \in Handlers : pc[h] # "idle"}

Goto(h, step) == pc' = [pc EXCEPT ![h] = step] /\ UNCHANGED <<msg, loc>>

\* Mutant: the data of a message outlives its handler.
ReturnKeepsData(h) == pc' = [pc EXCEPT ![h] = "idle"] /\ UNCHANGED <<msg, loc>>

Return(h) ==
  /\ pc' = [pc EXCEPT ![h] = "idle"]
  /\ msg' = [msg EXCEPT ![h] = "text"]
  /\ loc' = [loc EXCEPT ![h] = NothingRead]

\* Nothing but the handler changes.
Quiet == UNCHANGED <<ctx, admin, messages, historyVars, clean>>

\* The write of the handler ends it.
Written(h) == Return(h) /\ UNCHANGED <<admin, messages, open, clean>>

FirstStep(m) ==
  IF m = "Learning" THEN "learn"
  ELSE IF m = "Shiritori" THEN "startGame"
  ELSE IF m \in DOMAIN ButtonState THEN "button"
  ELSE IF admin THEN "admin" ELSE "state"

\* handleMessages routes the message (telebot: in a goroutine of its own).
Receive(h, m) ==
  /\ pc[h] = "idle" /\ messages < MaxMessages
  /\ pc' = [pc EXCEPT ![h] = FirstStep(m)]
  /\ msg' = [msg EXCEPT ![h] = m]
  /\ messages' = messages + 1
  /\ clean' = (clean /\ Busy = {})
  /\ UNCHANGED <<ctx, admin, loc, historyVars>>

-------------------------------------------------------------------------------
(* Buttons.                                                                  *)

\* learningTask has its task; UpdateUserTaskCtx reads the counter so far ...
ReadForTask(h) ==
  /\ pc[h] = "learn"
  /\ loc' = [loc EXCEPT ![h].counter = CounterIn(ctx.json)]
  /\ pc' = [pc EXCEPT ![h] = "giveTask"]
  /\ UNCHANGED msg /\ Quiet

\* ... and writes it back with the task.
GiveTask(h) ==
  /\ pc[h] = "giveTask"
  /\ SetUserCtx("TaskLearning", TaskData(loc[h].counter))
  /\ open' = TRUE
  /\ Return(h) /\ UNCHANGED <<admin, messages, clean>>

\* Mutant: the game starts as the chat does, by the state alone.
StartGameStateOnly(h) ==
  /\ pc[h] = "startGame" /\ UpdUserStateCtx("Shiritori") /\ Written(h)

StartGame(h) ==
  /\ pc[h] = "startGame" /\ SetUserCtx("Shiritori", NoData) /\ Written(h)

PressButton(h) ==
  /\ pc[h] = "button" /\ UpdUserStateCtx(ButtonState[msg[h]]) /\ Written(h)

-------------------------------------------------------------------------------
(* handleAdmin.                                                              *)

\* handled stays false for word_del: handleState goes on with the message.
AfterCommand(h) ==
  IF msg[h] = "word_del"
    THEN Goto(h, "state") /\ UNCHANGED <<admin, messages, open, clean>>
    ELSE Written(h)

AdminCommand(h) ==
  /\ pc[h] = "admin" /\ msg[h] \in AdminCommands
  /\ SetUserCtx(AdminState[msg[h]], NoData)
  /\ AfterCommand(h)

\* A message that is no command is the data of the command given before, if any.
AdminText(h) ==
  /\ pc[h] = "admin" /\ msg[h] \notin AdminCommands
  /\ Goto(h, IF ctx.state \in AdminStates THEN "adminCall" ELSE "state")
  /\ Quiet

\* The RPC to learn-service succeeded: the state is reset. (When it fails, Fails.)
AdminCall(h) ==
  /\ pc[h] = "adminCall" /\ SetUserCtx("None", NoData) /\ Written(h)

-------------------------------------------------------------------------------
(* handleState: one read of the key decides what the message means.          *)

\* Mutant: the answer to a task is taken in any state that still has the task's data.
AnswersTaskByData == ctx.json.kind = "task"

AnswersTask == ctx.state = "TaskLearning" /\ ctx.json.kind # "empty"

\* The message is the answer; whether it is right depends on its text.
TakeAnswer(h) ==
  /\ pc[h] = "state" /\ AnswersTask
  /\ \E add \in {-1, 1} :
       loc' = [loc EXCEPT ![h] = [@ EXCEPT !.first = CounterIn(ctx.json), !.add = add]]
  /\ pc' = [pc EXCEPT ![h] = "readScore"]
  /\ UNCHANGED msg /\ Quiet

\* TaskLearning without data does not unmarshal; the AI menu takes nothing but a way
\* to use the AI; speech recognition takes "/stop" and voice messages, and writes
\* nothing.
Rejects(m) ==
  \/ ctx.state = "TaskLearning" /\ ctx.json.kind = "empty"
  \/ ctx.state = "AiSetting" /\ m \notin DOMAIN ModeState
  \/ ctx.state = "STT" /\ m # "/stop"

RejectMessage(h) ==
  /\ pc[h] = "state" /\ Rejects(msg[h])
  /\ Return(h) /\ Quiet

ContinueGame(h) ==
  /\ pc[h] = "state" /\ ctx.state = "Shiritori"
  /\ Goto(h, "game") /\ Quiet

ChooseMode(h) ==
  /\ pc[h] = "state" /\ ctx.state = "AiSetting" /\ msg[h] \in DOMAIN ModeState
  /\ Goto(h, "mode") /\ Quiet

\* "/stop" in a mode of the AI; the new system prompt or level, once users-service has
\* it; and any message when there is nothing to continue, or a state of the
\* administrator that handleAdmin did not see: all end in StateNone.
Resets(m) ==
  \/ ctx.state \in {"TTT", "TTS", "STT"} /\ m = "/stop"
  \/ ctx.state \in {"SetSysPrompt", "SetLangLevel", "None"} \cup AdminStates

ResetState(h) ==
  /\ pc[h] = "state" /\ Resets(msg[h])
  /\ Goto(h, "reset") /\ Quiet

\* In the mode with speech both ways handleVoice handles "/stop", and handleTTS goes
\* on with the text that was not recognized.
StopSpeech(h) ==
  /\ pc[h] = "state" /\ ctx.state = "STTandTTS" /\ msg[h] = "/stop"
  /\ Goto(h, "resetAndTalk") /\ Quiet

TalkToAI(h) ==
  /\ pc[h] = "state" /\ ctx.state \in {"TTT", "TTS", "STTandTTS"} /\ msg[h] # "/stop"
  /\ Goto(h, "readChat") /\ Quiet

-------------------------------------------------------------------------------
(* The rest of the handler, one Redis command at a time.                     *)

\* The first UpdateUserTaskCtx.
ReadScore(h) ==
  /\ pc[h] = "readScore"
  /\ loc' = [loc EXCEPT ![h].counter = CounterIn(ctx.json) + loc[h].add]
  /\ pc' = [pc EXCEPT ![h] = "writeScore"]
  /\ UNCHANGED msg /\ Quiet

WriteScore(h) ==
  /\ pc[h] = "writeScore"
  /\ SetUserCtx("TaskLearning", TaskData(loc[h].counter))
  /\ Goto(h, "publish")
  /\ UNCHANGED <<admin, messages, open, clean>>

\* UpdateByAnswer, with the counter that was read first.
Published(h) == loc[h].first + loc[h].add

Publish(h) ==
  /\ pc[h] = "publish"
  /\ open' = FALSE /\ balance' = balance + loc[h].add
  /\ Goto(h, "readScoreAgain")
  /\ UNCHANGED <<ctx, admin, messages, clean>>

\* Mutant: the second UpdateUserTaskCtx adds nothing.
ReadScoreAgainAddsNothing(h) ==
  /\ pc[h] = "readScoreAgain"
  /\ loc' = [loc EXCEPT ![h].counter = CounterIn(ctx.json)]
  /\ pc' = [pc EXCEPT ![h] = "endTask"]
  /\ UNCHANGED msg /\ Quiet

\* The second UpdateUserTaskCtx, with the same `add`, ends the task.
ReadScoreAgain(h) ==
  /\ pc[h] = "readScoreAgain"
  /\ loc' = [loc EXCEPT ![h].counter = CounterIn(ctx.json) + loc[h].add]
  /\ pc' = [pc EXCEPT ![h] = "endTask"]
  /\ UNCHANGED msg /\ Quiet

EndTask(h) ==
  /\ pc[h] = "endTask" /\ SetUserCtx("None", TaskData(loc[h].counter)) /\ Written(h)

\* The case of the game reads the key again: "/stop" resets, another message may
\* leave the game as it is, or saves it.
ReadGame(h) ==
  /\ pc[h] = "game"
  /\ \/ msg[h] = "/stop" /\ Goto(h, "reset")
     \/ msg[h] # "/stop" /\ (Return(h) \/ Goto(h, "saveGame"))
  /\ Quiet

SaveGame(h) ==
  /\ pc[h] = "saveGame" /\ SetUserCtx("Shiritori", GameData) /\ Written(h)

SetMode(h) ==
  /\ pc[h] = "mode" /\ UpdUserStateCtx(ModeState[msg[h]]) /\ Written(h)

Reset(h) ==
  /\ pc[h] = "reset" /\ SetUserCtx("None", NoData) /\ Written(h)

ResetAndTalk(h) ==
  /\ pc[h] = "resetAndTalk" /\ SetUserCtx("None", NoData)
  /\ Goto(h, "readChat")
  /\ UNCHANGED <<admin, messages, open, clean>>

\* generateText reads the chat, asks the AI ...
ReadChat(h) ==
  /\ pc[h] = "readChat" /\ Goto(h, "saveChat") /\ Quiet

\* Mutant: the mode of the chat is written with its data.
SaveChatAndMode(h) ==
  /\ pc[h] = "saveChat" /\ SetUserCtx("STTandTTS", ChatData) /\ Written(h)

\* ... and, when the AI is done, saves its message as the chat's last one.
SaveChat(h) ==
  /\ pc[h] = "saveChat" /\ UpdateUserDataCtx(ChatData) /\ Written(h)

\* An error of handleAdmin counts only if the message was handled: handleState goes on
\* after a failed SetUserCtx of word_del, and after a failed GetUserCtx.
AdminFails(h) ==
  /\ pc[h] = "admin" /\ msg[h] \notin AdminCommands \ {"word_del"}
  /\ Goto(h, "state") /\ Quiet

\* A Redis command or an RPC fails: the handler returns the error.
Fails(h) ==
  /\ pc[h] = "admin" => msg[h] \in AdminCommands \ {"word_del"}
  /\ pc[h] \notin {"idle", "readScore", "writeScore", "publish", "readScoreAgain", "endTask"}
  /\ Return(h) /\ Quiet

\* The errors of the two UpdateUserTaskCtx of an answer are only logged.
ScoreFails(h) ==
  /\ \/ pc[h] \in {"readScore", "writeScore"} /\ Goto(h, "publish")
     \/ pc[h] \in {"readScoreAgain", "endTask"} /\ Return(h)
  /\ clean' = FALSE
  /\ UNCHANGED <<ctx, admin, messages, historyVars>>

\* The key expires 30 minutes after the last write.
Expire ==
  /\ ctx # [state |-> "None", json |-> NoData]
  /\ SetUserCtx("None", NoData)
  /\ clean' = (clean /\ Busy = {})
  /\ UNCHANGED <<admin, handlerVars, messages, open>>

-------------------------------------------------------------------------------

Press(h) == ReadForTask(h) \/ GiveTask(h) \/ StartGame(h) \/ PressButton(h)
Administer(h) == AdminCommand(h) \/ AdminText(h) \/ AdminCall(h) \/ AdminFails(h)
HandleState(h) ==
  \/ TakeAnswer(h) \/ RejectMessage(h) \/ ContinueGame(h) \/ ChooseMode(h)
  \/ ResetState(h) \/ StopSpeech(h) \/ TalkToAI(h)
Proceed(h) ==
  \/ ReadScore(h) \/ WriteScore(h) \/ Publish(h) \/ ReadScoreAgain(h) \/ EndTask(h)
  \/ ReadGame(h) \/ SaveGame(h) \/ SetMode(h) \/ Reset(h) \/ ResetAndTalk(h)
  \/ ReadChat(h) \/ SaveChat(h) \/ Fails(h) \/ ScoreFails(h)

Handle(h) ==
  \/ \E m \in Messages : Receive(h, m)
  \/ Press(h) \/ Administer(h) \/ HandleState(h) \/ Proceed(h)

Next == Expire \/ \E h \in Handlers : Handle(h)

Spec == Init /\ [][Next]_vars

-------------------------------------------------------------------------------
(* Properties.                                                               *)

Answering == {"readScore", "writeScore", "publish", "readScoreAgain", "endTask"}
Steps ==
  {"idle", "learn", "giveTask", "startGame", "button", "admin", "adminCall", "state",
   "game", "saveGame", "mode", "reset", "resetAndTalk", "readChat", "saveChat"}
    \cup Answering

TypeOK ==
  /\ ctx \in [state : States, json : Json]
  /\ admin \in BOOLEAN
  /\ pc \in [Handlers -> Steps] /\ msg \in [Handlers -> Messages \cup {"text"}]
  /\ loc \in [Handlers -> [first : Int, counter : Int, add : {-1, 0, 1}]]
  /\ \A h \in Handlers : loc[h].add # 0 <=> pc[h] \in Answering
  /\ messages \in Nat /\ open \in BOOLEAN /\ balance \in Int /\ clean \in BOOLEAN

\* All features share json_data.  When no two handlers overlapped, a task is never
\* read from the data of the game or the chat, the game starts without data of another
\* feature, and a command of the administrator leaves none behind.  (The AI modes read
\* whatever is there.)
JsonFitsState ==
  clean /\ Busy = {} =>
    /\ ctx.state = "TaskLearning" => ctx.json.kind = "task"
    /\ ctx.state = "Shiritori" => ctx.json.kind \in {"empty", "game"}
    /\ ctx.state \in AdminStates => ctx.json.kind = "empty"

\* An answer goes through UpdateUserTaskCtx twice with the same `add` (user.go:76 and
\* 84), hence the stored counter is twice the right minus the wrong answers, and the
\* counter that UpdateByAnswer publishes is one step of that: 1, 3, 5 ...
CounterIsTwiceBalance ==
  clean /\ ctx.json.kind = "task" =>
    /\ Busy = {} => ctx.json.counter = 2 * balance
    /\ \A h \in Handlers : pc[h] = "publish" => Published(h) = 2 * balance + loc[h].add

\* One task takes one answer: when no two handlers overlapped, UpdateByAnswer is
\* called only with a task that was given and not answered since, although the
\* task's data stay in the key after the answer (user.go:84).
OneAnswerPerTask ==
  [][\A h \in Handlers : clean /\ pc[h] = "publish" /\ pc'[h] # "publish" => open]_vars

\* A mode that was left comes back only by a button or a command. The one exception is
\* two messages handled at a time, when the later one leaves the game or the task while
\* the earlier one is about to save it; a handler that waits for the AI, the longest
\* wait of all, never takes the user out of StateNone (user.go:447).
NothingIsResurrected ==
  [][\A h \in Handlers :
       pc'[h] # pc[h] /\ msg[h] \in {"text", "voice", "/stop"} =>
         (ctx.state = "None" /\ ctx'.state # "None" =>
            ~clean /\ pc[h] \in {"saveGame", "writeScore"})]_vars

\* What helpMsg says of word_del (admin.go:22-23), and the code does for the other
\* commands: the command is followed by a message with its data, so the handler of a
\* command leaves the state that waits for them.
CommandWaitsForData ==
  [][\A h \in Handlers :
       admin /\ msg[h] \in AdminCommands /\ pc'[h] # pc[h] /\ ctx' # ctx =>
         ctx'.state = AdminState[msg[h]]]_vars

\* What the bot says when speech both ways is stopped, "STT and TTS mode stopped."
\* (user.go:317): "/stop" is not a message to the AI.
StopIsNotTalk == \A h \in Handlers : msg[h] = "/stop" => pc[h] # "readChat"
===============================================================================
