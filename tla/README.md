# Verification of EnBooster

EnBooster is a Telegram bot for learning English. Three Go services stand behind the bot
API: the **gateway** (telebot handlers, the user's state in Redis, gRPC clients, a Kafka
producer and a Kafka consumer), **users-service** (profiles, streaks, notifications;
PostgreSQL, Kafka) and **learn-service** (tasks, words; PostgreSQL, a Redis cache), with
**ai-service** (text, speech, recognition; Redis) for the chat modes.

This directory holds TLA+ models of its stateful parts, TLC configurations that check
them on small instances, and TLAPS proofs of what holds for every instance.

    tlc -workers 2 -config MCAnswerStream.cfg MCAnswerStream     # check a run
    tlapm AnswerStream_proofs.tla                                # check the proofs

Contents: [Inventory](#inventory) · [Modules](#modules-and-what-they-model) ·
[Runs](#runs) · [Bounds](#bounds) · [Fairness](#fairness) · [Proofs](#proofs) ·
[Findings](#findings) · [Not modelled](#not-modelled) · [Plan](#plan)

## Inventory

Paths are relative to `src/`.

| Component | State | Operations | Talks to |
|---|---|---|---|
| State manager, `gateway/internal/statemanager` | Redis hash `users:state<uuid>` with `state` and `json_data`, 30 minutes to live | `GetUserCtx`, `SetUserCtx` (both fields), `UpdUserStateCtx`, `UpdateUserDataCtx` (one field each) | all handlers of the gateway |
| Handlers, `gateway/internal/router` | none of their own: local variables while they run | `handleMessages` and the buttons, `handleAdmin`, `handleState`, one goroutine for every update | state manager, users-, learn- and ai-service, Kafka |
| Shiritori game, `router/user.go:88-234`, `users/handler.go:310-358`, `learn-service/internal/db/words.go` | the session in `json_data`; the table `words` | a word, `/stop`, the button; `GetWordsWithTarget`, `NewWordsBulk`, `DelWord` | state manager, learn-service |
| Answer stream, `users/handler.go:207-256`, `users-service/main.go:365-431`, `users-service/internal/db/db.go:163-214` | queue of the asynchronous writer, topic, committed offset, the statistics columns of `users` | `UpdateByAnswer`, `ApplyAnswer`, `UpdateStreak` | Kafka, PostgreSQL |
| Task cache and tables, `learn-service/main.go`, `internal/rdb`, `internal/db` | pages and hit counters in Redis, `tasks`, `words` | `GetTasks` (singleflight), `NewTasks`, `DelTask`, `CacheTasks` | Redis, PostgreSQL |
| Notifications, `users-service/internal/notifysystem`, `users/handler.go:360-430` | cursor over `users`, a topic, its offset | scheduler, batch producer, dispatch to chats | PostgreSQL, Kafka, Telegram |
| RPC retries, `gateway/internal/services`, `internal/cbreaker` | a circuit breaker for each service, a deadline for each call | `CallRPC` | all gRPC calls |
| AI service, `ai-service` | worker counters, the chat context in Redis, one speech recognizer | `GenerateText`, `GenerateAudio`, `RecognizeAudio`, `ClearAIContext` | Redis, external models |
| Rate limiter, `gateway/internal/middlewares` | a Redis counter for each user | one `INCR` for each message | Redis |
| Profiles | rows of `users` | `RegUser`, `GetUser`, `UpdSystemPrompt`, `UpdLangLevel`, `DelUser` | PostgreSQL |

What is hard about them, and what makes each correct:

* **State manager and handlers.** Each update runs in a goroutine of its own; a handler
  reads the key, waits for RPCs (the AI may take minutes) and writes what it made of the
  earlier read, and every feature keeps its data in the same field. Correct: the task, the game
  and the administrator's commands find their own data in it (the AI modes read whatever is
  left there), one task takes one answer, a mode the user left does not come back, the data of a
  command are awaited. Nothing in the code keeps two messages of a user from overlapping, so the
  first two are promises about messages that do not.
* **Shiritori.** Three counters, the used words, the letter to follow and one offset for
  each letter are updated in different places, some branches save the session and some do
  not, and handlers overwrite each other. The bot's word is looked up by the column
  `first_letter`, which the administrator's JSON fills and nothing compares with the word.
  Correct: the stored session is one a game can reach, its statistics agree, no word of the user
  repeats, the bot follows the rules as far as the table allows.
* **Answer stream.** Everything between the answer and the row may fail, repeat or happen
  after midnight. Correct: the streak is the number of consecutive days; best and worst
  theme are the extremes of all answers; a redelivered record does no harm; no record is
  walked over; the loop never hangs on a record.
* **Task cache.** Fill after delete, buffers exchanged between caller and callee, hit
  counters under other keys than the reads. Correct: a deleted task is served no longer
  than its time to live; what is counted is what is cached.
* **Notifications.** A cursor over one column compared with another, conversion of chat
  ids, pages read a second apart, batches sent before they are committed. Correct: in a slot
  every user whose last task is not of today gets one reminder, his own; the scheduler neither
  sleeps through a slot nor serves one twice. (No code reads the users' setting for notifications.)
* **RPC retries.** One deadline for all attempts, operations that are not idempotent, a breaker
  shared by all handlers and fed by timeouts. Correct: work is repeated only where nobody can know
  that it was done; the caller is told the truth; a breaker that opened closes again.
* **AI service.** Worker limits by increment-then-compare; a context written minutes after it was
  read; pooled buffers put back before the reply made from them is sent; one recognizer for all
  streams. Correct: the counters agree with the handlers at work, a context holds the turns of its
  user, a reply is the client's own.

`PROJECT.json` lists the hazards at their lines with the properties that guard them. Seven have
none and say why: three are outside the models, and four are overlaps, losses and doubled words that
the code does not prevent, so that the properties nearest to them are stated for the rest. Notes
at others say which part of a hazard its properties leave out.

## Modules and what they model

| Module | About |
|---|---|
| `DayRuns` | What the statistics columns mean, said of the history of credited days and applied answers. |
| `StreakLedger` | Abstract specification: a row always says what the whole history says; one user's row changes at a time. |
| `Delivery` | Abstract specification: what a consumed topic promises, records worked on at least once and in order, an offset that never runs ahead. |
| `AnswerStream` | The detailed stream, gateway to row. EXTENDS `DayRuns`, implements `StreakLedger` and `Delivery`. |
| `AnswerStream_proofs` | Its theorems. |
| `UserSession` | The key of one user and all handlers on it, one Redis command or RPC a step. |
| `WordGame` | Abstract specification: the game as it is said in the chat, a turn of user and bot in one step. |
| `Shiritori` | The game of one user: session, words table, concurrent handlers. Implements `WordGame`. |
| `Shiritori_proofs` | Its theorems. |
| `TaskCache` | The tasks table and the cache before it, all RPCs on them concurrently. |
| `TaskCache_proofs` | Its theorems. |
| `UserSession_proofs` | The theorems of `UserSession`. |
| `Notify` | The reminders: scheduler, topic and dispatcher, with users who register and answer. Implements `Delivery`. |
| `Notify_proofs` | Its theorems. |
| `CallRPC` | One gRPC service as the gateway calls it: retries, deadline and circuit breaker. |
| `CallRPC_proofs` | Its theorems. |
| `AiService` | The handlers of ai-service over their shared counters, pools, recognizer and contexts. |
| `AiService_proofs` | Its types and counters of workers. |
| `AiIsolation_proofs` | That it keeps the conversations and replies of its users apart. |
| `MCAnswerStream`, `MCUserSession`, `MCShiritori`, `MCTaskCache`, `MCNotify`, `MCCallRPC`, `MCAiService` | Values for TLC. |

**AnswerStream.** `pending` is the queue inside kafka-go's asynchronous writer, `log` the
topic, `committed` and `position` the offsets of the group and of the reader. `Deliver`,
`DeliverUnacknowledged` and `GiveUp` are what the writer does with an event (no `Completion`
is set, so nobody learns of the last); `GatewayCrash` loses the queue. `Fetch` /
`SkipUnreadable`, `UpdateStreak`, `UpdateStreakFails`, `UpdateStreakUnanswered` (the UPDATE was
executed, its reply came too late), `Commit` and `CommitFails` are the passes of the loop
`ApplyAnswer`; `Restart` takes the reader back to the committed offset. `UpdateStreak` reads
the clock (`today`, set by `Fetch`), and `NextDay` may fall between any two steps. The UPDATE
is one atomic step, as it is one statement: each CASE sees the row as it was. The event's
field `correct` is left out: `UpdateStreak` does not use it. `credited`, `seen` and `settled`
are history.

**UserSession.** `ctx` is the key; an absent key reads as StateNone without data.
`SetUserCtx`, `UpdUserStateCtx` and `UpdateUserDataCtx` write both fields, the state or the
data, as the Lua scripts do. `json_data` is abstracted to the feature that wrote it and, for a
task, its counter. Every value of `pc` is the next Redis command or RPC of a handler; RPCs
that only fetch (the task, the AI's text) are part of the step before the write that follows.
`Fails` is an error that ends a handler; the errors that do not end it have actions of their
own (`AdminFails`: an error of `handleAdmin` is dropped unless the message was `handled`;
`ScoreFails`: the errors of `UpdateUserTaskCtx` are only logged). `Expire` is the time to live.
The history `clean` says that no two messages were handled at a time.

**Shiritori.** The table `words` is two sequences by serial, `dict` for the word of a row and
`initial` for its `first_letter`: the administrator gives both (`db/words.go:24-28`), and what he gives
may be of the wrong case ("R" for "Run", as in the repository's own `check.gurlf:82`), of another letter
or empty. Letters have case, and `Lower` is `strings.ToLower`. A session is a
record with the letter to follow (`last`), the used words, an offset for each letter and
three counters. A handler goes `Receive` (reads the state) → `LoadSession` (reads the session
anew, counts the attempt) or `StopGame` or `RefuseWord` → `NoAnswer`, `RejectAnswer`, `RefuseMove` or
`PlayMove` (the lookup in learn-service and the rules) → `SaveAttempt` or `SaveMove` (the whole session
is written back). `LastLetter` is `GetLastLetter`, which skips e, j, q and s; `BotSerial` is the
query and the gateway's use of it: every row of the user's word comes first, one row is
dropped, and the next one is the answer. `Candidates` compares `initial` with the letter to go on with
exactly, as the query does (`db/words.go:119`). `RejectAnswer` is the check of the bot's own word
(`router/user.go:194-197`), which a wrong `first_letter` makes reachable: the handler returns an error and
saves nothing. `AddWord` is the administrator's `words_add`, running
at any time. The history `alone` says that no step of the game overlapped a handler.

**TaskCache.** `table` is the table `tasks` by level and position, `entries` and `counts` are the
keys of Redis. A key is the sequence of its prefixes, so that `BuildKey` can be modelled as it is:
it puts a prefix before whatever the pooled buffer holds. `GetTasks` → `Get` → `Share` is
singleflight (`flight` says who asks Redis; the others `wait` and get the same answer, also
an error), then `Select` reads the table, `Count` is the Lua script, `SetEntry` and `DelCount` end
`CacheTasks`. The handler that asked Redis has its `cacheKey` prefixed already, the others
have not, and `CacheTasks` takes the two buffers in the other order than it names them: the
requests of the first are counted at `tasks:count:tasks:cache:k`, those of the others at
`tasks:count:k` (`KeysOf`). `DelTask` → `DeleteRow` → `Uncache` → `Uncount`, and `NewTasks` → `ReadMax` →
`Insert`, are the other two RPCs. `Fails`, `UncacheFails` and `DeleteRowUnanswered` are errors,
`ExpireEntry` and `ExpireCount` the times to live. A page holds one task or none, because (level,
position) is the primary key. Users ask for position `users.task_id`, which no code changes
from its default 1 (`First`). `right`, `hot` and `regular` are history.

**Notify.** `users` and `doneDay` are the columns of the table that `GetUsersByID` reads, `hour` the
clock, which `Tick` advances between any two steps. `Scheduler` is `Plan` (the sleep to the next
slot) → `Wake` → `notify`: `ReadPage` (a page of due users after the cursor) → `WritePage` (itoa, one
message for each, a synchronous write) → `NextPage` (a second later) until `Return`. The cursor is
modelled as the code has it: the last chat id of the page, cut to an int32 (`MaxInt32` is the largest), compared with `id`.
`itoa` and `atoi` are modelled by what they do to a sign. `HandleNotifications` is `Fetch` (until the
batch is full) or `FetchTimesOut` → `Send`, one message a step → `Commit`. `WritePageUnacknowledged`
stores a page twice, `WritePageFails` ends the pass, `ReadPageFails`, `CommitFails`,
`RestartScheduler` and `RestartGateway` are the other failures. A message that Telegram refuses is
sent as well: the code only logs it. `tries`, `pass`, `owed` and `complete` are history.

**CallRPC.** An instance is one service with the breaker all handlers share; `service` chooses its
operations (`Operations`: streams or unary calls, with a deadline or with `context.Background()`).
A handler goes `Call` → the attempts, each admitted by the breaker or turned down → the reply, or
a sleep and another attempt; which errors are retried is `shouldRetry`. The breaker is
gobreaker's: closed, open and half-open, with a generation that changes with its state and at the
end of its interval; an attempt of an older generation does not count (`current`). Time is
`TimePasses` (the interval or timeout of the breaker) and `Expire` (the deadline of a call); the
linear sleeps of i + 1 seconds (README.md:84 calls the backoff exponential) are a step. The service
may be busy, refuse, be unreachable, lose the connection after it did the work, or hang.
`executed`, `lost` and `result` are history.

**AiService.** A handler is in one call: `Enter` (the counter) → `Refuse`, or `GetUserContext` → `SayLine` …
→ `EndAnswer` → `SetUserContext` for a text, `TakeSlice` → `Synthesize` for an audio, `Decode` →
`AcceptWaveform` / `Result` … → `FinalResult` for a voice, and `Deliver`, which is gRPC sending the
reply after the handler has returned. `Leave` is the deferred decrement. `ClearAIContext` and
`ExpireContext` empty a context at any time. What a pool holds is `spare`; it matters that a buffer
for a context is not reset when it is taken, and that the slice of an audio is put back with the
array of the reply behind it. The recognizer is what it took in since its last result; two
handlers in it at a time may lose samples. A `Restart` leaves only Redis. The language model, piper
and vosk are what the service takes from them: lines, an array, the samples. `owner`, `since`,
`mixed` and `erased` are history.

The modules do not compose further: the game's rules do not depend on the rest of
`json_data` (`Expire` of `Shiritori` covers another feature's write, whose JSON has none of a
session's fields), the stream takes answers from `UserSession` as arbitrary events, and a task of
`TaskCache` reaches `UserSession` as the data of `GiveTask`, whatever they are. What `CallRPC` adds to
the other modules is that a call may be executed twice or without its caller knowing; they have
those outcomes as actions of their own (`AddWord` of a word that is there, `DeleteRowUnanswered`,
failures after a write).

## Runs

| Run | Result | Distinct states |
|---|---|---|
| `answer_stream` | pass | 358 000 |
| `answer_consumed` | violation, finding 1 | – |
| `user_session` | pass | 2 800 000 |
| `admin_word_del` | violation, finding 2 | – |
| `speech_stop` | violation, finding 3 | – |
| `shiritori` | pass | 819 000 |
| `shiritori_unique` | violation, finding 4 | – |
| `task_cache` | pass | 771 000 |
| `notify` | pass | 611 000 |
| `notify_all` | violation, finding 5 | – |
| `call_rpc` | pass | 450 000 |
| `ai_service` | pass | 3 200 000 |

`answer_stream`: `StreakIsRun` – the streak is the length of the run of consecutive days that
ends on the last credited day, whatever was doubled, delayed over midnight or lost;
`ThemesAreExtremes` – theme and counter of best and worst never come apart;
`RedeliveryChangesNothing` – the UPDATE is idempotent within a day, so at-least-once delivery
is enough; `EveryRecordIsSettled` – nothing blocks the loop; `ImplementsLedger` – each row is one of
`StreakLedger`; `ImplementsDelivery` – the loop decides on a record after those before it, and the
group's offset never goes back nor beyond a record that was not decided on.
"Day" is always the day of processing, because the event carries no time.

`user_session`: `JsonFitsState` (the task, the game and the administrator's commands find their own data
in the key; the AI modes read what is left there), `CounterIsTwiceBalance` and `OneAnswerPerTask` hold as long
as messages do not overlap (`clean`). Two overlapping answers to one task are both published.
`CounterIsTwiceBalance` records what the code does: an answer is counted twice in the session
(`router/user.go:76` and `:84`), the published counter is one step of that.
`NothingIsResurrected` names the one exception: a handler about to save a game or a task's
score, overtaken by a later message.

`shiritori`: `CountsAgree` and `SessionIsAGame` hold even when handlers overwrite each other's
session, since every write is a whole session that some sequence of moves reaches;
`StopIsFinal` holds while messages are handled one after the other. `ImplementsGame` – a handler's steps
are one turn of the abstract game, which asks for what its state allows: the bot's word always leaves a
letter to follow; as long as messages do not overlap the user's word begins with the letter to
follow and was said by nobody before; if no word is in the table twice either, the bot repeats none of
its own answers; and with unique words and right first letters the bot's word begins with the last letter
of the user's. `BotPlaysByTheRules` says the same of a move in hand, the first letter of the bot's word row
by row. Each condition is needed: the run has a row whose `first_letter` is wrong, which is answered with, a
row whose `first_letter` is in upper case, which is never found, a word without a letter to go on with that is
found, and a second row of one word, which is answered with itself. Nothing in the code prevents such rows
(`words` has no key on the word and no check on `first_letter`, and `NewWords` may be retried).

`task_cache`: `KeysAreDistinct` – with all those prefixes, an entry is stored where `GetTasks`
looks for it, and no counter shares its key; `HotTaskIsCached` – with the two counters a page is
cached after at most 2(`Threshold` - 1) counted requests (the threshold is 10 in the code,
README.md:82 gives 30 as an example); `GhostIsShort` – a page that was right when it was cached
shows a deleted task only while its `DelTask` is between row and cache; `DeletedIsForgotten` –
a handler that read the task before it was deleted, or a failing deletion, may keep it in
the cache, but not for good; `LevelStartsAtFirst` – concurrent bulks leave no gap below a task,
as long as no task is deleted and every bulk is of one level. Both conditions are needed: the
positions of a mixed bulk all follow the maximum of its first task's level, and positions are
never filled again, so that a level whose first task was deleted while others are there
has none for its users from then on.

`notify`: `SleepsToTheNextSlot`, over midnight too; `PassIsComplete` and `RemindedOnce` – a pass that
came to its end reached everybody who was due all along, and nobody more often than the faults
account for – hold when the users fit in one page or the cursor happens to be sound
(`CursorSound`); real chat ids are not, which is finding 5. `ReachesItsUser` – a group's reminder goes
to chat 0, never to another user; `ImplementsDelivery` – no record is committed or preceded by a later
one before it was handed to Telegram, through batches, restarts and commits that fail; `EveryRecordIsTried` and `PassEnds` – liveness of the two loops.

`call_rpc`: `EffectsAgree` – a call does its work once and once more for every connection lost behind
it; success is reported only of work that was done, failure of work that was done only if the
connection or the deadline cut off the answer. `ProbesAreCounted` – the requests a half-open
breaker waits for are the calls in flight that it admitted itself. `BreakerRecovers` – with faults
that end and users who go on calling, an open breaker closes, unless a unary call without deadline
hangs: it keeps its place in the half-open breaker (`ai/handler.go:89`), or all handlers hang in such
streams.

`ai_service`: `WorkersAgree`; `ContextIsOwn` – a context never holds a turn of another user or a turn
twice, and as long as a user's calls do not overlap it is the turns since it was last emptied (a
`ClearAIContext` during an answer is undone by it, main.go:211, hence the condition);
`RepliesAreOwn` – each client is sent what was made of its own request, in order and once, of a
voice only if nobody else's was being recognized.

Each property has a mutant (`PROJECT.json`, "mutants"): a plausible bug of the code, defined
beside the definition it replaces and marked "Mutant:", under which TLC finds the property
violated in the same configuration.

## Bounds

* `MCAnswerStream`: two users, two themes, counters 1 and -1, `MaxAnswers` 3 records,
  `MaxFaults` 2, `MaxDay` 3. Three days are one to start a streak, one to extend it, and with a
  day left out one to start anew; three records and two faults let a record be doubled by the
  producer and by the consumer in the same run, and put a failed record between two applied
  ones. The proofs remove these bounds for everything but liveness.
* `MCUserSession`: two handlers, `MaxMessages` 4, ten kinds of messages, one of every way
  through the handlers; the messages left out differ in names only (the other three ways to
  use the AI have the same steps as one of those in, `task_del` and `words_add` those of
  `tasks_add`). Two overlapping handlers and two messages before them are enough to leave a
  mode and enter another while a handler waits.
* `MCShiritori`: letters a, A, b and the silent s, five words (ab, bas and Ab, which are in the table
  at first, the last with a `first_letter` in upper case; aa; and ss, which no letter follows),
  `MaxMessages` 5, `MaxWords` 4: one row is added, a new word with the right `first_letter` or a wrong one, a
  word that is there already, or ss where the bot will find it.
  Five messages are a game of two moves, its end, and a second game. The runs for findings use
  the same or smaller instances; `answer_consumed` has one fault, so that the failed UPDATE is
  all that goes wrong and the answer is lost for good.
* `MCTaskCache`: two handlers, two levels (the users are of the first), positions 1 and 2, one task,
  `Threshold` 2, a bulk of one level and a bulk of both. Two handlers are one that asks Redis and
  one that waits, or a reader and an overtaking `DelTask`; the threshold of 2 tells the first
  count from the one that caches, for both counters. RPCs are not bounded in number.
* `MCNotify`: a day of 3 hours with slots at 0 and 2, hours 4 to 6 (a slot before midnight, midnight, a
  slot after it), pages and batches of 2, at most 3 users, 3 records and one fault. The cursor has 3
  bits (`MaxInt32` is 3), so that chat ids wrap around as those of Telegram do in 32: 9 becomes 1, -6 becomes 2. Two
  tables: one user, and two for whom the cursor happens to be sound; one more may register.
* `MCCallRPC`: two handlers, 3 attempts, a breaker that opens after 2 failures and closes after 2
  probes, 3 faults. Two handlers are a probe and one beside it; with three attempts there is one
  after the breaker opened half-way.
* `MCAiService`: three handlers and calls, two users, limit 2, two lines or chunks, one fault. Three
  handlers exceed the limit by one, three calls let a buffer be used by a third call after its
  first owner's reply is on its way. Symmetry in handlers and users: no temporal property.
* Deadlock is checked for `MCTaskCache` only: the other systems come to rest when their
  bounded environment has nothing more to send. That the loop does not stop before is `EveryRecordIsSettled`.

Elsewhere no symmetry is used: it is not sound for the runs with temporal properties, and words,
chats and messages are not interchangeable.

## Fairness

`AnswerStream`, `TaskCache`, `Notify` and `CallRPC` have liveness properties. `FairSpec` of `AnswerStream` is `WF_vars(Consume)`: `main` starts
`ApplyAnswer` once, for the life of the process; the loop waits for nothing but
`FetchMessage`, and every call in it has a deadline. Which of the outcomes of a call happens
is not constrained. Nothing is assumed of the producer, the clock or restarts; the number of
faults is bounded, as no liveness survives a service that restarts for ever. No fairness is
assumed of the handlers of the gateway: no property needs it.

`FairSpec` of `TaskCache` is weak fairness of each handler's steps (every command and statement
ends, at the latest with the deadline the gateway gives its RPC) and of `ExpireEntry` for every
key, since `SET` is given TASK_TTL. Nothing is assumed of which outcome a step has, of the
expiry of counters, or of new calls.

`FairSpec` of `Notify` is weak fairness of the scheduler and of the dispatcher: both are goroutines
started with their process, and every step of theirs has a timeout. Nothing is assumed of users,
clock or faults.

`FairSpec` of `CallRPC` is weak fairness of the breaker's time, of each deadline, of each handler's
steps, and of new calls: a breaker looks at the clock only when it is called. It does not
include the answers of a service that hangs.

## Proofs

TLAPS checks the following for every value of the constants, under the assumptions named in
the modules (`DaysAssumption`: days are naturals after 0; `AnswersAssumption`: events are
well-typed and differ from unreadable records; `WordsAssumption`: words are
non-empty sequences of letters; `RowsAssumption`: the rows of the table, at first and added, are a word and a
letter or none, in any relation; `LettersAssumption`: every letter has a lower case, "/stop" is no word, "" is no
letter; `NumbersAssumption`, `SetsAssumption`, `CallersAssumption`: the bounds are naturals, 0 is no user, the
handlers are finitely many; `MessagesAssumption`; of `Notify`, `SizesAssumption`: a page and a batch hold at least
one, a day has hours; `SlotsAssumption`: the slots ascend within a day; `TablesAssumption`: a table gives
chats, which are integers, to ids up to the bound).

`AnswerStream_proofs`:

* `TypeCorrect` (`TypeOK` is inductive: the offsets stay in order, the record in hand is
  readable) and `NoRecordPassedOver` (no run states it: what lies before the position was decided
  on; with `TypeOK` it is inductive as it stands, and the restart is covered by the part about
  `committed`).
* `RowsAgreeWithHistory`: the inductive invariant `RowsAgree` says for each user that the row
  agrees with the history, and that no credited day lies after `today`. The second part is
  needed, because the CASE on `lastDoneDay` is only right when the clock never ran back past a
  credited day. The lemma `RunGrows` is about runs of days alone, `UpdateKeepsRows` about the
  one UPDATE. `StreakIsTheRun`, `ThemesAreTheExtremes` and `RedeliveryIsIdempotent` follow.
* `StreamImplementsLedger`: each step of the stream is a step of `StreakLedger` or leaves its
  variables alone.
* `StreamImplementsDelivery`, from `NoRecordPassedOver`: the three outcomes of the UPDATE are `Finish` of
  the record in hand or, when it was decided on before, a stutter; `Commit` is `Advance`; what the
  writer does only grows the topic (`TopicGrows`); a restart is not seen at all.

`Shiritori_proofs`:

* `TypeCorrect`, by the inductive `TypeInv`: `TypeOK` and what each handler has in hand
  (`InHand`: a word with a letter to go on with; a row of the table to answer with). The helper
  lemmas say what `GetLastLetter` and the query return (`LastLetterType`, `BotSerialIsARow`); `MinNat` and `MaxPosition` are needed since `Min` and `Max` are choices.
* `NumbersAgree` and `StoredSessionIsAGame`, by the inductive `GameInv`: the stored session
  *and the session each handler works on* satisfy `IsGame`. The second part is what makes
  overlapping writes harmless. During the lookup the attempt is counted and not answered
  (`Unanswered`), which the bound `correct <= user` needs.
* `NeverRepeats` and `StoppedIsOver`, by `AloneInv`: while nothing overlapped, at most one
  handler is at work, the key has not changed since it read it, and the words of the game's
  history are among the used ones. (`NeverRepeats` is stated by no run of its own; a turn of
  `WordGame` contains it.)
* `BotAlwaysPlaysByTheRules`, by `LeavesInv`, `AnswersInv` and `BotInv`: the word of a row in hand leaves a
  letter, from the check in the handler alone, for every table (`MoveInHand`); its `first_letter` is the letter
  to go on with, which needs distinct words and no order of handlers, and is the first letter of its word
  where the table is right; while nothing overlapped, no reply of the game lies behind the offset of its
  `first_letter`, and a row in hand lies behind it. The offsets are kept by `first_letter`, so that the bot does
  not repeat itself in a table with wrong ones either.

* `HandlersImplementGame`: `SaveMove` is `Turn` with the word and the row in hand. `MoveIsNew` says what the
  invariants above know of a move that is about to be saved, `MoveIsATurn` that this is what
  a turn asks for; `AlwaysByTheRules` joins the invariants. `GoBack` is what an overtaken
  handler does, and only after two messages met.

`UserSession_proofs`, every safety property of the module:

* `TypeCorrect`, by `TypeInv`: in addition a handler is where its message takes it (`Fits`), without
  which the tables of states would be applied outside of their domains.
* `AnswerAlwaysHasTask`: whoever is in StateTaskLearning has data to answer, under all interleavings. It
  needs no more than types, and no run states it.
* `JsonAlwaysFits`, `CounterAlwaysTwice`, `TaskAnsweredOnce`, `ModesStayLeft`, by `CleanInv`: while nothing
  overlapped, at most one handler is at work; `InHand` says what it may rely on at each of its steps
  (in the middle of an answer the counter is off by one answer, before or after `Publish`), and `Rest`
  what holds between messages. `CleanMove` is the argument of all steps.

`CallRPC_proofs`: `TypeCorrect`, and `EffectsAgreeWithReports` by an invariant that says for each step of
an attempt how often the work was done (`EffectOf`), whatever the number of attempts, the state
of the breaker and the other handlers. `ProbesAlwaysCounted`: a call counts for the breaker while its
generation is the current one, and a new generation, which starts with all counts at 0, is larger
than that of every call in flight (`NewGeneration`), so none is counted in it; `AdmitCounted` and
`ReportCounted` are the two places where calls enter and leave. `RefusesOnlyForProbes` follows: a
half-open breaker turns a call down only while one of its own probes is in flight.

`AiService_proofs`: every step of a handler is a beginning, a continuation or an end (`Begins`, `Goes`,
`Marks`, `Ends`, proved for each action); a beginning adds it to the counted handlers, an end
removes it, and the rest leaves them alone. From that `WorkersAlwaysAgree` for every limit, and
`TypeCorrect`, of which the sign of the counters needs it.

`AiIsolation_proofs`:

* `ContextAlwaysOwn`, by `CtxInv`: wherever a context is, in Redis or in the hands of a handler, it is
  its user's, without what was erased (`ContextsOwn`); the turn that is being answered is in none
  (`PendingNew`); no two handlers have one call (`CallsDiffer`); and where the calls of a user did not
  overlap, one handler at most has his context, as it is stored or with its turn (`OneByOne`).
* `RepliesAlwaysOwn`, by `ReplyInv`: `Local` says what a handler has at a step of its own; the array
  behind a reply is written by nobody else, as it is named after the call (from `CallsDiffer`); a voice
  that was alone with the recognizer has all its parts there or in its reply, and a recognizer nobody
  uses is empty.

`TaskCache_proofs`, every invariant of the module:

* `TypeCorrect`: `HandlerType` adds what a handler has at each step (`Fits`), and `MaxOfType` that the
  highest position, which the model chooses, exists.
* `KeysAlwaysDistinct`, by `KeyInv`: every key of Redis is one of the three a task makes
  (`EntryKey`, `CountKey`, `LeaderKey`), and `KeysDiffer` says that no two of all of them are equal.
* `GhostAlwaysShort`: with types it is inductive as it stands.
* `HotTaskAlwaysCached`, by `HotInv`: what was counted is at most the sum of what the two counters
  show, each cut at the threshold less one, unless a handler is about to cache the page.
* `LevelAlwaysStartsAtFirst`, by `LevelInv`: the position a handler is about to insert after is still
  taken, as no row is deleted; that it is still the highest is neither true nor needed.

`Notify_proofs`, every invariant of the module but the finding, for every table of users, size of pages
and batches, list of slots and width of the cursor:

* `TypeCorrect`, by `TypeInv`, which adds the types of the records and of the history. The lemmas
  before it say what the queries return: `Rank` (how many ids are smaller) orders a finite set, so
  `InOrder` lists each id once and `Smallest` leaves only greater ones.
* `NextSlotAlways`: `NextSlotIsFirst` is about `getNextSlotTime` alone, by quotient and remainder.
* The first half of `AlwaysRemindedOnce`, by `SentInv`: what lies before the position sent next (`Front`)
  was sent, what lies behind it was sent at most once per restart.
* `GatewayImplementsDelivery`, from `SentInv`: `DispatchDelivers` maps `Send` to `Finish` (or, of a record sent
  before a restart, to a stutter) and `Commit` to `Advance`; the scheduler's writes are `Store`, and
  everything else leaves topic, tries and offset alone.
* `AlwaysReachesItsUser`, by `LogInv`: every record holds the chat of its user, who keeps it.
* `PassAlwaysComplete`, by `OwedInv` and `PassInv`: whoever is owed is written, in the page in hand, or
  ahead of the cursor. Only `CursorOrder` needs a sound cursor, so it is the place where the
  cursor over chat ids is wrong; soundness, once lost as users register, does not come back
  (`SoundBefore`).
* The second half of `AlwaysRemindedOnce`, by `CopiesInv`: nobody ahead of the cursor has a record of
  this pass, nobody in the page more than the writer's copies.

Progress. Liveness needs fairness and ENABLED and stays with TLC: `EveryRecordIsSettled`,
`EveryRecordIsTried`, `PassEnds`, `DeletedIsForgotten` and `BreakerRecovers` are model-checked only. What is
proved is the part of each argument that no bounded instance shows, a measure that every step of
the process in question decreases and that nothing but the named causes increases:

* `EveryPassShrinksBacklog`: each step of `ApplyAnswer`, whatever its calls return, decreases `Backlog`;
  only a new record or a restart increases it; at 0 every record is settled.
* `EveryStepDelivers`: the same of `HandleNotifications` and `Undelivered`, a failed commit included.
* `PassGoesForward`: from page to page of a pass the cursor grows strictly, and a page lies between
  the old and the new one, if the users fit in a page or the cursor is sound.
* `EveryCallComesToItsEnd`: each step of a call leaves it fewer (`StepsLeft`, at most 4 for an attempt), no
  step of others gives it more, and only a service that hangs holds it.
* `GhostsDieOut`: once a task is in no row, the handlers that may still cache it (`Writers`) only get
  fewer, and each time it comes back to the cache there is one less.

Every other property of the passing runs is proved. The violations, of course, are TLC's.

## Findings

Each is a run that TLC ends with a counterexample; `PROJECT.json` quotes the documentation.

1. `answer_consumed`: an answer whose UPDATE failed is never applied; the next commit covers it
   (`users-service/main.go:409-431`).
2. `admin_word_del`: `word_del` resets its own state in the same message, so no word can be
   deleted (`router/admin.go:55`).
3. `speech_stop`: "/stop" in the mode with speech both ways is followed by a question to the AI
   and a voice answer (`router/user.go:304`).
4. `shiritori_unique`: the bot may answer with a word the user has played in the same game
   (`users/handler.go:335`, README.md:77).
5. `notify_all`: the cursor over the due users is their chat id: with 20 or more of them a pass skips
   users, or repeats them (`users-service/internal/notifysystem/notifysystem.go:114`, README.md:91).

## Not modelled

* Reuse of the pooled buffers of `TaskCache` by two handlers at a time: each takes its own from the
  pool and puts it back when it returns. The bound of 64 bytes on a key is not modelled: the
  longest prefix has 24 bytes, and the levels a user can set are the short names in `LANG_LEVELS`.
* `DelWord` is not part of `Shiritori`: finding 2 makes it unreachable from the bot.
* `/start`, Profile, Help and the transcript button read or write nothing the models keep.
* Profiles are single SQL statements on one row; start-up and shutdown are straight-line code.
* Keyboards, JSON parsing, environment variables, ffmpeg and the AI models: no state of ours.
* A Redis write that is executed and whose reply is lost counts as a write; the error message
  to the user after it is not modelled.
* The rate limiter is one atomic Redis script for each text message with one counter for each
  user. What it promises is a rate; the window is fixed (README.md:83 says sliding), and twice
  the limit passes around its end. A model without a clock shows neither.
* The partial results of a recognition: the router is a value receiver, its window never moves,
  and nothing partial reaches a client. The timeout of the AI calls, which is multiplied by
  `time.Second` twice, is 147 years after the overflow; handlers of `AiService` have none.
* What Telegram does with a reminder, and the text of one.
* A partition that Kafka assigns anew to a reader inside the running process. `Restart` and
  `RestartGateway` are restarts of the process, which drop what is in hand; a rebalance would not: `ApplyAnswer`
  (`users-service/main.go:391-423`) and `HandleNotifications` (`users/handler.go:367-430`) go on with their record
  or batch and commit it in the new generation, after reads that start at the committed offset again. What the
  runs and theorems say of offsets is said of groups whose one reader keeps the partition while it runs.

Read in the code and reflected in the models, without a property of its own: `GetEnvInt` is given
the value of a variable instead of its name, so the limits of ai-service are always the defaults
and the administrator is 0; the gateway sends no Uuid with audio and speech, which is that 0, so
those limits are never enforced. After its last attempt `retryRPC` loses the status of the error,
so the branch for `ResourceExhausted` in `ai/handler.go:95` is not reached. The attempts after a
deadline has passed never reach the service.

## Plan

Done, in this order:

1. `AnswerStream` with `StreakLedger`, and their proofs.
2. `Shiritori` and its proofs.
3. `UserSession` and its proofs.
4. `TaskCache` and its proofs.
5. `Notify` and its proofs.
6. `CallRPC` and its proofs.
7. `AiService` and its proofs.

Done since: `Delivery` and `WordGame` as abstract specifications, with the refinements and the
theorems of progress.

Left: an abstract conversation that `AiService` implements, and one of `UserSession` in which a
message is one step.
