------------------------------- MODULE Shiritori -------------------------------
(***************************************************************************)
(* The Shiritori game of one user: the session that the gateway keeps in     *)
(* Redis, the words table of learn-service, and the handlers of the user's   *)
(* messages.  telebot runs every update in a goroutine of its own, so two    *)
(* messages of the user may be handled at the same time; a handler reads the *)
(* state, reads the session, asks learn-service for words and writes the     *)
(* whole session back, and nothing ties these steps together.  The key may   *)
(* also expire, and a Redis write or an RPC may fail.                        *)
(***************************************************************************)
EXTENDS Integers, Sequences, FiniteSets, FiniteSetsExt

CONSTANTS
  Letters,      \* letters, upper and lower case
  Lower,        \* the lower case of each
  Words,        \* what the user may send: non-empty sequences of letters
  FirstWords,   \* the words table at first: the word of every serial ...
  FirstInitials,  \* ... and its first_letter
  NewRows,      \* the rows the administrator may add: pairs of word and first_letter
  Stop,         \* the message "/stop"
  Silent,       \* the letters GetLastLetter skips: e, j, q, s
  NoLetter,     \* the empty string
  Handlers,     \* goroutines that may handle messages of this user at a time
  MaxMessages,  \* bound: messages of the user
  MaxWords      \* bound: rows of the words table

ASSUME WordsAssumption == Words \subseteq Seq(Letters) \ {<<>>}
ASSUME LettersAssumption ==
  /\ Lower \in [Letters -> Letters]
  /\ Stop \notin Words /\ Silent \subseteq Letters /\ NoLetter \notin Letters

\* What first_letter may hold, a VARCHAR(1) that nothing compares with the word.
Initials == Letters \cup {NoLetter}

ASSUME RowsAssumption ==
  /\ FirstWords \in Seq(Words)
  /\ FirstInitials \in Seq(Initials) /\ Len(FirstInitials) = Len(FirstWords)
  /\ NewRows \subseteq Words \X Initials

VARIABLES
  dict,       \* the words table: the word of every serial ...
  initial,    \* ... and its first_letter, as the administrator gave it
  ctx,        \* the user's key of the state manager: [state, ses]
  pc,         \* what every handler does next
  word,       \* the message it handles
  local,      \* the session it works on
  messages,   \* messages handled so far
  accepted,   \* history: words of the user the game accepted, in this game
  replies,    \* history: serials of the words the bot answered with, in this game
  alone       \* history: no step of this game overlapped the handling of a message

sessionVars == <<dict, initial, ctx, accepted, replies>>
handlerVars == <<pc, word, local>>
vars == <<dict, initial, ctx, pc, word, local, messages, accepted, replies, alone>>

FirstLetter(w) == Lower[w[1]]

\* Mutant: the offset of a letter that was not played is the one before the first.
NewSessionBefore ==
  [last |-> NoLetter, used |-> {}, offsets |-> [l \in Letters |-> 0 - 1],
   all |-> 0, user |-> 0, correct |-> 0]

NewSession ==
  [last |-> NoLetter, used |-> {}, offsets |-> [l \in Letters |-> 0],
   all |-> 0, user |-> 0, correct |-> 0]

Sessions ==
  [last : Letters \cup {NoLetter}, used : SUBSET Words,
   offsets : [Letters -> Nat],
   all : Nat, user : Nat, correct : Nat]

Init ==
  /\ dict = FirstWords /\ initial = FirstInitials
  /\ ctx = [state |-> "None", ses |-> NewSession]
  /\ pc = [h \in Handlers |-> "idle"]
  /\ word = [h \in Handlers |-> Stop]
  /\ local = [h \in Handlers |-> NewSession]
  /\ messages = 0
  /\ accepted = {} /\ replies = {} /\ alone = TRUE

-------------------------------------------------------------------------------
(* Rules of the game.                                                        *)

\* GetLastLetter: the last letter that is not silent, in lower case, "" when all are.
LastLetter(w) ==
  LET heard == {i \in 1 .. Len(w) : Lower[w[i]] \notin Silent}
  IN  IF heard = {} THEN NoLetter ELSE Lower[w[Max(heard)]]

Serials(w) == {s \in DOMAIN dict : dict[s] = w}

\* Mutant: the offset is inclusive.
CandidatesFromOffset(w, offset) ==
  {s \in DOMAIN dict : initial[s] = LastLetter(w) /\ s >= offset} \ Serials(w)

\* The rows GetWordsWithTarget finds beside the user's word: those whose first_letter is
\* its last letter, whatever their word begins with, and that come after the offset.
Candidates(w, offset) ==
  {s \in DOMAIN dict : initial[s] = LastLetter(w) /\ s > offset} \ Serials(w)

\* Every row of the user's word comes first (CASE WHEN word = ?), the gateway drops
\* the first row of the reply, and the bot answers with the next one. 0: the word is
\* not in the table, or there is nothing to answer with.
BotSerial(w, offset) ==
  IF Serials(w) = {}
    THEN 0
    ELSE LET twins == Serials(w) \ {Min(Serials(w))}
             rows  == IF twins # {} THEN twins ELSE Candidates(w, offset)
         IN  IF rows = {} THEN 0 ELSE Min(rows)

\* A word is counted: the one the bot has found, or the one the user tries.
CountWord(ses) == [ses EXCEPT !.all = @ + 1]
Attempt(ses) == [CountWord(ses) EXCEPT !.user = @ + 1]

Follows(ses, w) == ses.last \in {NoLetter, FirstLetter(w)}

\* Mutant: the answer of the bot is not counted against the user's correct words.
MoveUncounted(ses, w, s) ==
  [ses EXCEPT !.last = LastLetter(dict[s]), !.used = @ \cup {w, dict[s]},
              !.offsets[LastLetter(w)] = s]

\* Mutant: the letter to go on with is taken from the word of the user.
MoveKeepsLetter(ses, w, s) ==
  [ses EXCEPT !.last = LastLetter(w), !.used = @ \cup {w, dict[s]},
              !.offsets[LastLetter(w)] = s, !.correct = @ + 1]

\* UpdateUserShiritoriCtx, once the rules are kept: the bot answers w with row s.
Move(ses, w, s) ==
  [last |-> LastLetter(dict[s]), used |-> ses.used \cup {w, dict[s]},
   offsets |-> [ses.offsets EXCEPT ![LastLetter(w)] = s],
   all |-> ses.all, user |-> ses.user, correct |-> ses.correct + 1]

-------------------------------------------------------------------------------
(* The handlers.                                                             *)

Busy == {h \in Handlers : pc[h] # "idle"}

EndHistory == accepted' = {} /\ replies' = {}

\* The handler of this message is done.
Return(h) ==
  /\ pc' = [pc EXCEPT ![h] = "idle"]
  /\ word' = [word EXCEPT ![h] = Stop]
  /\ local' = [local EXCEPT ![h] = NewSession]

\* handleDefaultState and handleState read the state of the user.
Receive(h, w) ==
  /\ pc[h] = "idle" /\ messages < MaxMessages
  /\ ctx.state = "Shiritori"
  /\ pc' = [pc EXCEPT ![h] = "load"]
  /\ word' = [word EXCEPT ![h] = w]
  /\ messages' = messages + 1
  /\ alone' = (alone /\ Busy = {})
  /\ UNCHANGED <<sessionVars, local>>

\* Mutant: the game is stopped without returning.
StopGameGoesOn(h) ==
  /\ pc[h] = "load" /\ word[h] = Stop
  /\ ctx' = [state |-> "None", ses |-> NewSession]
  /\ pc' = [pc EXCEPT ![h] = "saveAttempt"]
  /\ EndHistory
  /\ UNCHANGED <<dict, initial, word, local, messages, alone>>

\* The Shiritori case reads the session again, and "/stop" ends the game.
StopGame(h) ==
  /\ pc[h] = "load" /\ word[h] = Stop
  /\ ctx' = [state |-> "None", ses |-> NewSession]
  /\ Return(h)
  /\ EndHistory
  /\ UNCHANGED <<dict, initial, messages, alone>>

\* A word without a letter to go on with is refused, and nothing is saved.
RefuseWord(h) ==
  /\ pc[h] = "load" /\ word[h] # Stop /\ LastLetter(word[h]) = NoLetter
  /\ Return(h)
  /\ UNCHANGED <<sessionVars, messages, alone>>

\* The session is read, whatever the state is by now, and the attempt counted.
LoadSession(h) ==
  /\ pc[h] = "load" /\ word[h] # Stop /\ LastLetter(word[h]) # NoLetter
  /\ local' = [local EXCEPT ![h] = Attempt(ctx.ses)]
  /\ pc' = [pc EXCEPT ![h] = "lookup"]
  /\ UNCHANGED <<sessionVars, word, messages, alone>>

\* What the bot will answer with, from the offset in the session that was read.
Answer(h) == BotSerial(word[h], local[h].offsets[LastLetter(word[h])])

\* GetWordsWithTarget finds no such word, or nothing to answer with: the attempt is
\* going to be saved.
NoAnswer(h) ==
  /\ pc[h] = "lookup" /\ Answer(h) = 0
  /\ pc' = [pc EXCEPT ![h] = "saveAttempt"]
  /\ UNCHANGED <<sessionVars, word, local, messages, alone>>

\* The word the bot has found leaves the user a letter to go on with.
CanFollow(h) == LastLetter(dict[Answer(h)]) # NoLetter

\* It does not: the handler returns an error, whatever the user's word is, and nothing is
\* saved, the attempt included.
RejectAnswer(h) ==
  /\ pc[h] = "lookup" /\ Answer(h) # 0 /\ ~CanFollow(h)
  /\ Return(h)
  /\ UNCHANGED <<sessionVars, messages, alone>>

\* Mutant: a used word is played again.
BreaksRulesMatchOnly(ses, w) == ~Follows(ses, w)

BreaksRules(ses, w) == ~Follows(ses, w) \/ w \in ses.used

\* The bot has a word, and the user broke a rule: nothing is saved, the attempt
\* included.
RefuseMove(h) ==
  /\ pc[h] = "lookup" /\ Answer(h) # 0 /\ CanFollow(h)
  /\ BreaksRules(local[h], word[h])
  /\ Return(h)
  /\ UNCHANGED <<sessionVars, messages, alone>>

\* The bot has a word and the rules are kept: the new session is ready to be saved.
PlayMove(h) ==
  /\ pc[h] = "lookup" /\ Answer(h) # 0 /\ CanFollow(h)
  /\ ~BreaksRules(local[h], word[h])
  /\ local' = [local EXCEPT ![h] = Move(CountWord(@), word[h], Answer(h))]
  /\ pc' = [pc EXCEPT ![h] = "saveMove"]
  /\ UNCHANGED <<sessionVars, word, messages, alone>>

\* SetUserCtx writes the whole session, whatever the key holds by now.
SaveState(h) == ctx' = [state |-> "Shiritori", ses |-> local[h]]

\* saveState
SaveAttempt(h) ==
  /\ pc[h] = "saveAttempt"
  /\ SaveState(h)
  /\ Return(h)
  /\ UNCHANGED <<dict, initial, messages, accepted, replies, alone>>

\* The SetUserCtx at the end of UpdateUserShiritoriCtx, and the bot's answer.
SaveMove(h) ==
  /\ pc[h] = "saveMove"
  /\ SaveState(h)
  /\ Return(h)
  /\ accepted' = accepted \cup {word[h]}
  /\ replies' = replies \cup {local[h].offsets[LastLetter(word[h])]}
  /\ UNCHANGED <<dict, initial, messages, alone>>

\* An RPC or a Redis command fails, and the handler returns the error. (A write that
\* was executed and whose reply is lost is a save: what is sent to the user after it
\* is not modelled.)
HandlerFails(h) ==
  /\ pc[h] # "idle"
  /\ Return(h)
  /\ UNCHANGED <<sessionVars, messages, alone>>

\* The user presses "Shiritori": SetUserCtx(StateShiritori, nil).
StartGame ==
  /\ ctx' = [state |-> "Shiritori", ses |-> NewSession]
  /\ EndHistory
  /\ alone' = (Busy = {})
  /\ UNCHANGED <<dict, initial, handlerVars, messages>>

\* The key expires 30 minutes after the last SetUserCtx, or another feature of the bot
\* writes its own state to it: the JSON of neither reads as a game.
Expire ==
  /\ ctx.state = "Shiritori"
  /\ ctx' = [state |-> "None", ses |-> NewSession]
  /\ EndHistory
  /\ alone' = (alone /\ Busy = {})
  /\ UNCHANGED <<dict, initial, handlerVars, messages>>

\* The administrator adds a word, a second time perhaps: the table has no key on it. Its
\* first_letter is what his JSON says, in any case and right or wrong.
AddWord(w, first) ==
  /\ Len(dict) < MaxWords
  /\ dict' = Append(dict, w) /\ initial' = Append(initial, first)
  /\ UNCHANGED <<ctx, accepted, replies, handlerVars, messages, alone>>

Handle(h) ==
  \/ \E w \in Words \cup {Stop} : Receive(h, w)
  \/ StopGame(h) \/ RefuseWord(h) \/ LoadSession(h)
  \/ NoAnswer(h) \/ RejectAnswer(h) \/ RefuseMove(h) \/ PlayMove(h)
  \/ SaveAttempt(h) \/ SaveMove(h) \/ HandlerFails(h)

Next ==
  \/ StartGame \/ Expire
  \/ \E row \in NewRows : AddWord(row[1], row[2])
  \/ \E h \in Handlers : Handle(h)

Spec == Init /\ [][Next]_vars

-------------------------------------------------------------------------------
(* Properties.                                                               *)

TypeOK ==
  /\ dict \in Seq(Words)
  /\ initial \in Seq(Initials) /\ Len(initial) = Len(dict)
  /\ ctx \in [state : {"None", "Shiritori"}, ses : Sessions]
  /\ pc \in [Handlers -> {"idle", "load", "lookup", "saveAttempt", "saveMove"}]
  /\ word \in [Handlers -> Words \cup {Stop}]
  /\ local \in [Handlers -> Sessions]
  /\ messages \in Nat
  /\ accepted \subseteq Words /\ replies \subseteq 1 .. Len(dict)
  /\ alone \in BOOLEAN

\* The numbers "/stop" reports: all minus the user's attempts are the words of the bot,
\* and the bot has answered every correct word of the user, even when concurrent
\* handlers overwrite each other's session.
CountsAgree ==
  /\ ctx.ses.all - ctx.ses.user = ctx.ses.correct
  /\ ctx.ses.correct <= ctx.ses.user

\* A stored session is one that a game can reach, whichever handlers wrote it: it has
\* a letter to follow exactly when a move was made, that is the last letter of a word
\* the bot answered with, and every offset is the serial of a used word.
SessionIsAGame ==
  LET ses == ctx.ses
      answered == {ses.offsets[l] : l \in Letters} \ {0}
  IN  /\ ses.correct = 0 <=> ses.last = NoLetter
      /\ \A s \in answered : dict[s] \in ses.used
      /\ ses.last # NoLetter => \E s \in answered : ses.last = LastLetter(dict[s])

UniqueWords == \A s, t \in DOMAIN dict : dict[s] = dict[t] => s = t

\* The table gives the word of row s its first letter, in lower case.
IsTruthful(s) == initial[s] = FirstLetter(dict[s])
TruthfulTable == \A s \in DOMAIN dict : IsTruthful(s)

\* The bot's word always leaves a letter to follow, also when first_letter is wrong. While
\* no word is in the table twice it begins with the last letter of the user's, if its own
\* row has the right first_letter; and while messages are handled one after the other, it
\* is never the same row twice, whatever the letters in the table.
BotPlaysByTheRules ==
  \A h \in Handlers :
    pc[h] = "saveMove" =>
      LET s == local[h].offsets[LastLetter(word[h])]
      IN  /\ LastLetter(dict[s]) # NoLetter
          /\ UniqueWords /\ IsTruthful(s) => FirstLetter(dict[s]) = LastLetter(word[h])
          /\ UniqueWords /\ alone => s \notin replies

\* A game that was stopped or has expired comes back only when the user starts one,
\* unless a handler was still at work on it.
StopIsFinal ==
  [][ctx.state = "None" /\ ctx'.state = "Shiritori" => StartGame \/ ~alone]_vars

\* What is said in the chat is a game, from the step that starts it to the one that
\* stops it or lets it expire: the handlers that read, look up and write back the
\* session, with their failures, implement the turns of WordGame.
Game == INSTANCE WordGame
          WITH First <- [w \in Words |-> FirstLetter(w)],
               Last <- [w \in Words |-> LastLetter(w)],
               playing <- (ctx.state = "Shiritori"), letter <- ctx.ses.last,
               said <- accepted, answered <- {dict[s] : s \in replies},
               orderly <- alone, unique <- UniqueWords, truthful <- TruthfulTable
ImplementsGame == Game!GameSpec

\* README.md:77: "The system guarantees unique word usage per session".
WordsAreUnique ==
  \A h \in Handlers :
    alone /\ UniqueWords /\ pc[h] = "saveMove" =>
      dict[local[h].offsets[LastLetter(word[h])]] \notin accepted \cup {word[h]}
===============================================================================
