------------------------------- MODULE TaskCache -------------------------------
(***************************************************************************)
(* learn-service's tasks: the table, and the cache in Redis before it.       *)
(* GetTasks asks Redis through singleflight, then the table, counts the      *)
(* request and caches what it read once the count has reached a threshold;   *)
(* DelTask deletes the row and then what Redis has of it; NewTasks reads the *)
(* highest position and inserts after it, and leaves the cache alone.  Every *)
(* RPC is a goroutine that makes one command or statement at a time, each of *)
(* which may fail; the gateway may repeat an RPC, hence any of them may come *)
(* at any time.  Entries and counters expire.                                *)
(***************************************************************************)
EXTENDS Integers, Sequences, FiniteSets

CONSTANTS
  Levels,      \* levels of English
  UserLevels,  \* those of the users
  Tasks,       \* tasks, as the administrator writes them
  NoTask,      \* no row, and the page "[]" made of it
  Bulks,       \* what NewTasks is called with: sequences of [level, task]
  Handlers,    \* goroutines of the RPCs
  Nobody,      \* no handler
  Miss,        \* no page: a key that is not there, or an error of Redis
  Threshold,   \* the count from which a page is cached: 10
  MaxPosition  \* bound: the highest position of a task

ASSUME BulksAssumption ==
  Bulks \subseteq Seq([level : Levels, task : Tasks]) \ {<<>>}
ASSUME ThresholdAssumption == Threshold \in Nat \ {0} /\ MaxPosition \in Nat \ {0}
ASSUME LevelsAssumption == UserLevels \subseteq Levels
ASSUME DistinctAssumption ==
  Nobody \notin Handlers /\ NoTask \notin Tasks /\ Miss \notin Tasks \cup {NoTask}

VARIABLES
  table,    \* the tasks table: the task at every level and position
  entries,  \* Redis: the pages that are cached, by key
  counts,   \* Redis: the counters, by key
  flight,   \* singleflight: who asks Redis for a task
  pc,       \* the next command or statement of every handler
  loc,      \* its variables: [key, leads, page, bulk, base]
  right,    \* history: the keys whose page was the row when it was stored, as long as it
            \* is cached and no attempt to delete it has failed since
  hot,      \* history: requests counted since a page was cached or a counter was deleted
            \* last, or an error of Redis
  regular   \* history: every bulk was of one level, and no row was deleted

redisVars == <<entries, counts>>
historyVars == <<right, hot, regular>>
vars == <<table, entries, counts, flight, pc, loc, right, hot, regular>>

Positions == 1 .. MaxPosition
Pages == Tasks \cup {NoTask}

\* The gateway asks for position users.task_id, which is 1 by default and nothing
\* changes.
First == 1

AKey == Levels \X Positions

\* BuildKey puts a prefix before what the buffer holds already.
BuildKey(prefix, buf) == <<prefix>> \o buf

EntryKey(k) == BuildKey("tasks:cache:", <<k>>)

NoBulk == <<>>

\* A handler that is idle, or has no use for them yet.
Blank == [key |-> <<>>, leads |-> FALSE, page |-> Miss, bulk |-> NoBulk, base |-> 0]

Init ==
  /\ table = [k \in AKey |-> NoTask]
  /\ entries = <<>> /\ counts = <<>>
  /\ flight = [k \in AKey |-> Nobody]
  /\ pc = [h \in Handlers |-> "idle"]
  /\ loc = [h \in Handlers |-> Blank]
  /\ right = {}
  /\ hot = [k \in AKey |-> 0]
  /\ regular = TRUE

-------------------------------------------------------------------------------
(* Redis.                                                                    *)

Has(f, key) == key \in DOMAIN f
Put(f, key, value) == [x \in DOMAIN f \cup {key} |-> IF x = key THEN value ELSE f[x]]
Del(f, key) == [x \in DOMAIN f \ {key} |-> f[x]]

\* INCR; counts beyond the threshold are not told apart.
Incremented(key) ==
  IF ~Has(counts, key) THEN 1
  ELSE IF counts[key] < Threshold THEN counts[key] + 1 ELSE Threshold

\* Mutant: the buffers in the order the caller names them.
CacheTasksKeysNamed(bufCache, bufCount) ==
  [count |-> BuildKey("tasks:count:", bufCount), entry |-> BuildKey("tasks:cache:", bufCache)]

\* CacheTasks names its buffers bufCount, bufCache; the caller passes the one it has
\* named cacheKey first.
CacheTasksKeys(bufCount, bufCache) ==
  [count |-> BuildKey("tasks:count:", bufCount), entry |-> BuildKey("tasks:cache:", bufCache)]

\* The buffer cacheKey of the handler that asked Redis has the prefix of the cache
\* already, those of the handlers that waited for it do not; countKey has none.
KeysOf(h) ==
  CacheTasksKeys(IF loc[h].leads THEN EntryKey(loc[h].key) ELSE <<loc[h].key>>,
                 <<loc[h].key>>)

-------------------------------------------------------------------------------
(* GetTasks.                                                                 *)

Goto(h, step) == pc' = [pc EXCEPT ![h] = step]
Return(h) == Goto(h, "idle") /\ loc' = [loc EXCEPT ![h] = Blank]

\* rdb.GetTasks: the first handler asks Redis, the others wait for its answer.
GetTasks(h, k) ==
  /\ pc[h] = "idle"
  /\ LET leads == flight[k] = Nobody
     IN  /\ Goto(h, IF leads THEN "get" ELSE "wait")
         /\ loc' = [loc EXCEPT ![h] = [Blank EXCEPT !.key = k, !.leads = leads]]
         /\ flight' = [flight EXCEPT ![k] = IF leads THEN h ELSE @]
  /\ UNCHANGED <<table, redisVars, historyVars>>

\* GET; an error is as good as a miss.
Get(h) ==
  /\ pc[h] = "get"
  /\ LET key == EntryKey(loc[h].key)
     IN  \E page \in {Miss} \cup {entries[x] : x \in DOMAIN entries \cap {key}} :
           loc' = [loc EXCEPT ![h].page = page]
  /\ Goto(h, "share")
  /\ UNCHANGED <<table, redisVars, flight, historyVars>>

\* Those who share the flight of h, h included.
Sharing(h) == {h} \cup {g \in Handlers : pc[g] = "wait" /\ loc[g].key = loc[h].key}

\* Mutant: a miss is taken for a page, by those who wait.
ShareMiss(h) ==
  /\ pc[h] = "share"
  /\ LET missed == loc[h].page = Miss
         after == [g \in Sharing(h) |-> IF ~missed THEN "idle"
                                        ELSE IF g = h THEN "select" ELSE "count"]
     IN  /\ pc' = [g \in Handlers |-> IF g \in Sharing(h) THEN after[g] ELSE pc[g]]
         /\ loc' = [g \in Handlers |->
                      IF g \in Sharing(h) /\ ~missed THEN Blank ELSE loc[g]]
  /\ flight' = [flight EXCEPT ![loc[h].key] = Nobody]
  /\ UNCHANGED <<table, redisVars, historyVars>>

\* The answer goes to all who wait, those included who came after Redis gave it. A page
\* is returned; without one, each asks the table on its own.
Share(h) ==
  /\ pc[h] = "share"
  /\ LET missed == loc[h].page = Miss
     IN  /\ pc' = [g \in Handlers |->
                     IF g \in Sharing(h) THEN (IF missed THEN "select" ELSE "idle") ELSE pc[g]]
         /\ loc' = [g \in Handlers |->
                      IF g \in Sharing(h) /\ ~missed THEN Blank ELSE loc[g]]
  /\ flight' = [flight EXCEPT ![loc[h].key] = Nobody]
  /\ UNCHANGED <<table, redisVars, historyVars>>

\* SELECT; no row is the page "[]", which is cached like any other.
Select(h) ==
  /\ pc[h] = "select"
  /\ loc' = [loc EXCEPT ![h].page = table[loc[h].key]]
  /\ Goto(h, "count")
  /\ UNCHANGED <<table, redisVars, flight, historyVars>>

\* Mutant: the page is cached from the count after the threshold.
EnoughAfter(count) == count > Threshold

Enough(count) == count >= Threshold

\* The Lua script incrAndExpire.
Count(h) ==
  /\ pc[h] = "count"
  /\ LET key == KeysOf(h).count
         count == Incremented(key)
     IN  /\ counts' = Put(counts, key, count)
         /\ IF Enough(count) THEN Goto(h, "set") /\ UNCHANGED loc ELSE Return(h)
  /\ hot' = [hot EXCEPT ![loc[h].key] = @ + 1]
  /\ UNCHANGED <<table, entries, flight, right, regular>>

\* SET
SetEntry(h) ==
  /\ pc[h] = "set"
  /\ entries' = Put(entries, KeysOf(h).entry, loc[h].page)
  /\ right' = IF loc[h].page = table[loc[h].key] THEN right \cup {loc[h].key}
                                                ELSE right \ {loc[h].key}
  /\ hot' = [hot EXCEPT ![loc[h].key] = 0]
  /\ Goto(h, "delCount")
  /\ UNCHANGED <<table, counts, flight, loc, regular>>

\* DEL
DelCount(h) ==
  /\ pc[h] = "delCount"
  /\ counts' = Del(counts, KeysOf(h).count)
  /\ hot' = [hot EXCEPT ![loc[h].key] = 0]
  /\ Return(h)
  /\ UNCHANGED <<table, entries, flight, right, regular>>

-------------------------------------------------------------------------------
(* DelTask.                                                                  *)

DelTask(h, k) ==
  /\ pc[h] = "idle"
  /\ loc' = [loc EXCEPT ![h] = [Blank EXCEPT !.key = k]]
  /\ Goto(h, "deleteRow")
  /\ UNCHANGED <<table, redisVars, flight, historyVars>>

DeleteRow(h) ==
  /\ pc[h] = "deleteRow"
  /\ table' = [table EXCEPT ![loc[h].key] = NoTask]
  /\ regular' = (regular /\ table[loc[h].key] = NoTask)
  /\ Goto(h, "uncache")
  /\ UNCHANGED <<redisVars, flight, loc, right, hot>>

\* Mutant: the entry is left alone.
UncacheNothing(h) ==
  /\ pc[h] = "uncache"
  /\ Goto(h, "uncount")
  /\ UNCHANGED <<table, redisVars, flight, loc, historyVars>>

\* The pipeline: DEL of the entry ...
Uncache(h) ==
  /\ pc[h] = "uncache"
  /\ entries' = Del(entries, EntryKey(loc[h].key))
  /\ right' = right \ {loc[h].key}
  /\ Goto(h, "uncount")
  /\ UNCHANGED <<table, counts, flight, loc, hot, regular>>

\* ... and of the counter of those who waited; the counter of those who asked Redis
\* has another key, and is left.
Uncount(h) ==
  /\ pc[h] = "uncount"
  /\ counts' = Del(counts, BuildKey("tasks:count:", <<loc[h].key>>))
  /\ hot' = [hot EXCEPT ![loc[h].key] = 0]
  /\ Return(h)
  /\ UNCHANGED <<table, entries, flight, right, regular>>

-------------------------------------------------------------------------------
(* NewTasks.                                                                 *)

NewTasks(h, bulk) ==
  /\ pc[h] = "idle"
  /\ loc' = [loc EXCEPT ![h] = [Blank EXCEPT !.bulk = bulk]]
  /\ Goto(h, "max")
  /\ UNCHANGED <<table, redisVars, flight, historyVars>>

\* COALESCE(MAX(position), 0) of the level of the first task.
MaxOf(l) ==
  CHOOSE n \in 0 .. MaxPosition :
    /\ n > 0 => table[<<l, n>>] # NoTask
    /\ \A p \in Positions : table[<<l, p>>] # NoTask => p <= n

ReadMax(h) ==
  /\ pc[h] = "max"
  /\ loc' = [loc EXCEPT ![h].base = MaxOf(loc[h].bulk[1].level)]
  /\ Goto(h, "insert")
  /\ UNCHANGED <<table, redisVars, flight, historyVars>>

\* Mutant: MAX(position) + 1 is read, and increased before it is used.
PositionsOfNext(bulk, base) == [i \in DOMAIN bulk |-> base + 1 + i]

\* One position after the other, whatever the level of the task.
PositionsOf(bulk, base) == [i \in DOMAIN bulk |-> base + i]

\* One INSERT of all rows: the primary key (level, position) turns all of them down when
\* one is there already.
Insert(h) ==
  /\ pc[h] = "insert"
  /\ LET bulk == loc[h].bulk
         keys == [i \in DOMAIN bulk |-> <<bulk[i].level, PositionsOf(bulk, loc[h].base)[i]>>]
         new == {keys[i] : i \in DOMAIN bulk}
     IN  /\ \A i \in DOMAIN bulk : keys[i] \in AKey /\ table[keys[i]] = NoTask
         /\ table' = [k \in AKey |->
                        IF k \in new THEN bulk[CHOOSE i \in DOMAIN bulk : keys[i] = k].task
                                     ELSE table[k]]
         /\ regular' = (regular /\ \A i \in DOMAIN bulk : bulk[i].level = bulk[1].level)
  /\ Return(h)
  /\ UNCHANGED <<redisVars, flight, right, hot>>

-------------------------------------------------------------------------------
(* Failures and expiry.                                                      *)

\* An error of the table ends the RPC; an error of Redis, in CacheTasks, ends it too,
\* and the page is returned all the same. The counter is not what it should be then.
Fails(h) ==
  /\ pc[h] \in {"select", "count", "set", "delCount", "deleteRow", "max", "insert"}
  /\ Return(h)
  /\ hot' = [k \in AKey |-> IF pc[h] \in {"count", "set"} /\ loc[h].key = k THEN 0 ELSE hot[k]]
  /\ UNCHANGED <<table, redisVars, flight, right, regular>>

\* The row is deleted, but the deadline passes before the answer comes: the cache is not
\* told. Of the other commands and statements, one that is done but not answered is like
\* one that is done, or the failure of the next.
DeleteRowUnanswered(h) ==
  /\ pc[h] = "deleteRow"
  /\ table' = [table EXCEPT ![loc[h].key] = NoTask]
  /\ regular' = (regular /\ table[loc[h].key] = NoTask)
  /\ right' = right \ {loc[h].key}
  /\ Return(h)
  /\ UNCHANGED <<redisVars, flight, hot>>

\* An error in the pipeline of DelTask is logged, and the RPC succeeds.
UncacheFails(h) ==
  /\ pc[h] \in {"uncache", "uncount"}
  /\ right' = IF pc[h] = "uncache" THEN right \ {loc[h].key} ELSE right
  /\ Return(h)
  /\ UNCHANGED <<table, redisVars, flight, hot, regular>>

\* Mutant: the entry is stored without a time to live.
ExpireEntryNever(key) == FALSE /\ UNCHANGED <<vars, key>>

\* TASK_TTL minutes after it was stored.
ExpireEntry(key) ==
  /\ Has(entries, key)
  /\ entries' = Del(entries, key)
  /\ right' = right \ {key[Len(key)]}
  /\ UNCHANGED <<table, counts, flight, pc, loc, hot, regular>>

\* COUNT_TTL seconds after it was 1.
ExpireCount(key) ==
  /\ Has(counts, key)
  /\ counts' = Del(counts, key)
  /\ hot' = [hot EXCEPT ![key[Len(key)]] = 0]
  /\ UNCHANGED <<table, entries, flight, pc, loc, right, regular>>

-------------------------------------------------------------------------------

Call(h) ==
  \/ \E l \in UserLevels : GetTasks(h, <<l, First>>)
  \/ \E k \in AKey : DelTask(h, k)
  \/ \E bulk \in Bulks : NewTasks(h, bulk)

Step(h) ==
  \/ Get(h) \/ Share(h) \/ Select(h) \/ Count(h) \/ SetEntry(h) \/ DelCount(h)
  \/ DeleteRow(h) \/ Uncache(h) \/ Uncount(h)
  \/ ReadMax(h) \/ Insert(h)
  \/ Fails(h) \/ DeleteRowUnanswered(h) \/ UncacheFails(h)

Next ==
  \/ \E h \in Handlers : Call(h) \/ Step(h)
  \/ \E key \in DOMAIN entries : ExpireEntry(key)
  \/ \E key \in DOMAIN counts : ExpireCount(key)

Spec == Init /\ [][Next]_vars

\* Every handler goes on, as every command and statement ends with the deadline of its
\* RPC, and Redis removes an entry whose time has come.
FairSpec ==
  /\ Spec
  /\ \A h \in Handlers : WF_vars(Step(h))
  /\ \A k \in AKey : WF_vars(ExpireEntry(EntryKey(k)))

-------------------------------------------------------------------------------
(* Properties.                                                               *)

Buffers == {NoBulk} \cup Bulks

TypeOK ==
  /\ table \in [AKey -> Pages]
  /\ \A key \in DOMAIN entries : entries[key] \in Pages
  /\ \A key \in DOMAIN counts : counts[key] \in 1 .. Threshold
  /\ flight \in [AKey -> Handlers \cup {Nobody}]
  /\ pc \in [Handlers -> {"idle", "wait", "get", "share", "select", "count", "set", "delCount",
                          "deleteRow", "uncache", "uncount", "max", "insert"}]
  /\ loc \in [Handlers ->
       [key : AKey \cup {<<>>}, leads : BOOLEAN, page : Pages \cup {Miss}, bulk : Buffers,
        base : 0 .. MaxPosition]]
  /\ right \subseteq AKey /\ hot \in [AKey -> Nat] /\ regular \in BOOLEAN
  /\ \A h \in Handlers : pc[h] \in {"count", "set"} => loc[h].page # Miss

\* The two handlers of a flight and the callee's exchanged names for the buffers make
\* four ways to build a key: an entry is stored where rdb.GetTasks looks for it, and no
\* counter has the key of an entry.
KeysAreDistinct ==
  /\ \A key \in DOMAIN entries : \E k \in AKey : key = EntryKey(k)
  /\ \A key \in DOMAIN counts : \A k \in AKey : key # EntryKey(k)

\* A page that was right when it was cached shows a deleted task only while the DelTask
\* is still at work on it.
GhostIsShort ==
  \A k \in AKey :
    k \in right /\ Has(entries, EntryKey(k)) /\ entries[EntryKey(k)] # NoTask =>
      \/ entries[EntryKey(k)] = table[k]
      \/ \E h \in Handlers : pc[h] = "uncache" /\ loc[h].key = k

\* README.md:82: "if a specific task request surpasses a threshold [...], it is
\* dynamically cached". The requests are counted under two keys, those that asked Redis
\* and those that waited for them: the page is cached, at the latest, when both are about
\* to reach the threshold.
HotTaskIsCached ==
  \A k \in AKey :
    \/ hot[k] <= 2 * (Threshold - 1)
    \/ \E h \in Handlers : pc[h] = "set" /\ loc[h].key = k

\* users.task_id is 1 for every user. As long as the administrator deletes no task and
\* every bulk is of one level, a level that has tasks has them from position 1 on, in a
\* row, although MAX(position) is read in a statement of its own.
LevelStartsAtFirst ==
  regular => \A l \in Levels, p \in Positions :
    p > First /\ table[<<l, p>>] # NoTask => table[<<l, p - 1>>] # NoTask

\* A task that is gone from the table for good is gone from the cache for good, also when
\* handlers that have read it go on to cache it.
DeletedIsForgotten ==
  \A task \in Tasks :
    <>[](\A k \in AKey : table[k] # task)
      => <>[](\A key \in DOMAIN entries : entries[key] # task)
===============================================================================
