--------------------------- MODULE TaskCache_proofs ---------------------------
(***************************************************************************)
(* What TaskCache guarantees for all levels, tasks, bulks, numbers of        *)
(* handlers, thresholds and bounds: its five invariants.                     *)
(***************************************************************************)
EXTENDS TaskCache, FiniteSetTheorems, SequenceTheorems, WellFoundedInduction, TLAPS

-------------------------------------------------------------------------------
(* Keys and bulks.                                                           *)

\* The counters of a task: that of the handlers that waited for Redis, and that of the
\* handler that asked it.
CountKey(k) == BuildKey("tasks:count:", <<k>>)
LeaderKey(k) == BuildKey("tasks:count:", EntryKey(k))

\* A bulk is a sequence of at least one task, each of a level.
LEMMA BulkShape ==
  ASSUME NEW bulk \in Bulks
  PROVE  /\ bulk \in Seq([level : Levels, task : Tasks]) /\ 1 \in DOMAIN bulk
         /\ DOMAIN bulk \subseteq Nat \ {0}
         /\ \A i \in DOMAIN bulk : bulk[i].level \in Levels /\ bulk[i].task \in Tasks
<1>1. bulk \in Seq([level : Levels, task : Tasks]) /\ bulk # <<>>
  BY BulksAssumption
<1>2. Len(bulk) \in Nat \ {0}
  BY <1>1, EmptySeq
<1>3. /\ DOMAIN bulk = 1 .. Len(bulk)
      /\ \A i \in 1 .. Len(bulk) : bulk[i] \in [level : Levels, task : Tasks]
  <2> DEFINE R == [level : Levels, task : Tasks]
  <2>1. bulk \in Seq(R)
    BY <1>1
  <2> HIDE DEF R
  <2>2. DOMAIN bulk = 1 .. Len(bulk) /\ \A i \in 1 .. Len(bulk) : bulk[i] \in R
    BY <2>1
  <2> QED
    BY <2>2 DEF R
<1> QED
  BY <1>1, <1>2, <1>3

\* A key begins with its prefix and ends with its task.
LEMMA EntryKeyShape ==
  ASSUME NEW k
  PROVE  /\ EntryKey(k)[1] = "tasks:cache:" /\ EntryKey(k)[2] = k
         /\ Len(EntryKey(k)) = 2
BY DEF EntryKey, BuildKey

LEMMA CountKeyShape ==
  ASSUME NEW k
  PROVE  /\ CountKey(k)[1] = "tasks:count:" /\ CountKey(k)[2] = k
         /\ Len(CountKey(k)) = 2
BY DEF CountKey, BuildKey

LEMMA LeaderKeyShape ==
  ASSUME NEW k
  PROVE  /\ LeaderKey(k)[1] = "tasks:count:" /\ LeaderKey(k)[3] = k
         /\ Len(LeaderKey(k)) = 3
<1> DEFINE S == {"tasks:count:", "tasks:cache:", k}
<1>1. EntryKey(k) \in Seq(S) /\ Len(EntryKey(k)) = 2 /\ EntryKey(k)[2] = k
  BY EntryKeyShape DEF EntryKey, BuildKey
<1>2. /\ <<"tasks:count:">> \in Seq(S) /\ Len(<<"tasks:count:">>) = 1
      /\ <<"tasks:count:">>[1] = "tasks:count:"
  OBVIOUS
<1>3. ASSUME NEW s \in Seq(S), NEW t \in Seq(S), Len(s) = 1, Len(t) = 2
      PROVE  (s \o t)[1] = s[1] /\ (s \o t)[3] = t[2] /\ Len(s \o t) = 3
  <2>1. /\ Len(s \o t) = Len(s) + Len(t)
        /\ \A i \in 1 .. Len(s) + Len(t) :
             (s \o t)[i] = IF i <= Len(s) THEN s[i] ELSE t[i - Len(s)]
    BY ConcatProperties
  <2> HIDE DEF S
  <2> QED
    BY <1>3, <2>1
<1> QED
  BY <1>1, <1>2, <1>3 DEF LeaderKey, BuildKey

\* There is a highest position, and MaxOf is it: of the intervals from a taken position to
\* the last, one is the smallest.
LEMMA MaxOfType ==
  ASSUME NEW l \in Levels
  PROVE  /\ MaxOf(l) \in 0 .. MaxPosition
         /\ MaxOf(l) > 0 => table[<<l, MaxOf(l)>>] # NoTask
<1> DEFINE taken == {p \in Positions : table[<<l, p>>] # NoTask}
           tails == {p .. MaxPosition : p \in taken}
           Top(n) == /\ n > 0 => table[<<l, n>>] # NoTask
                     /\ \A p \in Positions : table[<<l, p>>] # NoTask => p <= n
<1>1. \E n \in 0 .. MaxPosition : Top(n)
  <2>1. CASE taken = {}
    <3>1. 0 \in 0 .. MaxPosition /\ Top(0)
      BY <2>1, ThresholdAssumption
    <3> QED
      BY <3>1
  <2>2. CASE taken # {}
    <3>1. tails \subseteq FiniteSubsetsOf(Nat) /\ tails # {}
      <4>1. \A p \in Positions : p .. MaxPosition \in SUBSET Nat /\ IsFiniteSet(p .. MaxPosition)
        BY FS_Interval, ThresholdAssumption DEF Positions
      <4> QED
        BY <2>2, <4>1 DEF FiniteSubsetsOf
    <3>2. PICK t \in tails : \A u \in tails : ~ (<<u, t>> \in StrictSubsetOrdering(Nat))
      <4> HIDE DEF tails
      <4> QED
        BY <3>1, FS_StrictSubsetOrderingWellFounded, WFMin
    <3>3. PICK n \in taken : t = n .. MaxPosition
      OBVIOUS
    <3>4. \A p \in taken : p <= n
      <4> SUFFICES ASSUME NEW p \in taken, n < p PROVE FALSE
        BY ThresholdAssumption DEF Positions
      <4>1. p .. MaxPosition \in tails
        OBVIOUS
      <4>2. /\ p .. MaxPosition \subseteq n .. MaxPosition
            /\ p .. MaxPosition # n .. MaxPosition /\ n .. MaxPosition \subseteq Nat
        <5>1. n \in n .. MaxPosition /\ n \notin p .. MaxPosition
          BY ThresholdAssumption DEF Positions
        <5> QED
          BY <5>1, ThresholdAssumption DEF Positions
      <4> QED
        BY <3>2, <3>3, <4>1, <4>2 DEF StrictSubsetOrdering
    <3>5. n \in 0 .. MaxPosition /\ Top(n)
      BY <3>4, ThresholdAssumption DEF Positions
    <3> QED
      BY <3>5
  <2> QED
    BY <2>1, <2>2
<1>2. MaxOf(l) = CHOOSE n \in 0 .. MaxPosition : Top(n)
  BY DEF MaxOf
<1>3. MaxOf(l) \in 0 .. MaxPosition /\ Top(MaxOf(l))
  <2> HIDE DEF Top
  <2> QED
    BY <1>1, <1>2
<1> QED
  BY <1>3

-------------------------------------------------------------------------------
(* Types.                                                                    *)

Steps == {"idle", "wait", "get", "share", "select", "count", "set", "delCount",
          "deleteRow", "uncache", "uncount", "max", "insert"}

Locs == [key : AKey \cup {<<>>}, leads : BOOLEAN, page : Pages \cup {Miss}, bulk : Buffers,
         base : 0 .. MaxPosition]

\* The handlers of a task have its key, those of a bulk have the bulk, and those that
\* cache a page have a page.
Fits(step, l) ==
  /\ step \notin {"idle", "max", "insert"} => l.key \in AKey
  /\ step \in {"max", "insert"} => l.bulk \in Bulks
  /\ step \in {"count", "set"} => l.page # Miss

HandlerType ==
  /\ pc \in [Handlers -> Steps] /\ loc \in [Handlers -> Locs]
  /\ \A h \in Handlers : Fits(pc[h], loc[h])

RedisType ==
  /\ \A key \in DOMAIN entries : entries[key] \in Pages
  /\ \A key \in DOMAIN counts : counts[key] \in 1 .. Threshold

OtherType ==
  /\ table \in [AKey -> Pages]
  /\ flight \in [AKey -> Handlers \cup {Nobody}]
  /\ right \subseteq AKey /\ hot \in [AKey -> Nat] /\ regular \in BOOLEAN

TypeInv == HandlerType /\ RedisType /\ OtherType

LEMMA FirstKey == \A l \in UserLevels : <<l, First>> \in AKey
BY LevelsAssumption, ThresholdAssumption DEF AKey, Positions, First

LEMMA BlankType == Blank \in Locs /\ Fits("idle", Blank)
BY ThresholdAssumption DEF Blank, Buffers, NoBulk, Locs, Fits

\* A handler goes to a step with variables that fit it.
LEMMA MoveType ==
  ASSUME HandlerType, NEW h \in Handlers, NEW step \in Steps, NEW l \in Locs, Fits(step, l),
         Goto(h, step), loc' = [loc EXCEPT ![h] = l]
  PROVE  HandlerType'
BY DEF HandlerType, Goto

LEMMA GotoType ==
  ASSUME HandlerType, NEW h \in Handlers, NEW step \in Steps, Fits(step, loc[h]),
         Goto(h, step), UNCHANGED loc
  PROVE  HandlerType'
BY DEF HandlerType, Goto

LEMMA ReturnType ==
  ASSUME HandlerType, NEW h \in Handlers, Return(h)
  PROVE  HandlerType'
<1>1. Goto(h, "idle") /\ loc' = [loc EXCEPT ![h] = Blank] /\ "idle" \in Steps
  BY DEF Return, Steps
<1> QED
  BY <1>1, BlankType, MoveType

\* What is put has the type, and so has what is left.
LEMMA PutDelType ==
  ASSUME NEW f, NEW S, \A key \in DOMAIN f : f[key] \in S, NEW k, NEW v \in S
  PROVE  /\ \A key \in DOMAIN Put(f, k, v) : Put(f, k, v)[key] \in S
         /\ \A key \in DOMAIN Del(f, k) : Del(f, k)[key] \in S
BY DEF Put, Del

\* A row that is deleted.
LEMMA RowType ==
  ASSUME table \in [AKey -> Pages], NEW k \in AKey
  PROVE  [table EXCEPT ![k] = NoTask] \in [AKey -> Pages]
BY DEF Pages

\* One lemma for the beginnings of the RPCs, one for the steps of each, one for failures
\* and expiry.
LEMMA BeginType ==
  ASSUME TypeInv, NEW h \in Handlers
  PROVE  /\ \A k \in AKey : GetTasks(h, k) => TypeInv'
         /\ \A k \in AKey : DelTask(h, k) => TypeInv'
         /\ \A bulk \in Bulks : NewTasks(h, bulk) => TypeInv'
<1> USE DEF TypeInv
<1>1. ASSUME NEW k \in AKey, GetTasks(h, k) PROVE TypeInv'
  <2> DEFINE leads == flight[k] = Nobody
             l == [Blank EXCEPT !.key = k, !.leads = leads]
             step == IF leads THEN "get" ELSE "wait"
  <2>1. step \in Steps /\ l \in Locs /\ Fits(step, l)
    BY BlankType DEF Steps, Locs, Fits
  <2>2. Goto(h, step) /\ loc' = [loc EXCEPT ![h] = l]
    BY <1>1 DEF GetTasks
  <2>3. HandlerType'
    <3> HIDE DEF l, step
    <3> QED
      BY <2>1, <2>2, MoveType
  <2>4. RedisType' /\ OtherType'
    BY <1>1 DEF GetTasks, RedisType, OtherType, redisVars, historyVars
  <2> QED
    BY <2>3, <2>4
<1>2. ASSUME NEW k \in AKey, DelTask(h, k) PROVE TypeInv'
  <2> DEFINE l == [Blank EXCEPT !.key = k]
  <2>1. "deleteRow" \in Steps /\ l \in Locs /\ Fits("deleteRow", l)
    BY BlankType DEF Steps, Locs, Fits
  <2>2. Goto(h, "deleteRow") /\ loc' = [loc EXCEPT ![h] = l]
    BY <1>2 DEF DelTask
  <2>3. HandlerType'
    <3> HIDE DEF l
    <3> QED
      BY <2>1, <2>2, MoveType
  <2>4. RedisType' /\ OtherType'
    BY <1>2 DEF DelTask, RedisType, OtherType, redisVars, historyVars
  <2> QED
    BY <2>3, <2>4
<1>3. ASSUME NEW bulk \in Bulks, NewTasks(h, bulk) PROVE TypeInv'
  <2> DEFINE l == [Blank EXCEPT !.bulk = bulk]
  <2>1. "max" \in Steps /\ l \in Locs /\ Fits("max", l)
    BY BlankType DEF Steps, Locs, Fits, Buffers
  <2>2. Goto(h, "max") /\ loc' = [loc EXCEPT ![h] = l]
    BY <1>3 DEF NewTasks
  <2>3. HandlerType'
    <3> HIDE DEF l
    <3> QED
      BY <2>1, <2>2, MoveType
  <2>4. RedisType' /\ OtherType'
    BY <1>3 DEF NewTasks, RedisType, OtherType, redisVars, historyVars
  <2> QED
    BY <2>3, <2>4
<1> QED
  BY <1>1, <1>2, <1>3

LEMMA GetTasksType ==
  ASSUME TypeInv, NEW h \in Handlers
  PROVE  /\ Get(h) => TypeInv'
         /\ Share(h) => TypeInv'
         /\ Select(h) => TypeInv'
         /\ Count(h) => TypeInv'
         /\ SetEntry(h) => TypeInv'
         /\ DelCount(h) => TypeInv'
<1> USE DEF TypeInv
<1>0. loc[h] \in Locs /\ Fits(pc[h], loc[h])
  BY DEF HandlerType
<1>1. ASSUME Get(h) PROVE TypeInv'
  <2>1. PICK page \in {Miss} \cup {entries[x] : x \in DOMAIN entries \cap {EntryKey(loc[h].key)}} :
          loc' = [loc EXCEPT ![h].page = page]
    BY <1>1 DEF Get
  <2> DEFINE l == [loc[h] EXCEPT !.page = page]
  <2>2. page \in Pages \cup {Miss}
    BY DEF RedisType
  <2>3. l \in Locs /\ Fits("share", l) /\ "share" \in Steps
    BY <1>0, <1>1, <2>2 DEF Get, Locs, Fits, Steps
  <2>4. Goto(h, "share") /\ loc' = [loc EXCEPT ![h] = l]
    BY <1>1, <2>1 DEF Get, HandlerType
  <2>5. HandlerType'
    <3> HIDE DEF l
    <3> QED
      BY <2>3, <2>4, MoveType
  <2>6. RedisType' /\ OtherType'
    BY <1>1 DEF Get, RedisType, OtherType, redisVars, historyVars
  <2> QED
    BY <2>5, <2>6
<1>2. ASSUME Share(h) PROVE TypeInv'
  <2>1. HandlerType'
    <3>1. \A g \in Sharing(h) : g \in Handlers /\ pc[g] \in {"wait", "share"}
      BY <1>2 DEF Share, Sharing
    <3>2. \A g \in Handlers :
            /\ \/ pc'[g] = pc[g] /\ loc'[g] = loc[g]
               \/ pc[g] \in {"wait", "share"} /\ pc'[g] = "select" /\ loc'[g] = loc[g]
               \/ pc'[g] = "idle" /\ loc'[g] = Blank
      BY <1>2, <3>1 DEF Share
    <3>3. \A g \in Handlers : pc'[g] \in Steps /\ loc'[g] \in Locs /\ Fits(pc'[g], loc'[g])
      BY <3>2, BlankType DEF HandlerType, Steps, Fits
    <3>4. pc' = [g \in Handlers |-> pc'[g]] /\ loc' = [g \in Handlers |-> loc'[g]]
      BY <1>2 DEF Share
    <3> QED
      BY <3>3, <3>4 DEF HandlerType
  <2>2. RedisType' /\ OtherType'
    BY <1>2 DEF Share, RedisType, OtherType, redisVars, historyVars
  <2> QED
    BY <2>1, <2>2
<1>3. ASSUME Select(h) PROVE TypeInv'
  <2> DEFINE l == [loc[h] EXCEPT !.page = table[loc[h].key]]
  <2>1. table[loc[h].key] \in Pages /\ Miss \notin Pages
    BY <1>0, <1>3, DistinctAssumption DEF Select, Fits, OtherType, Pages
  <2>2. l \in Locs /\ Fits("count", l) /\ "count" \in Steps
    BY <1>0, <1>3, <2>1 DEF Select, Locs, Fits, Steps
  <2>3. Goto(h, "count") /\ loc' = [loc EXCEPT ![h] = l]
    BY <1>3 DEF Select, HandlerType
  <2>4. HandlerType'
    <3> HIDE DEF l
    <3> QED
      BY <2>2, <2>3, MoveType
  <2>5. RedisType' /\ OtherType'
    BY <1>3 DEF Select, RedisType, OtherType, redisVars, historyVars
  <2> QED
    BY <2>4, <2>5
<1>4. ASSUME Count(h) PROVE TypeInv'
  <2>1. HandlerType'
    <3>1. \/ Goto(h, "set") /\ UNCHANGED loc
          \/ Return(h)
      BY <1>4 DEF Count
    <3>2. "set" \in Steps /\ Fits("set", loc[h])
      BY <1>0, <1>4 DEF Count, Fits, Steps
    <3> QED
      BY <3>1, <3>2, GotoType, ReturnType
  <2>2. RedisType'
    <3> DEFINE key == KeysOf(h).count
    <3>1. Incremented(key) \in 1 .. Threshold
      BY ThresholdAssumption DEF Incremented, Has, RedisType
    <3>2. counts' = Put(counts, key, Incremented(key)) /\ UNCHANGED entries
      BY <1>4 DEF Count
    <3> HIDE DEF key
    <3> QED
      BY <3>1, <3>2, PutDelType DEF RedisType
  <2>3. OtherType'
    <3>1. hot' = [hot EXCEPT ![loc[h].key] = @ + 1] /\ UNCHANGED <<table, flight, right, regular>>
      BY <1>4 DEF Count
    <3>2. \A k \in AKey : hot'[k] \in Nat
      BY <3>1 DEF OtherType
    <3> QED
      BY <3>1, <3>2 DEF OtherType
  <2> QED
    BY <2>1, <2>2, <2>3
<1>5. ASSUME SetEntry(h) PROVE TypeInv'
  <2>1. HandlerType'
    <3>1. "delCount" \in Steps /\ Fits("delCount", loc[h])
      BY <1>0, <1>5 DEF SetEntry, Fits, Steps
    <3> QED
      BY <1>5, <3>1, GotoType DEF SetEntry
  <2>2. RedisType'
    <3>1. loc[h].page \in Pages
      BY <1>0, <1>5 DEF SetEntry, Locs, Fits
    <3>2. entries' = Put(entries, KeysOf(h).entry, loc[h].page) /\ UNCHANGED counts
      BY <1>5 DEF SetEntry
    <3> QED
      BY <3>1, <3>2, PutDelType DEF RedisType
  <2>3. OtherType'
    <3>1. loc[h].key \in AKey
      BY <1>0, <1>5 DEF SetEntry, Fits
    <3>2. right' \subseteq AKey
      BY <1>5, <3>1 DEF SetEntry, OtherType
    <3> QED
      BY <1>5, <3>2 DEF SetEntry, OtherType
  <2> QED
    BY <2>1, <2>2, <2>3
<1>6. ASSUME DelCount(h) PROVE TypeInv'
  <2>1. HandlerType'
    BY <1>6, ReturnType DEF DelCount
  <2>2. RedisType'
    BY <1>6 DEF DelCount, RedisType, Del
  <2>3. OtherType'
    BY <1>6 DEF DelCount, OtherType
  <2> QED
    BY <2>1, <2>2, <2>3
<1> QED
  BY <1>1, <1>2, <1>3, <1>4, <1>5, <1>6

LEMMA DelTaskType ==
  ASSUME TypeInv, NEW h \in Handlers
  PROVE  /\ DeleteRow(h) => TypeInv'
         /\ Uncache(h) => TypeInv'
         /\ Uncount(h) => TypeInv'
<1> USE DEF TypeInv
<1>0. loc[h] \in Locs /\ Fits(pc[h], loc[h])
  BY DEF HandlerType
<1>1. ASSUME DeleteRow(h) PROVE TypeInv'
  <2>1. loc[h].key \in AKey /\ Fits("uncache", loc[h]) /\ "uncache" \in Steps
    BY <1>0, <1>1 DEF DeleteRow, Fits, Steps
  <2>2. HandlerType'
    BY <1>1, <2>1, GotoType DEF DeleteRow
  <2>3. RedisType' /\ OtherType'
    BY <1>1, <2>1, RowType DEF DeleteRow, RedisType, OtherType, redisVars
  <2> QED
    BY <2>2, <2>3
<1>2. ASSUME Uncache(h) PROVE TypeInv'
  <2>1. Fits("uncount", loc[h]) /\ "uncount" \in Steps
    BY <1>0, <1>2 DEF Uncache, Fits, Steps
  <2>2. HandlerType'
    BY <1>2, <2>1, GotoType DEF Uncache
  <2>3. RedisType' /\ OtherType'
    BY <1>2 DEF Uncache, RedisType, OtherType, Del
  <2> QED
    BY <2>2, <2>3
<1>3. ASSUME Uncount(h) PROVE TypeInv'
  <2>1. HandlerType'
    BY <1>3, ReturnType DEF Uncount
  <2>2. RedisType' /\ OtherType'
    BY <1>3 DEF Uncount, RedisType, OtherType, Del
  <2> QED
    BY <2>1, <2>2
<1> QED
  BY <1>1, <1>2, <1>3

\* The keys of the rows a bulk becomes, and the row each task of it becomes.
KeyOf(bulk, base, i) == <<bulk[i].level, PositionsOf(bulk, base)[i]>>
Row(bulk, base, k) == bulk[CHOOSE i \in DOMAIN bulk : KeyOf(bulk, base, i) = k].task

\* Insert writes the rows of the bulk, where there were none, and nothing else.
LEMMA InsertWrites ==
  ASSUME TypeInv, NEW h \in Handlers, Insert(h)
  PROVE  /\ loc[h].bulk \in Bulks
         /\ \A i \in DOMAIN loc[h].bulk :
              /\ KeyOf(loc[h].bulk, loc[h].base, i) \in AKey
              /\ table[KeyOf(loc[h].bulk, loc[h].base, i)] = NoTask
              /\ table'[KeyOf(loc[h].bulk, loc[h].base, i)] \in Tasks
         /\ \A k \in AKey :
              \/ table'[k] = table[k]
              \/ /\ table[k] = NoTask /\ table'[k] \in Tasks
                 /\ \E i \in DOMAIN loc[h].bulk : k = KeyOf(loc[h].bulk, loc[h].base, i)
         /\ table' = [k \in AKey |-> table'[k]]
         /\ regular' = (regular /\ \A i \in DOMAIN loc[h].bulk :
                                     loc[h].bulk[i].level = loc[h].bulk[1].level)
<1> DEFINE bulk == loc[h].bulk
           base == loc[h].base
           keys == [i \in DOMAIN bulk |-> <<bulk[i].level, PositionsOf(bulk, base)[i]>>]
           new == {keys[i] : i \in DOMAIN bulk}
<1>1. bulk \in Bulks
  BY DEF TypeInv, HandlerType, Insert, Fits
<1>2. \A i \in DOMAIN bulk : keys[i] = KeyOf(bulk, base, i)
  BY DEF KeyOf
<1>3. /\ \A i \in DOMAIN bulk : keys[i] \in AKey /\ table[keys[i]] = NoTask
      /\ table' = [k \in AKey |->
                     IF k \in new THEN bulk[CHOOSE i \in DOMAIN bulk : keys[i] = k].task
                                  ELSE table[k]]
      /\ regular' = (regular /\ \A i \in DOMAIN bulk : bulk[i].level = bulk[1].level)
  BY DEF Insert
<1>4. \A i \in DOMAIN bulk : bulk[i].task \in Tasks
  BY <1>1, BulkShape
<1> HIDE DEF bulk, base, keys
<1>5. ASSUME NEW k \in new
      PROVE  bulk[CHOOSE i \in DOMAIN bulk : keys[i] = k].task \in Tasks
  <2>1. \E i \in DOMAIN bulk : keys[i] = k
    OBVIOUS
  <2>2. (CHOOSE i \in DOMAIN bulk : keys[i] = k) \in DOMAIN bulk
    BY <2>1
  <2> QED
    BY <1>4, <2>2
<1>6. \A k \in AKey : IF k \in new THEN table[k] = NoTask /\ table'[k] \in Tasks
                                   ELSE table'[k] = table[k]
  BY <1>3, <1>5
<1>7. table' = [k \in AKey |-> table'[k]]
  BY <1>3
<1>8. \A i \in DOMAIN bulk : /\ KeyOf(bulk, base, i) \in AKey
                             /\ table[KeyOf(bulk, base, i)] = NoTask
                             /\ table'[KeyOf(bulk, base, i)] \in Tasks
  BY <1>2, <1>3, <1>6
<1>9. \A k \in AKey :
        \/ table'[k] = table[k]
        \/ /\ table[k] = NoTask /\ table'[k] \in Tasks
           /\ \E i \in DOMAIN bulk : k = KeyOf(bulk, base, i)
  BY <1>2, <1>6
<1>10. regular' = (regular /\ \A i \in DOMAIN bulk : bulk[i].level = bulk[1].level)
  BY <1>3
<1> HIDE DEF new
<1> QED
  BY <1>1, <1>7, <1>8, <1>9, <1>10 DEF bulk, base

LEMMA NewTasksType ==
  ASSUME TypeInv, NEW h \in Handlers
  PROVE  /\ ReadMax(h) => TypeInv'
         /\ Insert(h) => TypeInv'
<1> USE DEF TypeInv
<1>0. loc[h] \in Locs /\ Fits(pc[h], loc[h])
  BY DEF HandlerType
<1>1. ASSUME ReadMax(h) PROVE TypeInv'
  <2>1. loc[h].bulk \in Bulks
    BY <1>0, <1>1 DEF ReadMax, Fits
  <2>2. PICK n : n = MaxOf(loc[h].bulk[1].level)
    OBVIOUS
  <2>3. n \in 0 .. MaxPosition
    BY <2>1, <2>2, BulkShape, MaxOfType
  <2> DEFINE l == [loc[h] EXCEPT !.base = n]
  <2>4. l \in Locs /\ Fits("insert", l) /\ "insert" \in Steps
    BY <1>0, <2>1, <2>3 DEF Locs, Fits, Steps
  <2>5. Goto(h, "insert") /\ loc' = [loc EXCEPT ![h] = l]
    BY <1>1, <2>2 DEF ReadMax, HandlerType
  <2>6. HandlerType'
    <3> HIDE DEF l
    <3> QED
      BY <2>4, <2>5, MoveType
  <2>7. RedisType' /\ OtherType'
    BY <1>1 DEF ReadMax, RedisType, OtherType, redisVars, historyVars
  <2> QED
    BY <2>6, <2>7
<1>2. ASSUME Insert(h) PROVE TypeInv'
  <2>1. HandlerType'
    BY <1>2, ReturnType DEF Insert
  <2>2. table' \in [AKey -> Pages] /\ regular' \in BOOLEAN
    BY <1>2, InsertWrites DEF OtherType, Pages
  <2>3. RedisType' /\ OtherType'
    BY <1>2, <2>2 DEF Insert, RedisType, OtherType, redisVars
  <2> QED
    BY <2>1, <2>3
<1> QED
  BY <1>1, <1>2

LEMMA FailureType ==
  ASSUME TypeInv
  PROVE  /\ \A h \in Handlers : Fails(h) => TypeInv'
         /\ \A h \in Handlers : DeleteRowUnanswered(h) => TypeInv'
         /\ \A h \in Handlers : UncacheFails(h) => TypeInv'
         /\ \A key : ExpireEntry(key) => TypeInv'
         /\ \A key : ExpireCount(key) => TypeInv'
<1> USE DEF TypeInv
<1>1. ASSUME NEW h \in Handlers, Fails(h) PROVE TypeInv'
  <2>1. HandlerType'
    BY <1>1, ReturnType DEF Fails
  <2>2. RedisType' /\ OtherType'
    BY <1>1 DEF Fails, RedisType, OtherType, redisVars
  <2> QED
    BY <2>1, <2>2
<1>2. ASSUME NEW h \in Handlers, DeleteRowUnanswered(h) PROVE TypeInv'
  <2>1. HandlerType'
    BY <1>2, ReturnType DEF DeleteRowUnanswered
  <2>2. loc[h].key \in AKey
    BY <1>2 DEF DeleteRowUnanswered, HandlerType, Fits
  <2>3. RedisType' /\ OtherType'
    BY <1>2, <2>2, RowType DEF DeleteRowUnanswered, RedisType, OtherType, redisVars
  <2> QED
    BY <2>1, <2>3
<1>3. ASSUME NEW h \in Handlers, UncacheFails(h) PROVE TypeInv'
  <2>1. HandlerType'
    BY <1>3, ReturnType DEF UncacheFails
  <2>2. RedisType' /\ OtherType'
    BY <1>3 DEF UncacheFails, RedisType, OtherType, redisVars
  <2> QED
    BY <2>1, <2>2
<1>4. ASSUME NEW key, ExpireEntry(key) PROVE TypeInv'
  BY <1>4 DEF ExpireEntry, Del, HandlerType, RedisType, OtherType
<1>5. ASSUME NEW key, ExpireCount(key) PROVE TypeInv'
  BY <1>5 DEF ExpireCount, Del, HandlerType, RedisType, OtherType
<1> QED
  BY <1>1, <1>2, <1>3, <1>4, <1>5

LEMMA TypeStep == TypeInv /\ [Next]_vars => TypeInv'
<1> SUFFICES ASSUME TypeInv, [Next]_vars PROVE TypeInv'
  OBVIOUS
<1>1. ASSUME NEW h \in Handlers, Call(h) PROVE TypeInv'
  BY <1>1, FirstKey, BeginType DEF Call
<1>2. ASSUME NEW h \in Handlers, Step(h) PROVE TypeInv'
  BY <1>2, GetTasksType, DelTaskType, NewTasksType, FailureType DEF Step
<1>3. CASE UNCHANGED vars
  BY <1>3 DEF vars, TypeInv, HandlerType, RedisType, OtherType
<1> QED
  BY <1>1, <1>2, <1>3, FailureType DEF Next

LEMMA TypeInit == Init => TypeInv
<1> SUFFICES ASSUME Init PROVE TypeInv
  OBVIOUS
<1>1. HandlerType
  BY BlankType DEF Init, HandlerType, Steps
<1>2. RedisType
  BY DEF Init, RedisType
<1>3. OtherType
  BY DEF Init, OtherType, Pages
<1> QED
  BY <1>1, <1>2, <1>3 DEF TypeInv

\* Every variable keeps its type, and no miss is counted or cached as a page.
THEOREM TypeCorrect == Spec => []TypeOK
<1>1. TypeInv => TypeOK
  BY DEF TypeInv, HandlerType, RedisType, OtherType, Steps, Locs, Fits, TypeOK
<1> QED
  BY <1>1, TypeInit, TypeStep, PTL DEF Spec

-------------------------------------------------------------------------------
(* What a step leaves alone.                                                 *)

\* A step of a handler moves no other, but for those that wait for its answer.
LEMMA OthersStay ==
  ASSUME NEW h \in Handlers, Call(h) \/ Step(h), TypeInv
  PROVE  /\ \A g \in Handlers \ {h} : pc[g] # "wait" => pc'[g] = pc[g] /\ loc'[g] = loc[g]
         /\ \A g \in Handlers \ {h} :
              pc[g] = "wait" => pc'[g] \in {"wait", "select", "idle"}
<1>1. pc \in [Handlers -> Steps] /\ loc \in [Handlers -> Locs]
  BY DEF TypeInv, HandlerType
<1>2. CASE Share(h)
  BY <1>2 DEF Share, Sharing
<1>3. CASE ~ Share(h)
  BY <1>1, <1>3 DEF Call, Step, GetTasks, DelTask, NewTasks, Get, Select, Count, SetEntry, DelCount,
     DeleteRow, Uncache, Uncount, ReadMax, Insert, Fails, DeleteRowUnanswered, UncacheFails,
     Goto, Return
<1> QED
  BY <1>2, <1>3

LEMMA RedisAlone ==
  ASSUME NEW h \in Handlers,
         \/ Call(h) \/ Get(h) \/ Share(h) \/ Select(h) \/ DeleteRow(h) \/ ReadMax(h) \/ Insert(h)
         \/ Fails(h) \/ DeleteRowUnanswered(h) \/ UncacheFails(h)
  PROVE  UNCHANGED redisVars
BY DEF Call, GetTasks, DelTask, NewTasks, Get, Share, Select, DeleteRow, ReadMax, Insert, Fails,
   DeleteRowUnanswered, UncacheFails

LEMMA TableAlone ==
  ASSUME NEW h \in Handlers,
         \/ Call(h) \/ Get(h) \/ Share(h) \/ Select(h) \/ Count(h) \/ SetEntry(h) \/ DelCount(h)
         \/ Uncache(h) \/ Uncount(h) \/ ReadMax(h) \/ Fails(h) \/ UncacheFails(h)
  PROVE  UNCHANGED <<table, regular>>
BY DEF Call, GetTasks, DelTask, NewTasks, Get, Share, Select, Count, SetEntry, DelCount, Uncache,
   Uncount, ReadMax, Fails, UncacheFails, historyVars

-------------------------------------------------------------------------------
(* The keys.                                                                 *)

\* Every key of Redis is one that some task makes.
KeyInv ==
  /\ \A key \in DOMAIN entries : \E k \in AKey : key = EntryKey(k)
  /\ \A key \in DOMAIN counts : \E k \in AKey : key = CountKey(k) \/ key = LeaderKey(k)

LEMMA HandlerKeys ==
  ASSUME NEW h
  PROVE  /\ KeysOf(h).entry = EntryKey(loc[h].key)
         /\ KeysOf(h).count \in {CountKey(loc[h].key), LeaderKey(loc[h].key)}
BY DEF KeysOf, CacheTasksKeys, CountKey, LeaderKey, EntryKey

\* Two tasks have no key in common, and the three keys of a task are three.
LEMMA KeysDiffer ==
  ASSUME NEW j, NEW k
  PROVE  /\ EntryKey(j) # CountKey(k) /\ EntryKey(j) # LeaderKey(k) /\ CountKey(j) # LeaderKey(k)
         /\ j # k => /\ EntryKey(j) # EntryKey(k) /\ CountKey(j) # CountKey(k)
                     /\ LeaderKey(j) # LeaderKey(k)
<1>1. EntryKey(j)[1] # CountKey(k)[1] /\ EntryKey(j)[1] # LeaderKey(k)[1]
  BY EntryKeyShape, CountKeyShape, LeaderKeyShape
<1>2. Len(CountKey(j)) # Len(LeaderKey(k))
  BY CountKeyShape, LeaderKeyShape
<1>3. EntryKey(j)[2] = j /\ CountKey(j)[2] = j /\ LeaderKey(j)[3] = j
  BY EntryKeyShape, CountKeyShape, LeaderKeyShape
<1>4. EntryKey(k)[2] = k /\ CountKey(k)[2] = k /\ LeaderKey(k)[3] = k
  BY EntryKeyShape, CountKeyShape, LeaderKeyShape
<1> QED
  BY <1>1, <1>2, <1>3, <1>4

\* What ExpireEntry and ExpireCount take from the end of a key is its task.
LEMMA LastOfKey ==
  ASSUME NEW k
  PROVE  /\ EntryKey(k)[Len(EntryKey(k))] = k
         /\ CountKey(k)[Len(CountKey(k))] = k
         /\ LeaderKey(k)[Len(LeaderKey(k))] = k
BY EntryKeyShape, CountKeyShape, LeaderKeyShape

LEMMA KeyStep ==
  ASSUME TypeInv, KeyInv, [Next]_vars
  PROVE  KeyInv'
<1>1. ASSUME NEW h \in Handlers, SetEntry(h) PROVE KeyInv'
  <2>1. loc[h].key \in AKey
    BY <1>1 DEF SetEntry, TypeInv, HandlerType, Fits
  <2>2. DOMAIN entries' = DOMAIN entries \cup {EntryKey(loc[h].key)} /\ UNCHANGED counts
    BY <1>1, HandlerKeys DEF SetEntry, Put
  <2> QED
    BY <2>1, <2>2 DEF KeyInv
<1>2. ASSUME NEW h \in Handlers, Count(h) PROVE KeyInv'
  <2>1. loc[h].key \in AKey
    BY <1>2 DEF Count, TypeInv, HandlerType, Fits
  <2>2. DOMAIN counts' = DOMAIN counts \cup {KeysOf(h).count} /\ UNCHANGED entries
    BY <1>2 DEF Count, Put
  <2> QED
    BY <2>1, <2>2, HandlerKeys DEF KeyInv
<1>3. ASSUME NEW h \in Handlers, DelCount(h) \/ Uncache(h) \/ Uncount(h) PROVE KeyInv'
  BY <1>3 DEF DelCount, Uncache, Uncount, Del, KeyInv
<1>4. ASSUME NEW key, ExpireEntry(key) \/ ExpireCount(key) PROVE KeyInv'
  BY <1>4 DEF ExpireEntry, ExpireCount, Del, KeyInv
<1>5. CASE UNCHANGED redisVars
  BY <1>5 DEF redisVars, KeyInv
<1>6. UNCHANGED vars => UNCHANGED redisVars
  BY DEF vars, redisVars
<1> QED
  BY <1>1, <1>2, <1>3, <1>4, <1>5, <1>6, RedisAlone DEF Next, Step

LEMMA KeyInvariant == Spec => [](TypeInv /\ KeyInv)
<1>1. Init => KeyInv
  BY DEF Init, KeyInv
<1> QED
  BY <1>1, TypeInit, TypeStep, KeyStep, PTL DEF Spec

\* However the buffers are named and whatever prefix they hold already, the cache is
\* filled where it is looked up, and no counter is taken for a page.
THEOREM KeysAlwaysDistinct == Spec => []KeysAreDistinct
<1>1. KeyInv => KeysAreDistinct
  BY KeysDiffer DEF KeyInv, KeysAreDistinct
<1> QED
  BY <1>1, KeyInvariant, PTL

-------------------------------------------------------------------------------
(* The cached page of a deleted task.                                        *)

LEMMA GhostStep ==
  ASSUME TypeInv, KeyInv, GhostIsShort, [Next]_vars
  PROVE  GhostIsShort'
<1> USE DEF GhostIsShort
<1>0. /\ pc \in [Handlers -> Steps] /\ table \in [AKey -> Pages]
      /\ \A h \in Handlers : Fits(pc[h], loc[h])
  BY DEF TypeInv, HandlerType, OtherType
<1>1. ASSUME NEW h \in Handlers, Call(h) \/ Step(h), pc[h] # "uncache",
             UNCHANGED <<table, entries, right>>
      PROVE  GhostIsShort'
  BY <1>1, OthersStay DEF Has
<1>2. ASSUME NEW h \in Handlers, SetEntry(h) PROVE GhostIsShort'
  <2> DEFINE key == loc[h].key
  <2>1. /\ entries' = Put(entries, EntryKey(key), loc[h].page) /\ UNCHANGED table
        /\ right' = IF loc[h].page = table[key] THEN right \cup {key} ELSE right \ {key}
    BY <1>2, HandlerKeys DEF SetEntry
  <2>2. \A g \in Handlers : pc[g] = "uncache" => pc'[g] = "uncache" /\ loc'[g] = loc[g]
    <3>1. Step(h) /\ pc[h] # "uncache"
      BY <1>2 DEF Step, SetEntry
    <3> QED
      BY <3>1, OthersStay
  <2>3. ASSUME NEW k \in AKey, k # key
        PROVE  /\ k \in right' <=> k \in right
               /\ Has(entries', EntryKey(k)) <=> Has(entries, EntryKey(k))
               /\ Has(entries, EntryKey(k)) => entries'[EntryKey(k)] = entries[EntryKey(k)]
    BY <2>1, <2>3, KeysDiffer DEF Has, Put
  <2>4. key \in right' => entries'[EntryKey(key)] = table'[key]
    BY <2>1 DEF Put
  <2> HIDE DEF key
  <2> QED
    BY <2>1, <2>2, <2>3, <2>4
<1>3. ASSUME NEW h \in Handlers, DeleteRow(h) PROVE GhostIsShort'
  <2>1. /\ table' = [table EXCEPT ![loc[h].key] = NoTask] /\ UNCHANGED <<entries, right>>
        /\ pc'[h] = "uncache" /\ loc'[h] = loc[h]
    BY <1>0, <1>3 DEF DeleteRow, Goto, redisVars
  <2>2. \A g \in Handlers : pc[g] = "uncache" => pc'[g] = "uncache" /\ loc'[g] = loc[g]
    <3>1. Step(h) /\ pc[h] # "uncache"
      BY <1>3 DEF Step, DeleteRow
    <3> QED
      BY <3>1, OthersStay
  <2> QED
    BY <1>0, <2>1, <2>2 DEF Has
<1>4. ASSUME NEW h \in Handlers, Uncache(h) PROVE GhostIsShort'
  <2>1. /\ UNCHANGED table /\ right' = right \ {loc[h].key}
        /\ entries' = Del(entries, EntryKey(loc[h].key))
    BY <1>4 DEF Uncache
  <2>2. \A g \in Handlers \ {h} : pc[g] = "uncache" => pc'[g] = "uncache" /\ loc'[g] = loc[g]
    BY <1>4, OthersStay DEF Step
  <2> QED
    BY <2>1, <2>2 DEF Has, Del
<1>5. ASSUME NEW h \in Handlers, Insert(h) PROVE GhostIsShort'
  <2>1. UNCHANGED <<entries, right>>
    BY <1>5 DEF Insert, redisVars
  <2>2. \A k \in AKey : table'[k] = table[k] \/ table[k] = NoTask
    BY <1>5, InsertWrites
  <2>3. \A g \in Handlers : pc[g] = "uncache" => pc'[g] = "uncache" /\ loc'[g] = loc[g]
    <3>1. Step(h) /\ pc[h] # "uncache"
      BY <1>5 DEF Step, Insert
    <3> QED
      BY <3>1, OthersStay
  <2> QED
    BY <2>1, <2>2, <2>3 DEF Has
<1>6. ASSUME NEW h \in Handlers, DeleteRowUnanswered(h) PROVE GhostIsShort'
  <2>1. /\ table' = [table EXCEPT ![loc[h].key] = NoTask] /\ UNCHANGED entries
        /\ right' = right \ {loc[h].key}
    BY <1>6 DEF DeleteRowUnanswered, redisVars
  <2>2. \A g \in Handlers : pc[g] = "uncache" => pc'[g] = "uncache" /\ loc'[g] = loc[g]
    <3>1. Step(h) /\ pc[h] # "uncache"
      BY <1>6 DEF Step, DeleteRowUnanswered
    <3> QED
      BY <3>1, OthersStay
  <2> QED
    BY <1>0, <2>1, <2>2 DEF Has
<1>7. ASSUME NEW h \in Handlers, UncacheFails(h) PROVE GhostIsShort'
  <2>1. /\ UNCHANGED <<table, entries>>
        /\ right' = IF pc[h] = "uncache" THEN right \ {loc[h].key} ELSE right
    BY <1>7 DEF UncacheFails, redisVars
  <2>2. \A g \in Handlers \ {h} : pc[g] = "uncache" => pc'[g] = "uncache" /\ loc'[g] = loc[g]
    BY <1>7, OthersStay DEF Step
  <2> QED
    BY <2>1, <2>2 DEF Has
<1>8. ASSUME NEW key \in DOMAIN entries, ExpireEntry(key) PROVE GhostIsShort'
  BY <1>8 DEF ExpireEntry, Has, Del
<1>9. ASSUME NEW key, ExpireCount(key) PROVE GhostIsShort'
  BY <1>9 DEF ExpireCount, Has
<1>10. CASE UNCHANGED vars
  BY <1>10 DEF vars, Has
<1>11. ASSUME NEW h \in Handlers,
              \/ Call(h) \/ Get(h) \/ Share(h) \/ Select(h) \/ Count(h) \/ DelCount(h)
              \/ Uncount(h) \/ ReadMax(h) \/ Fails(h)
       PROVE  pc[h] # "uncache" /\ UNCHANGED <<table, entries, right>>
  BY <1>11 DEF Call, GetTasks, DelTask, NewTasks, Get, Share, Select, Count, DelCount, Uncount,
     ReadMax, Fails, redisVars, historyVars
<1> HIDE DEF GhostIsShort
<1> QED
  BY <1>1, <1>2, <1>3, <1>4, <1>5, <1>6, <1>7, <1>8, <1>9, <1>10, <1>11 DEF Next, Step

\* A page that was right when it was cached outlives its row only while a DelTask is on
\* its way from DeleteRow to Uncache.
THEOREM GhostAlwaysShort == Spec => []GhostIsShort
<1>1. Init => GhostIsShort
  BY DEF Init, GhostIsShort
<1> QED
  BY <1>1, KeyInvariant, GhostStep, PTL DEF Spec

-------------------------------------------------------------------------------
(* When a page is cached.                                                    *)

\* What a counter allows for, the requests that no counter has counted beyond it aside:
\* one below the threshold, as the request that reaches it goes on to cache the page.
Mark(f, key) ==
  IF Has(f, key) THEN IF f[key] < Threshold THEN f[key] ELSE Threshold - 1 ELSE 0

AboutToCache(k) == \E h \in Handlers : pc[h] = "set" /\ loc[h].key = k

\* The requests of a task are counted under its two keys.
HotInv ==
  \A k \in AKey :
    hot[k] <= Mark(counts, CountKey(k)) + Mark(counts, LeaderKey(k)) \/ AboutToCache(k)

LEMMA MarkType ==
  ASSUME RedisType, NEW key
  PROVE  Mark(counts, key) \in 0 .. Threshold - 1
BY ThresholdAssumption DEF Mark, Has, RedisType

\* A counter that is put or deleted changes no mark but its own.
LEMMA MarkOfOthers ==
  ASSUME NEW f, NEW key, NEW n, NEW other, other # key
  PROVE  /\ Mark(Put(f, key, n), other) = Mark(f, other)
         /\ Mark(Del(f, key), other) = Mark(f, other)
BY DEF Mark, Has, Put, Del

\* A request that does not reach the threshold adds one to the mark.
LEMMA MarkOfCounted ==
  ASSUME RedisType, NEW key, ~ Enough(Incremented(key))
  PROVE  Mark(Put(counts, key, Incremented(key)), key) = Mark(counts, key) + 1
<1> DEFINE n == Incremented(key)
<1>1. n \in Nat /\ n < Threshold /\ n = IF Has(counts, key) THEN counts[key] + 1 ELSE 1
  BY ThresholdAssumption DEF Incremented, Enough, Has, RedisType
<1>2. Mark(Put(counts, key, n), key) = n
  <2> HIDE DEF n
  <2> QED
    BY <1>1 DEF Mark, Has, Put
<1>3. Has(counts, key) => counts[key] < Threshold /\ counts[key] \in Nat
  BY <1>1, ThresholdAssumption DEF Has, RedisType
<1> HIDE DEF n
<1>4. Mark(counts, key) + 1 = n
  BY <1>1, <1>3 DEF Mark
<1> QED
  BY <1>2, <1>4 DEF n

\* Where the history begins anew for a task, its counters allow for nothing.
LEMMA HotReset ==
  ASSUME RedisType', NEW k \in AKey, hot'[k] = 0
  PROVE  hot'[k] <= Mark(counts', CountKey(k)) + Mark(counts', LeaderKey(k))
<1>1. /\ Mark(counts', CountKey(k)) \in 0 .. Threshold - 1
      /\ Mark(counts', LeaderKey(k)) \in 0 .. Threshold - 1
  BY ThresholdAssumption DEF Mark, Has, RedisType
<1> QED
  BY <1>1, ThresholdAssumption

\* Where a counter of a task is deleted, and its history begins anew, the others keep
\* what they have.
LEMMA HotDel ==
  ASSUME TypeInv, RedisType', HotInv, NEW k \in AKey, NEW key \in {CountKey(k), LeaderKey(k)},
         counts' = Del(counts, key), hot' = [hot EXCEPT ![k] = 0],
         \A j \in AKey : AboutToCache(j) => AboutToCache(j)'
  PROVE  HotInv'
<1> SUFFICES ASSUME NEW j \in AKey
             PROVE  \/ hot'[j] <= Mark(counts', CountKey(j)) + Mark(counts', LeaderKey(j))
                    \/ AboutToCache(j)'
  BY DEF HotInv
<1>1. hot'[j] = IF j = k THEN 0 ELSE hot[j]
  BY DEF TypeInv, OtherType
<1>2. CASE j = k
  BY <1>1, <1>2, HotReset
<1>3. CASE j # k
  <2>1. CountKey(j) # key /\ LeaderKey(j) # key
    BY <1>3, KeysDiffer
  <2>2. /\ Mark(counts', CountKey(j)) = Mark(counts, CountKey(j))
        /\ Mark(counts', LeaderKey(j)) = Mark(counts, LeaderKey(j))
    BY <2>1, MarkOfOthers
  <2> QED
    BY <1>1, <1>3, <2>2 DEF HotInv
<1> QED
  BY <1>2, <1>3

\* A request is counted by a mark, or takes its handler to the step that caches.
LEMMA CountHot ==
  ASSUME TypeInv, HotInv, NEW h \in Handlers, Count(h),
         \A j \in AKey : AboutToCache(j) => AboutToCache(j)'
  PROVE  HotInv'
<1>0. PICK k, key : k = loc[h].key /\ key = KeysOf(h).count
  OBVIOUS
<1>1. k \in AKey /\ pc \in [Handlers -> Steps] /\ hot \in [AKey -> Nat]
  BY <1>0 DEF Count, TypeInv, HandlerType, Fits, OtherType
<1>2. key = CountKey(k) \/ key = LeaderKey(k)
  BY <1>0, HandlerKeys
<1>3. counts' = Put(counts, key, Incremented(key)) /\ hot' = [hot EXCEPT ![k] = @ + 1]
  BY <1>0 DEF Count
<1>4. \A x : x # key => Mark(counts', x) = Mark(counts, x)
  <2>1. PICK n : counts' = Put(counts, key, n)
    BY <1>3
  <2>2. ASSUME NEW x, x # key PROVE Mark(Put(counts, key, n), x) = Mark(counts, x)
    BY <2>2, MarkOfOthers
  <2> QED
    BY <2>1, <2>2
<1>5. Enough(Incremented(key)) => pc'[h] = "set" /\ loc'[h].key = k
  BY <1>0, <1>1 DEF Count, Goto
<1> SUFFICES ASSUME NEW j \in AKey
             PROVE  \/ hot'[j] <= Mark(counts', CountKey(j)) + Mark(counts', LeaderKey(j))
                    \/ AboutToCache(j)'
  BY DEF HotInv
<1>6. CASE j # k
  <2>1. CountKey(j) # key /\ LeaderKey(j) # key
    BY <1>2, <1>6, KeysDiffer
  <2>2. /\ Mark(counts', CountKey(j)) = Mark(counts, CountKey(j))
        /\ Mark(counts', LeaderKey(j)) = Mark(counts, LeaderKey(j))
    BY <1>4, <2>1
  <2>3. hot'[j] = hot[j]
    BY <1>1, <1>3, <1>6
  <2> QED
    BY <2>2, <2>3 DEF HotInv
<1>7. CASE j = k /\ Enough(Incremented(key))
  BY <1>5, <1>7 DEF AboutToCache
<1>8. CASE j = k /\ ~ Enough(Incremented(key))
  <2>1. hot'[k] = hot[k] + 1 /\ hot[k] \in Nat
    BY <1>1, <1>3
  <2>2. /\ Mark(counts, CountKey(k)) \in 0 .. Threshold - 1
        /\ Mark(counts, LeaderKey(k)) \in 0 .. Threshold - 1
    BY MarkType DEF TypeInv
  <2>3. Mark(counts', key) = Mark(counts, key) + 1
    BY <1>3, <1>8, MarkOfCounted DEF TypeInv
  <2>4. /\ key = CountKey(k) => Mark(counts', LeaderKey(k)) = Mark(counts, LeaderKey(k))
        /\ key = LeaderKey(k) => Mark(counts', CountKey(k)) = Mark(counts, CountKey(k))
    BY <1>4, KeysDiffer
  <2>5. \/ hot[k] <= Mark(counts, CountKey(k)) + Mark(counts, LeaderKey(k))
        \/ AboutToCache(k)
    BY <1>1 DEF HotInv
  <2> QED
    BY <1>1, <1>2, <1>8, <2>1, <2>2, <2>3, <2>4, <2>5, ThresholdAssumption
<1> QED
  BY <1>6, <1>7, <1>8

\* Only the handler that caches a page leaves the step that does.
LEMMA CachersStay ==
  ASSUME TypeInv, NEW h \in Handlers, Call(h) \/ Step(h), NEW k \in AKey, AboutToCache(k)
  PROVE  \/ AboutToCache(k)'
         \/ pc[h] = "set" /\ loc[h].key = k
<1>1. PICK g \in Handlers : pc[g] = "set" /\ loc[g].key = k
  BY DEF AboutToCache
<1>2. g # h => pc'[g] = "set" /\ loc'[g].key = k
  BY <1>1, OthersStay
<1> QED
  BY <1>1, <1>2 DEF AboutToCache

LEMMA HotStep ==
  ASSUME TypeInv, TypeInv', KeyInv, HotInv, [Next]_vars
  PROVE  HotInv'
<1>0. hot \in [AKey -> Nat] /\ RedisType'
  BY DEF TypeInv, OtherType
<1>1. ASSUME NEW h \in Handlers, Call(h) \/ Step(h), pc[h] # "set", UNCHANGED <<counts, hot>>
      PROVE  HotInv'
  BY <1>1, CachersStay DEF HotInv
<1>2. ASSUME NEW h \in Handlers, Count(h) PROVE HotInv'
  <2>1. Step(h) /\ pc[h] # "set"
    BY <1>2 DEF Step, Count
  <2> QED
    BY <1>2, <2>1, CachersStay, CountHot
<1>3. ASSUME NEW h \in Handlers, DelCount(h) \/ Uncount(h) PROVE HotInv'
  <2>1. Step(h) /\ pc[h] # "set"
    BY <1>3 DEF Step, DelCount, Uncount
  <2>2. loc[h].key \in AKey
    BY <1>3 DEF DelCount, Uncount, TypeInv, HandlerType, Fits
  <2>3. PICK key \in {CountKey(loc[h].key), LeaderKey(loc[h].key)} : counts' = Del(counts, key)
    BY <1>3, HandlerKeys DEF DelCount, Uncount, CountKey
  <2>4. hot' = [hot EXCEPT ![loc[h].key] = 0]
    BY <1>3 DEF DelCount, Uncount
  <2> QED
    BY <1>0, <2>1, <2>2, <2>3, <2>4, CachersStay, HotDel
<1>4. ASSUME NEW h \in Handlers, SetEntry(h) PROVE HotInv'
  <2>1. Step(h) /\ pc[h] = "set" /\ UNCHANGED counts /\ hot' = [hot EXCEPT ![loc[h].key] = 0]
    BY <1>4 DEF Step, SetEntry
  <2> QED
    BY <1>0, <2>1, CachersStay, HotReset DEF HotInv
<1>5. ASSUME NEW h \in Handlers, Fails(h) PROVE HotInv'
  <2>1. Step(h) /\ UNCHANGED counts
    BY <1>5 DEF Step, Fails, redisVars
  <2>2. \A k \in AKey :
          hot'[k] = IF pc[h] \in {"count", "set"} /\ loc[h].key = k THEN 0 ELSE hot[k]
    BY <1>5 DEF Fails
  <2> QED
    BY <1>0, <2>1, <2>2, CachersStay, HotReset DEF HotInv
<1>6. ASSUME NEW key \in DOMAIN counts, ExpireCount(key) PROVE HotInv'
  <2>1. PICK k \in AKey : key \in {CountKey(k), LeaderKey(k)}
    BY DEF KeyInv
  <2>2. hot' = [hot EXCEPT ![k] = 0] /\ counts' = Del(counts, key) /\ UNCHANGED <<pc, loc>>
    BY <1>6, <2>1, LastOfKey DEF ExpireCount
  <2>3. \A j \in AKey : AboutToCache(j) => AboutToCache(j)'
    BY <2>2 DEF AboutToCache
  <2> QED
    BY <1>0, <2>1, <2>2, <2>3, HotDel
<1>7. ASSUME UNCHANGED <<counts, hot, pc, loc>> PROVE HotInv'
  BY <1>7 DEF HotInv, AboutToCache
<1>8. /\ \A key : ExpireEntry(key) => UNCHANGED <<counts, hot, pc, loc>>
      /\ UNCHANGED vars => UNCHANGED <<counts, hot, pc, loc>>
  BY DEF ExpireEntry, vars
<1>9. ASSUME NEW h \in Handlers,
             \/ Call(h) \/ Get(h) \/ Share(h) \/ Select(h) \/ DeleteRow(h) \/ Uncache(h)
             \/ ReadMax(h) \/ Insert(h) \/ DeleteRowUnanswered(h) \/ UncacheFails(h)
      PROVE  pc[h] # "set" /\ UNCHANGED <<counts, hot>>
  BY <1>9 DEF Call, GetTasks, DelTask, NewTasks, Get, Share, Select, DeleteRow, Uncache, ReadMax,
     Insert, DeleteRowUnanswered, UncacheFails, redisVars, historyVars
<1> QED
  BY <1>1, <1>2, <1>3, <1>4, <1>5, <1>6, <1>7, <1>8, <1>9 DEF Next, Step

\* However the requests fall on the two counters, a task is cached after twice the
\* threshold less two.
THEOREM HotTaskAlwaysCached == Spec => []HotTaskIsCached
<1>1. Init => HotInv
  BY DEF Init, HotInv, Mark, Has
<1>2. TypeInv /\ HotInv => HotTaskIsCached
  <2> SUFFICES ASSUME TypeInv, HotInv, NEW k \in AKey
               PROVE  hot[k] <= 2 * (Threshold - 1) \/ AboutToCache(k)
    BY DEF HotTaskIsCached, AboutToCache
  <2>1. /\ Mark(counts, CountKey(k)) \in 0 .. Threshold - 1
        /\ Mark(counts, LeaderKey(k)) \in 0 .. Threshold - 1 /\ hot[k] \in Nat
    BY MarkType DEF TypeInv, OtherType
  <2>2. \/ hot[k] <= Mark(counts, CountKey(k)) + Mark(counts, LeaderKey(k))
        \/ AboutToCache(k)
    BY DEF HotInv
  <2> QED
    BY <2>1, <2>2, ThresholdAssumption
<1>3. TypeInv /\ KeyInv /\ TypeInv' /\ HotInv /\ [Next]_vars => HotInv'
  BY HotStep
<1> QED
  BY <1>1, <1>2, <1>3, KeyInvariant, PTL DEF Spec

-------------------------------------------------------------------------------
(* The positions of a level.                                                 *)

Taken(l, p) == table[<<l, p>>] # NoTask

\* As long as no row is deleted, the position a bulk is inserted after is taken.
LevelInv ==
  regular =>
    /\ \A l \in Levels, p \in Positions : p > First /\ Taken(l, p) => Taken(l, p - 1)
    /\ \A h \in Handlers :
         pc[h] = "insert" => loc[h].base = 0 \/ Taken(loc[h].bulk[1].level, loc[h].base)

\* A handler that is about to insert was so, unless it read the highest position.
LEMMA InsertersStay ==
  ASSUME TypeInv, NEW h \in Handlers, Call(h) \/ Step(h), ~ ReadMax(h),
         NEW g \in Handlers, pc'[g] = "insert"
  PROVE  pc[g] = "insert" /\ loc'[g] = loc[g]
<1>1. pc \in [Handlers -> Steps] /\ loc \in [Handlers -> Locs]
  BY DEF TypeInv, HandlerType
<1>2. CASE g # h
  BY <1>2, OthersStay
<1>3. CASE g = h
  BY <1>1, <1>3 DEF Call, Step, GetTasks, DelTask, NewTasks, Get, Share, Sharing, Select, Count,
     SetEntry, DelCount, DeleteRow, Uncache, Uncount, Insert, Fails, DeleteRowUnanswered,
     UncacheFails, Goto, Return
<1> QED
  BY <1>2, <1>3

\* The rows of a bulk follow each other and the position that was the highest when it was
\* read; what was inserted since is left as it is.
LEMMA InsertLevel ==
  ASSUME TypeInv, LevelInv, NEW h \in Handlers, Insert(h)
  PROVE  LevelInv'
<1>0. PICK bulk, base, first : bulk = loc[h].bulk /\ base = loc[h].base /\ first = bulk[1].level
  OBVIOUS
<1> SUFFICES ASSUME regular'
             PROVE  /\ \A l \in Levels, p \in Positions :
                         p > First /\ Taken(l, p)' => Taken(l, p - 1)'
                    /\ \A g \in Handlers :
                         pc'[g] = "insert" => \/ loc'[g].base = 0
                                              \/ Taken(loc[g].bulk[1].level, loc[g].base)'
  BY DEF LevelInv
<1>1. /\ bulk \in Bulks /\ base \in 0 .. MaxPosition /\ DOMAIN bulk \subseteq Nat \ {0}
      /\ \A i \in DOMAIN bulk : bulk[i].level = first
      /\ regular
  <2>1. bulk \in Bulks /\ regular /\ \A i \in DOMAIN bulk : bulk[i].level = first
    BY <1>0, InsertWrites
  <2>2. loc[h] \in Locs
    BY DEF TypeInv, HandlerType
  <2> QED
    BY <1>0, <2>1, <2>2, BulkShape DEF Locs
<1>2. \A i \in DOMAIN bulk : <<first, base + i>> \in AKey /\ Taken(first, base + i)'
  <2>1. \A i \in DOMAIN bulk : KeyOf(bulk, base, i) = <<first, base + i>>
    BY <1>1 DEF KeyOf, PositionsOf
  <2>2. \A i \in DOMAIN bulk : /\ KeyOf(bulk, base, i) \in AKey
                               /\ table'[KeyOf(bulk, base, i)] \in Tasks
    BY <1>0, InsertWrites
  <2> QED
    BY <2>1, <2>2, DistinctAssumption DEF Taken
<1>3. \A l \in Levels, p \in Positions : Taken(l, p) => Taken(l, p)'
  BY InsertWrites DEF Taken, AKey
<1>4. \A l \in Levels, p \in Positions :
        Taken(l, p)' => Taken(l, p) \/ \E i \in DOMAIN bulk : l = first /\ p = base + i
  <2> SUFFICES ASSUME NEW l \in Levels, NEW p \in Positions, table'[<<l, p>>] # table[<<l, p>>]
               PROVE  \E i \in DOMAIN bulk : l = first /\ p = base + i
    BY DEF Taken
  <2>1. PICK i \in DOMAIN bulk : <<l, p>> = KeyOf(bulk, base, i)
    BY <1>0, InsertWrites DEF AKey
  <2> QED
    BY <1>1, <2>1 DEF KeyOf, PositionsOf
<1>5. base = 0 \/ Taken(first, base)
  BY <1>0, <1>1 DEF LevelInv, Insert
<1>6. \A i \in DOMAIN bulk : i > 1 => i - 1 \in DOMAIN bulk
  <2>1. DOMAIN bulk = 1 .. Len(bulk) /\ Len(bulk) \in Nat
    BY <1>1, BulkShape, BulksAssumption
  <2> QED
    BY <2>1
<1>7. first \in Levels
  BY <1>0, <1>1, BulkShape
<1>8. ASSUME NEW l \in Levels, NEW p \in Positions, p > First, Taken(l, p)'
      PROVE  Taken(l, p - 1)'
  <2>0. p - 1 \in Positions
    BY <1>8, ThresholdAssumption DEF Positions, First
  <2>1. CASE Taken(l, p)
    BY <1>1, <1>3, <1>8, <2>0, <2>1 DEF LevelInv
  <2>2. ASSUME NEW i \in DOMAIN bulk, l = first, p = base + i
        PROVE  Taken(l, p - 1)'
    <3>0. i \in Nat \ {0} /\ base \in Nat
      BY <1>1
    <3>1. CASE i = 1
      <4>1. p - 1 = base /\ base # 0
        BY <1>8, <2>2, <3>0, <3>1 DEF First
      <4> QED
        BY <1>3, <1>5, <2>0, <2>2, <4>1
    <3>2. CASE i > 1
      <4>1. i - 1 \in DOMAIN bulk /\ p - 1 = base + (i - 1)
        BY <1>6, <2>2, <3>0, <3>2
      <4> QED
        BY <1>2, <2>2, <4>1
    <3> QED
      BY <3>0, <3>1, <3>2
  <2> QED
    BY <1>4, <1>8, <2>1, <2>2
<1>9. ASSUME NEW g \in Handlers, pc'[g] = "insert", loc'[g].base # 0
      PROVE  Taken(loc[g].bulk[1].level, loc[g].base)'
  <2>1. Step(h) /\ ~ ReadMax(h)
    BY DEF Step, Insert, ReadMax
  <2>2. pc[g] = "insert" /\ loc'[g] = loc[g]
    BY <1>9, <2>1, InsertersStay
  <2>3. PICK l, p : l = loc[g].bulk[1].level /\ p = loc[g].base
    OBVIOUS
  <2>4. Taken(l, p)
    BY <1>1, <1>9, <2>2, <2>3 DEF LevelInv
  <2>5. l \in Levels /\ p \in Positions
    <3>1. loc[g] \in Locs /\ loc[g].bulk \in Bulks
      BY <2>2 DEF TypeInv, HandlerType, Fits
    <3> QED
      BY <1>9, <2>2, <2>3, <3>1, BulkShape, ThresholdAssumption DEF Locs, Positions
  <2>6. Taken(l, p)'
    BY <1>3, <2>4, <2>5
  <2> QED
    BY <2>2, <2>3, <2>6 DEF Taken
<1> QED
  BY <1>8, <1>9

LEMMA LevelStep ==
  ASSUME TypeInv, LevelInv, [Next]_vars
  PROVE  LevelInv'
<1>1. ASSUME NEW h \in Handlers, Call(h) \/ Step(h), ~ ReadMax(h),
             regular' => regular /\ UNCHANGED table
      PROVE  LevelInv'
  BY <1>1, InsertersStay DEF LevelInv, Taken
<1>2. ASSUME NEW h \in Handlers, ReadMax(h) PROVE LevelInv'
  <2>1. /\ loc[h].bulk \in Bulks /\ UNCHANGED <<table, regular>>
        /\ pc \in [Handlers -> Steps] /\ loc \in [Handlers -> Locs]
    BY <1>2 DEF ReadMax, TypeInv, HandlerType, Fits, historyVars
  <2>2. PICK l, n : l = loc[h].bulk[1].level /\ n = MaxOf(l)
    OBVIOUS
  <2>3. n > 0 => Taken(l, n)
    BY <2>1, <2>2, BulkShape, MaxOfType DEF Taken
  <2>4. n \in Nat
    <3>1. n \in 0 .. MaxPosition
      BY <2>1, <2>2, BulkShape, MaxOfType
    <3> QED
      BY <3>1
  <2>5. loc'[h].bulk = loc[h].bulk /\ loc'[h].base = n
    BY <1>2, <2>1, <2>2 DEF ReadMax, Locs
  <2>6. \A g \in Handlers \ {h} : pc'[g] = pc[g] /\ loc'[g] = loc[g]
    BY <1>2, <2>1 DEF ReadMax, Goto
  <2> QED
    BY <2>1, <2>2, <2>3, <2>4, <2>5, <2>6 DEF LevelInv, Taken
<1>3. ASSUME NEW h \in Handlers, DeleteRow(h) \/ DeleteRowUnanswered(h)
      PROVE  ~ ReadMax(h) /\ (regular' => regular /\ UNCHANGED table)
  <2>1. table \in [AKey -> Pages]
    BY DEF TypeInv, OtherType
  <2> QED
    BY <1>3, <2>1 DEF DeleteRow, DeleteRowUnanswered, ReadMax
<1>4. ASSUME NEW key, ExpireEntry(key) \/ ExpireCount(key) PROVE LevelInv'
  BY <1>4 DEF ExpireEntry, ExpireCount, LevelInv, Taken
<1>5. CASE UNCHANGED vars
  BY <1>5 DEF vars, LevelInv, Taken
<1> QED
  BY <1>1, <1>2, <1>3, <1>4, <1>5, TableAlone, InsertLevel DEF Next, Step

\* Concurrent NewTasks leave no gap before the tasks of a level.
THEOREM LevelAlwaysStartsAtFirst == Spec => []LevelStartsAtFirst
<1>1. Init => LevelInv
  BY DEF Init, LevelInv, Taken, AKey, Positions, First
<1>2. LevelInv => LevelStartsAtFirst
  BY DEF LevelInv, Taken, LevelStartsAtFirst
<1>3. TypeInv /\ LevelInv /\ [Next]_vars => LevelInv'
  BY LevelStep
<1> QED
  BY <1>1, <1>2, <1>3, KeyInvariant, PTL DEF Spec

-------------------------------------------------------------------------------
(* A deleted task dies out.                                                  *)

\* The keys that show a task, and the handlers that have read it and may still cache it.
Shown(task) == {key \in DOMAIN entries : entries[key] = task}
Writers(task) == {h \in Handlers : pc[h] \in {"count", "set"} /\ loc[h].page = task}

Gone(task) == \A k \in AKey : table[k] # task

\* A handler becomes one of them only by reading the table.
LEMMA WritersRead ==
  ASSUME TypeInv, NEW h \in Handlers, Call(h) \/ Step(h), NEW task \in Tasks, Gone(task)
  PROVE  Writers(task)' \subseteq Writers(task)
<1>0. pc \in [Handlers -> Steps] /\ loc \in [Handlers -> Locs]
  BY DEF TypeInv, HandlerType
<1>1. ASSUME NEW g \in Handlers \ {h}, g \in Writers(task)' PROVE g \in Writers(task)
  BY <1>1, OthersStay DEF Writers
<1>2. ASSUME h \in Writers(task)' PROVE h \in Writers(task)
  <2>1. pc'[h] \in {"count", "set"} /\ loc'[h].page = task
    BY <1>2 DEF Writers
  <2>2. CASE Select(h)
    <3>1. loc[h].key \in AKey /\ loc'[h].page = table[loc[h].key]
      BY <1>0, <2>2 DEF Select, TypeInv, HandlerType, Fits, Locs
    <3> QED
      BY <2>1, <3>1 DEF Gone
  <2>3. CASE Count(h)
    <3>1. pc[h] = "count" /\ (UNCHANGED loc \/ Return(h))
      BY <2>3 DEF Count
    <3>2. ~Return(h)
      BY <1>0, <2>1 DEF Return, Goto
    <3> QED
      BY <2>1, <3>1, <3>2 DEF Writers
  <2>4. CASE Share(h)
    BY <1>0, <2>1, <2>4 DEF Share, Sharing
  <2>5. CASE ~Select(h) /\ ~Count(h) /\ ~Share(h)
    BY <1>0, <2>1, <2>5 DEF Call, Step, GetTasks, DelTask, NewTasks, Get, SetEntry, DelCount,
       DeleteRow, Uncache, Uncount, ReadMax, Insert, Fails, DeleteRowUnanswered, UncacheFails,
       Goto, Return
  <2> QED
    BY <2>2, <2>3, <2>4, <2>5
<1> QED
  BY <1>1, <1>2 DEF Writers

\* Only they bring the task back to the cache, each at most once.
LEMMA WritersLeave ==
  ASSUME TypeInv, [Next]_vars, NEW task \in Tasks
  PROVE  \/ Shown(task)' \subseteq Shown(task)
         \/ \E h \in Writers(task) : h \notin Writers(task)'
<1>1. ASSUME NEW h \in Handlers, SetEntry(h), loc[h].page = task
      PROVE  h \in Writers(task) /\ h \notin Writers(task)'
  <2>1. pc[h] = "set" /\ pc'[h] = "delCount"
    BY <1>1 DEF SetEntry, Goto, TypeInv, HandlerType
  <2> QED
    BY <1>1, <2>1 DEF Writers
<1>2. ASSUME NEW h \in Handlers, SetEntry(h), loc[h].page # task
      PROVE  Shown(task)' \subseteq Shown(task)
  BY <1>2 DEF SetEntry, Put, Shown
<1>3. ASSUME NEW key, entries' = Del(entries, key) PROVE Shown(task)' \subseteq Shown(task)
  BY <1>3 DEF Del, Shown
<1>4. CASE UNCHANGED entries
  BY <1>4 DEF Shown
<1>5. \A h \in Handlers : Call(h) \/ Step(h) =>
        SetEntry(h) \/ (\E key : entries' = Del(entries, key)) \/ UNCHANGED entries
  BY RedisAlone DEF Step, Count, DelCount, Uncache, Uncount, redisVars
<1>6. \A key : ExpireEntry(key) \/ ExpireCount(key) =>
        entries' = Del(entries, key) \/ UNCHANGED entries
  BY DEF ExpireEntry, ExpireCount
<1>7. UNCHANGED vars => UNCHANGED entries
  BY DEF vars, redisVars
<1> QED
  BY <1>1, <1>2, <1>3, <1>4, <1>5, <1>6, <1>7 DEF Next

\* Once a task is in no row any more, the handlers that may still cache it only get fewer, each
\* does so at most once, and nobody else brings it back to the cache: so it comes back at most as
\* often as there are handlers that read it before it was deleted, and then its entries expire.
\* This is the argument for DeletedIsForgotten.
THEOREM GhostsDieOut ==
  Spec => [][\A task \in Tasks : Gone(task) =>
               /\ Writers(task)' \subseteq Writers(task)
               /\ \/ Shown(task)' \subseteq Shown(task)
                  \/ \E h \in Writers(task) : h \notin Writers(task)']_vars
<1>1. ASSUME TypeInv, [Next]_vars
      PROVE  \A task \in Tasks : Gone(task) =>
               /\ Writers(task)' \subseteq Writers(task)
               /\ \/ Shown(task)' \subseteq Shown(task)
                  \/ \E h \in Writers(task) : h \notin Writers(task)'
  <2> SUFFICES ASSUME NEW task \in Tasks, Gone(task)
               PROVE  /\ Writers(task)' \subseteq Writers(task)
                      /\ \/ Shown(task)' \subseteq Shown(task)
                         \/ \E h \in Writers(task) : h \notin Writers(task)'
    OBVIOUS
  <2>1. ASSUME NEW h \in Handlers, Call(h) \/ Step(h)
        PROVE  Writers(task)' \subseteq Writers(task)
    BY <1>1, <2>1, WritersRead
  <2>2. UNCHANGED <<pc, loc>> => Writers(task)' \subseteq Writers(task)
    BY DEF Writers
  <2>3. \A key : ExpireEntry(key) \/ ExpireCount(key) => UNCHANGED <<pc, loc>>
    BY DEF ExpireEntry, ExpireCount
  <2>4. UNCHANGED vars => UNCHANGED <<pc, loc>>
    BY DEF vars
  <2>5. Writers(task)' \subseteq Writers(task)
    BY <1>1, <2>1, <2>2, <2>3, <2>4 DEF Next
  <2> QED
    BY <1>1, <2>5, WritersLeave
<1> QED
  BY <1>1, TypeInit, TypeStep, PTL DEF Spec
===============================================================================
