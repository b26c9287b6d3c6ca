---------------------------- MODULE Notify_proofs -----------------------------
(***************************************************************************)
(* What Notify guarantees for all tables, sizes of pages and batches, slots  *)
(* and bounds.                                                               *)
(***************************************************************************)
EXTENDS Notify, FiniteSetTheorems, SequenceTheorems, TLAPS

USE SizesAssumption

-------------------------------------------------------------------------------
(* Numbers.                                                                  *)

\* The conversion to an int32 lands in its range.
LEMMA Int32Type == ASSUME NEW n \in Int PROVE Int32(n) \in -(MaxInt32 + 1) .. MaxInt32
<1>1. PICK m, w : m = n + MaxInt32 + 1 /\ w = 2 * MaxInt32 + 2
  OBVIOUS
<1>2. m \in Int /\ w \in Nat \ {0}
  BY <1>1
<1>3. m % w \in 0 .. w - 1
  BY <1>2
<1> QED
  BY <1>1, <1>3 DEF Int32

LEMMA TimesGrows ==
  ASSUME NEW a \in Nat, NEW b \in Nat, NEW w \in Nat, a <= b
  PROVE  a * w <= b * w
OBVIOUS

\* Division leaves one quotient and one remainder.
LEMMA Division ==
  ASSUME NEW w \in Nat \ {0}, NEW q \in Nat, NEW r \in 0 .. w - 1
  PROVE  (q * w + r) \div w = q /\ (q * w + r) % w = r
OBVIOUS

LEMMA DivisionType ==
  ASSUME NEW w \in Nat \ {0}, NEW n \in Nat
  PROVE  /\ n \div w \in Nat /\ n % w \in 0 .. w - 1
         /\ n = (n \div w) * w + (n % w)
<1>1. n \div w \in Nat /\ n % w \in 0 .. w - 1
  OBVIOUS
<1>2. n = w * (n \div w) + (n % w)
  OBVIOUS
<1>3. w * (n \div w) = (n \div w) * w
  BY <1>1
<1> QED
  BY <1>1, <1>2, <1>3

\* Days do not go back.
LEMMA DayGrows ==
  ASSUME NEW n \in Nat
  PROVE  n \div HoursPerDay <= (n + 1) \div HoursPerDay
OBVIOUS

-------------------------------------------------------------------------------
(* The order of a page.                                                      *)

Below(id, ids) == {j \in ids : j < id}

Rank(id, ids) == Cardinality(Below(id, ids))

\* In a finite set of numbers each has its rank, the smaller the number the smaller.
LEMMA RankType ==
  ASSUME NEW ids, IsFiniteSet(ids), ids \subseteq Int, NEW a \in ids
  PROVE  /\ IsFiniteSet(Below(a, ids)) /\ Cardinality(ids) \in Nat
         /\ Rank(a, ids) \in Nat /\ Rank(a, ids) < Cardinality(ids)
<1>1. Below(a, ids) \in SUBSET ids /\ Below(a, ids) # ids
  BY DEF Below
<1> QED
  BY <1>1, FS_Subset, FS_CardinalityType DEF Rank

\* Ranks order the ids as the ids are ordered, and tell them apart.
LEMMA RankOrder ==
  ASSUME NEW ids, IsFiniteSet(ids), ids \subseteq Int, NEW a \in ids, NEW b \in ids
  PROVE  /\ a < b <=> Rank(a, ids) < Rank(b, ids)
         /\ a = b <=> Rank(a, ids) = Rank(b, ids)
<1>1. ASSUME NEW c \in ids, NEW d \in ids, c < d PROVE Rank(c, ids) < Rank(d, ids)
  <2>1. Below(c, ids) \in SUBSET Below(d, ids) /\ Below(c, ids) # Below(d, ids)
    <3>1. c \in Int /\ d \in Int /\ \A j \in ids : j < c => j < d
      BY <1>1
    <3>2. c \in Below(d, ids) /\ c \notin Below(c, ids)
      BY <1>1, <3>1 DEF Below
    <3> QED
      BY <3>1, <3>2 DEF Below
  <2>2. IsFiniteSet(Below(d, ids)) /\ Rank(d, ids) \in Nat /\ Rank(c, ids) \in Nat
    BY RankType
  <2>3. Rank(c, ids) <= Rank(d, ids) /\ Rank(c, ids) # Rank(d, ids)
    BY <2>1, <2>2, FS_Subset DEF Rank
  <2> QED
    BY <2>2, <2>3
<1>2. Rank(a, ids) \in Nat /\ Rank(b, ids) \in Nat
  BY RankType
<1>3. a < b \/ b < a \/ a = b
  OBVIOUS
<1> QED
  BY <1>1, <1>2, <1>3

\* Each rank has its number.
LEMMA RankTaken ==
  ASSUME NEW ids, IsFiniteSet(ids), ids \subseteq Int, NEW k \in 0 .. Cardinality(ids) - 1
  PROVE  \E a \in ids : Rank(a, ids) = k
<1> PICK n : n = Cardinality(ids)
  OBVIOUS
<1>1. n \in Nat
  BY FS_CardinalityType
<1> DEFINE f == [a \in ids |-> Rank(a, ids)]
<1>2. f \in Injection(ids, 0 .. n - 1)
  <2>1. f \in [ids -> 0 .. n - 1]
    <3>1. \A a \in ids : Rank(a, ids) \in Nat /\ Rank(a, ids) < n
      BY RankType
    <3> QED
      BY <1>1, <3>1
  <2>2. \A a, b \in ids : f[a] = f[b] => a = b
    BY RankOrder
  <2> QED
    BY <1>1, <2>1, <2>2 DEF Injection, IsInjective
<1>3. IsFiniteSet(0 .. n - 1) /\ Cardinality(0 .. n - 1) = n
  <2>1. 0 \in Int /\ n - 1 \in Int /\ (IF 0 > n - 1 THEN 0 ELSE n - 1 - 0 + 1) = n
    BY <1>1
  <2> QED
    BY <2>1, FS_Interval
<1>4. f \in Surjection(ids, 0 .. n - 1)
  BY <1>2, <1>3, FS_Injection
<1> QED
  BY <1>4 DEF Surjection

\* A page in order: every id once, the greatest last.
LEMMA InOrderType ==
  ASSUME NEW ids, IsFiniteSet(ids), ids \subseteq Int
  PROVE  /\ InOrder(ids) \in [1 .. Cardinality(ids) -> ids]
         /\ \A k \in 1 .. Cardinality(ids) : Rank(InOrder(ids)[k], ids) = k - 1
         /\ \A i, k \in 1 .. Cardinality(ids) : InOrder(ids)[i] = InOrder(ids)[k] => i = k
         /\ \A a \in ids : \E k \in 1 .. Cardinality(ids) : InOrder(ids)[k] = a
         /\ \A a \in ids : a <= InOrder(ids)[Cardinality(ids)]
<1> PICK n : n = Cardinality(ids)
  OBVIOUS
<1> DEFINE s == InOrder(ids)
<1>1. n \in Nat
  BY FS_CardinalityType
<1>2. ASSUME NEW k \in 1 .. n PROVE s[k] \in ids /\ Rank(s[k], ids) = k - 1
  <2>1. k - 1 \in 0 .. n - 1
    BY <1>1
  <2>2. \E a \in ids : Rank(a, ids) = k - 1
    BY <2>1, RankTaken
  <2>3. s[k] = CHOOSE a \in ids : Rank(a, ids) = k - 1
    BY DEF InOrder, Below, Rank
  <2> QED
    BY <2>2, <2>3
<1>3. s \in [1 .. n -> ids]
  BY <1>2 DEF InOrder
<1>4. \A i, k \in 1 .. n : s[i] = s[k] => i = k
  <2>1. ASSUME NEW i \in 1 .. n, NEW k \in 1 .. n, s[i] = s[k] PROVE i = k
    <3>1. i - 1 = k - 1
      BY <1>2, <2>1
    <3> QED
      BY <1>1, <3>1
  <2> QED
    BY <2>1
<1>5. ASSUME NEW a \in ids PROVE \E k \in 1 .. n : s[k] = a
  <2>1. PICK r : r = Rank(a, ids) /\ r \in 0 .. n - 1
    <3>1. Rank(a, ids) \in Nat /\ Rank(a, ids) < n
      BY RankType
    <3> QED
      BY <1>1, <3>1
  <2>2. r + 1 \in 1 .. n /\ (r + 1) - 1 = r
    BY <1>1, <2>1
  <2>3. s[r + 1] \in ids /\ Rank(s[r + 1], ids) = r
    BY <1>2, <2>2
  <2>4. s[r + 1] = a
    BY <2>1, <2>3, RankOrder
  <2> QED
    BY <2>2, <2>4
<1>6. ASSUME NEW a \in ids PROVE a <= s[n]
  <2>1. n \in 1 .. n
    BY <1>1, <1>5
  <2>2. PICK b : b = s[n] /\ b \in ids /\ Rank(b, ids) = n - 1
    BY <1>2, <2>1
  <2>3. Rank(a, ids) \in Nat /\ Rank(a, ids) < n
    BY RankType
  <2>4. ~(b < a)
    <3>1. ~(Rank(b, ids) < Rank(a, ids))
      BY <1>1, <2>2, <2>3
    <3> QED
      BY <2>2, <3>1, RankOrder
  <2> QED
    BY <2>2, <2>4
<1> QED
  BY <1>2, <1>3, <1>4, <1>5, <1>6

\* The n smallest are fewer than n only if they are all, and nothing left out is smaller.
LEMMA SmallestType ==
  ASSUME NEW ids, IsFiniteSet(ids), ids \subseteq Int, NEW n \in Nat
  PROVE  /\ Smallest(n, ids) \subseteq ids
         /\ \A a \in Smallest(n, ids), b \in ids \ Smallest(n, ids) : a < b
         /\ Cardinality(Smallest(n, ids)) < n => Smallest(n, ids) = ids
<1> DEFINE small == Smallest(n, ids)
<1>1. small = {a \in ids : Rank(a, ids) < n}
  BY DEF Smallest, Below, Rank
<1> HIDE DEF small
<1>2. ASSUME NEW a \in small, NEW b \in ids \ small PROVE a < b
  <2>1. a \in ids /\ b \in ids /\ a \in Int /\ b \in Int
    BY <1>1
  <2>2. /\ Rank(a, ids) < n /\ ~(Rank(b, ids) < n)
    BY <1>1
  <2>3. Rank(a, ids) \in Nat /\ Rank(b, ids) \in Nat
    BY <2>1, RankType
  <2>4. Rank(a, ids) < Rank(b, ids)
    BY <2>2, <2>3
  <2> QED
    BY <2>1, <2>4, RankOrder
<1>3. ASSUME NEW b \in ids \ small PROVE Cardinality(small) >= n
  <2>1. n < Cardinality(ids) /\ Cardinality(ids) \in Nat
    <3>1. b \in ids /\ ~(Rank(b, ids) < n)
      BY <1>1
    <3>2. Rank(b, ids) \in Nat /\ Rank(b, ids) < Cardinality(ids) /\ Cardinality(ids) \in Nat
      BY <3>1, RankType
    <3> QED
      BY <3>1, <3>2
  <2>2. IsFiniteSet(small) /\ Cardinality(small) \in Nat
    BY <1>1, FS_Subset, FS_CardinalityType
  <2> DEFINE f == [k \in 1 .. n |-> InOrder(ids)[k]]
  <2>3. f \in Injection(1 .. n, small)
    <3>1. 1 .. n \subseteq 1 .. Cardinality(ids) /\ \A k \in 1 .. n : k - 1 < n
      BY <2>1
    <3>2. \A k \in 1 .. n : InOrder(ids)[k] \in ids /\ Rank(InOrder(ids)[k], ids) = k - 1
      <4>1. \A k \in 1 .. Cardinality(ids) :
              InOrder(ids)[k] \in ids /\ Rank(InOrder(ids)[k], ids) = k - 1
        <5>1. \A k \in 1 .. Cardinality(ids) : Rank(InOrder(ids)[k], ids) = k - 1
          BY InOrderType
        <5>2. InOrder(ids) \in [1 .. Cardinality(ids) -> ids]
          BY InOrderType
        <5> QED
          BY <5>1, <5>2
      <4> QED
        BY <3>1, <4>1
    <3>3. \A k \in 1 .. n : InOrder(ids)[k] \in small
      BY <1>1, <3>1, <3>2
    <3>4. \A i, k \in 1 .. n : InOrder(ids)[i] = InOrder(ids)[k] => i = k
      BY <3>1, InOrderType
    <3> QED
      BY <3>3, <3>4 DEF Injection, IsInjective
  <2>4. Cardinality(1 .. n) <= Cardinality(small)
    BY <2>2, <2>3, FS_Injection
  <2>5. Cardinality(1 .. n) = n
    <3>1. (IF 1 > n THEN 0 ELSE n - 1 + 1) = n
      OBVIOUS
    <3> QED
      BY <3>1, FS_Interval
  <2> QED
    BY <2>2, <2>4, <2>5
<1>4. Cardinality(small) \in Nat /\ small \subseteq ids
  BY <1>1, FS_Subset, FS_CardinalityType
<1>5. ASSUME Cardinality(small) < n PROVE small = ids
  <2>1. ids \ small = {}
    BY <1>3, <1>4, <1>5
  <2> QED
    BY <1>4, <2>1
<1> QED
  BY <1>2, <1>4, <1>5 DEF small

-------------------------------------------------------------------------------
(* Slots.                                                                    *)

IsSlot(h) == \E k \in 1 .. Len(Slots) : Slots[k] = h % HoursPerDay

\* The next slot is the first one after the hour.
LEMMA NextSlotIsFirst ==
  ASSUME NEW h \in Nat
  PROVE  /\ NextSlot(h) \in Nat /\ h < NextSlot(h) /\ IsSlot(NextSlot(h))
         /\ \A g \in h + 1 .. NextSlot(h) - 1 : ~IsSlot(g)
<1> PICK w, n : w = HoursPerDay /\ n = Len(Slots)
  OBVIOUS
<1> PICK q, r : q = h \div w /\ r = h % w
  OBVIOUS
<1>0. w \in Nat \ {0} /\ n \in Nat \ {0} /\ \A k \in 1 .. n : Slots[k] \in 0 .. w - 1
  BY SlotsAssumption
<1>1. q \in Nat /\ r \in 0 .. w - 1 /\ h = q * w + r
  BY <1>0, DivisionType
<1> DEFINE left == {i \in 1 .. n : Slots[i] > r}
\* A slot of the day d.
<1>2. ASSUME NEW d \in Nat, NEW k \in 1 .. n
      PROVE  d * w + Slots[k] \in Nat /\ IsSlot(d * w + Slots[k])
  <2>1. Slots[k] \in 0 .. w - 1 /\ d * w \in Nat
    BY <1>0
  <2>2. (d * w + Slots[k]) % w = Slots[k]
    BY <1>0, <2>1, Division
  <2>3. d * w + Slots[k] \in Nat
    BY <1>0, <2>1
  <2> QED
    BY <2>2, <2>3 DEF IsSlot
\* An hour which is a slot, as a day and a slot.
<1>3. ASSUME NEW g \in Nat, IsSlot(g)
      PROVE  \E d \in Nat, k \in 1 .. n : g = d * w + Slots[k]
  <2>1. g \div w \in Nat /\ g = (g \div w) * w + (g % w)
    BY <1>0, DivisionType
  <2>2. PICK k \in 1 .. n : Slots[k] = g % w
    BY <1>3 DEF IsSlot
  <2> QED
    BY <2>1, <2>2
\* Days follow each other.
<1>4. ASSUME NEW d \in Nat, NEW e \in Nat, d < e PROVE d * w + w <= e * w
  <2>1. (d + 1) * w <= e * w
    BY <1>0, <1>4, TimesGrows
  <2>2. (d + 1) * w = d * w + w
    BY <1>0
  <2> QED
    BY <2>1, <2>2
<1>5. CASE left = {}
  <2>1. NextSlot(h) = (q + 1) * w + Slots[1]
    BY <1>5 DEF NextSlot
  <2>2. (q + 1) * w = q * w + w /\ q * w \in Nat
    BY <1>0, <1>1
  <2>3. 1 \in 1 .. n /\ q + 1 \in Nat
    BY <1>0, <1>1
  <2>4. h < NextSlot(h)
    BY <1>0, <1>1, <2>1, <2>2, <2>3
  <2>5. ASSUME NEW g \in h + 1 .. NextSlot(h) - 1, IsSlot(g) PROVE FALSE
    <3>1. g \in Nat /\ g > h /\ g < NextSlot(h)
      <4>1. NextSlot(h) \in Nat
        BY <1>2, <2>1, <2>3
      <4> QED
        BY <4>1
    <3>2. PICK d \in Nat, k \in 1 .. n : g = d * w + Slots[k]
      BY <1>3, <2>5, <3>1
    <3>3. Slots[k] <= r /\ Slots[k] \in 0 .. w - 1 /\ Slots[1] <= Slots[k]
      BY <1>0, <1>1, <1>5, <2>3, SlotsAssumption
    <3>4. CASE d < q
      <4>1. d * w + w <= q * w
        BY <1>1, <1>4, <3>4
      <4>2. d * w \in Nat
        BY <1>0
      <4> QED
        BY <1>0, <1>1, <2>2, <3>1, <3>2, <3>3, <4>1, <4>2
    <3>5. CASE d = q
      BY <1>0, <1>1, <2>2, <3>1, <3>2, <3>3, <3>5
    <3>6. CASE d > q
      <4>1. q * w + w <= d * w
        BY <1>1, <1>4, <3>6
      <4>2. d * w \in Nat
        BY <1>0
      <4> QED
        BY <1>0, <1>1, <2>1, <2>2, <2>3, <3>1, <3>2, <3>3, <4>1, <4>2
    <3> QED
      BY <1>1, <3>4, <3>5, <3>6
  <2> QED
    BY <1>2, <2>1, <2>3, <2>4, <2>5
<1>6. CASE left # {}
  <2>1. PICK i \in left : \A j \in left : i <= j
    <3>1. IsFiniteSet(left) /\ left \subseteq Int
      <4>1. left \in SUBSET (1 .. n) /\ IsFiniteSet(1 .. n)
        BY <1>0, FS_Interval
      <4> QED
        BY <4>1, FS_Subset
    <3>2. PICK i \in left : Rank(i, left) = 0
      <4>1. Cardinality(left) \in Nat /\ Cardinality(left) # 0
        BY <1>6, <3>1, FS_CardinalityType, FS_EmptySet
      <4>2. 0 \in 0 .. Cardinality(left) - 1
        BY <4>1
      <4> QED
        BY <3>1, <4>2, RankTaken
    <3>3. Below(i, left) = {}
      <4>1. Below(i, left) \in SUBSET left
        BY DEF Below
      <4> QED
        BY <3>1, <3>2, <4>1, FS_Subset, FS_EmptySet DEF Rank
    <3> QED
      BY <3>1, <3>3 DEF Below
  <2>2. (CHOOSE j \in left : \A k \in left : j <= k) = i
    <3>1. \A j \in left : (\A k \in left : j <= k) => j = i
      BY <2>1
    <3> QED
      BY <2>1, <3>1
  <2>3. NextSlot(h) = q * w + Slots[i]
    BY <1>6, <2>2 DEF NextSlot
  <2>4. q * w \in Nat /\ i \in 1 .. n /\ Slots[i] > r
    BY <1>0, <1>1
  <2>5. h < NextSlot(h)
    BY <1>0, <1>1, <2>3, <2>4
  <2>6. ASSUME NEW g \in h + 1 .. NextSlot(h) - 1, IsSlot(g) PROVE FALSE
    <3>1. g \in Nat /\ g > h /\ g < NextSlot(h)
      BY <1>0, <1>1, <2>3, <2>4, <2>5
    <3>2. PICK d \in Nat, k \in 1 .. n : g = d * w + Slots[k]
      BY <1>3, <2>6, <3>1
    <3>3. Slots[k] \in 0 .. w - 1 /\ Slots[i] \in 0 .. w - 1 /\ d * w \in Nat
      BY <1>0, <2>4
    <3>4. CASE d < q
      <4>1. d * w + w <= q * w
        BY <1>1, <1>4, <3>4
      <4> QED
        BY <1>0, <1>1, <2>4, <3>1, <3>2, <3>3, <4>1
    <3>5. CASE d = q
      <4>1. Slots[k] > r /\ Slots[k] < Slots[i]
        BY <1>0, <1>1, <2>3, <2>4, <3>1, <3>2, <3>3, <3>5, SMTT(20)
      <4>2. k \in left /\ i <= k
        BY <2>1, <4>1
      <4>3. i = k \/ Slots[i] < Slots[k]
        BY <1>0, <2>4, <4>2, SlotsAssumption
      <4> QED
        BY <3>3, <4>1, <4>3
    <3>6. CASE d > q
      <4>1. q * w + w <= d * w
        BY <1>1, <1>4, <3>6
      <4> QED
        BY <1>0, <1>1, <2>3, <2>4, <3>1, <3>2, <3>3, <4>1
    <3> QED
      BY <1>1, <3>4, <3>5, <3>6
  <2> QED
    BY <1>1, <1>2, <2>3, <2>4, <2>5, <2>6
<1> QED
  BY <1>5, <1>6

-------------------------------------------------------------------------------
(* Types.                                                                    *)

Messages == [text : [minus : BOOLEAN, digits : Nat], id : 1 .. MaxId, pass : Nat]

UsersType ==
  /\ DOMAIN users \subseteq 1 .. MaxId /\ users \in [DOMAIN users -> Chats]
  /\ doneDay \in [1 .. MaxId -> Nat]

SchedulerType ==
  /\ pc \in {"plan", "sleep", "page", "write", "tick"} /\ wake \in Nat /\ planned \in Nat
  /\ lastID \in -(MaxInt32 + 1) .. MaxInt32
  /\ page \subseteq DOMAIN users /\ (pc = "write" => page # {})
  /\ pass \in Nat /\ owed \subseteq DOMAIN users /\ complete \in BOOLEAN

LogType == log \in Seq(Messages) /\ Len(log) <= MaxRecords

GatewayType ==
  /\ position \in 0 .. Len(log) /\ committed \in 0 .. position
  /\ batch \in 0 .. BatchSize /\ batch <= position /\ (next = 0 => batch < BatchSize)
  /\ next \in {0} \cup (position - batch + 1) .. position + 1
  /\ tries \in [1 .. MaxRecords -> Nat]

FaultsType == faults \in [copies : Nat, restarts : Nat, others : Nat]

TypeInv ==
  hour \in Nat /\ UsersType /\ SchedulerType /\ LogType /\ GatewayType /\ FaultsType

LEMMA ZeroInRange == 0 \in -(MaxInt32 + 1) .. MaxInt32
OBVIOUS

\* A fault counts one of its kind and no other.
LEMMA FaultCounted ==
  ASSUME FaultsType, NEW kind \in {"copies", "restarts", "others"}, Fault(kind)
  PROVE  /\ FaultsType' /\ faults'[kind] = faults[kind] + 1
         /\ \A k \in {"copies", "restarts", "others"} \ {kind} : faults'[k] = faults[k]
BY DEF FaultsType, Fault

\* The ids are finitely many numbers.
LEMMA IdsFinite ==
  ASSUME UsersType, NEW ids \in SUBSET DOMAIN users
  PROVE  IsFiniteSet(ids) /\ ids \subseteq Int /\ Cardinality(ids) \in Nat
<1>1. IsFiniteSet(1 .. MaxId) /\ ids \in SUBSET (1 .. MaxId)
  <2>1. 1 \in Int /\ MaxId \in Int
    OBVIOUS
  <2>2. IsFiniteSet(1 .. MaxId)
    BY <2>1, FS_Interval
  <2> QED
    BY <2>2 DEF UsersType
<1> QED
  BY <1>1, FS_Subset, FS_CardinalityType

\* The records of a page: each user's own chat, once.
LEMMA RecordsType ==
  ASSUME TypeInv, pc = "write"
  PROVE  /\ Records \in Seq(Messages) /\ Len(Records) = Cardinality(page)
         /\ \A k \in 1 .. Len(Records) :
              /\ Records[k].id \in page /\ Records[k].pass = pass
              /\ Records[k].text = Itoa(users[Records[k].id])
         /\ \A i, k \in 1 .. Len(Records) : Records[i].id = Records[k].id => i = k
         /\ \A id \in page : \E k \in 1 .. Len(Records) : Records[k].id = id
<1> PICK n : n = Cardinality(page)
  OBVIOUS
<1>1. n \in Nat /\ IsFiniteSet(page) /\ page \subseteq Int
  BY IdsFinite DEF TypeInv, SchedulerType
<1>2. ASSUME NEW k \in 1 .. n
      PROVE  /\ Records[k] \in Messages
             /\ Records[k].id = InOrder(page)[k] /\ InOrder(page)[k] \in page
             /\ Records[k].pass = pass /\ Records[k].text = Itoa(users[InOrder(page)[k]])
  <2>1. PICK id : id = InOrder(page)[k]
    OBVIOUS
  <2>2. id \in page
    <3>1. InOrder(page) \in [1 .. n -> page]
      BY <1>1, InOrderType
    <3> QED
      BY <2>1, <3>1
  <2>3. Records[k] = [text |-> Itoa(users[id]), id |-> id, pass |-> pass]
    BY <2>1 DEF Records
  <2>4. users[id] \in Int /\ id \in 1 .. MaxId /\ pass \in Nat
    BY <2>2, TablesAssumption DEF TypeInv, UsersType, SchedulerType
  <2>5. Itoa(users[id]) \in [minus : BOOLEAN, digits : Nat]
    BY <2>4 DEF Itoa
  <2> QED
    BY <2>1, <2>2, <2>3, <2>4, <2>5 DEF Messages
<1>3. Records \in [1 .. n -> Messages]
  BY <1>2 DEF Records
<1>4. Records \in Seq(Messages) /\ Len(Records) = n
  BY <1>1, <1>3
<1>5. /\ \A i, k \in 1 .. n : InOrder(page)[i] = InOrder(page)[k] => i = k
      /\ \A id \in page : \E k \in 1 .. n : InOrder(page)[k] = id
  BY <1>1, InOrderType
<1> QED
  BY <1>2, <1>4, <1>5

\* What a page adds to the topic.
LEMMA StoreType ==
  ASSUME TypeInv, pc = "write", Store
  PROVE  /\ LogType' /\ Len(log') = Len(log) + Cardinality(page)
         /\ \A i \in 1 .. Len(log) : log'[i] = log[i]
         /\ \A k \in 1 .. Cardinality(page) : log'[Len(log) + k] = Records[k]
<1>1. /\ Records \in Seq(Messages) /\ Len(Records) = Cardinality(page)
      /\ log \in Seq(Messages) /\ log' = log \o Records
      /\ Len(log) + Cardinality(page) <= MaxRecords
  BY RecordsType DEF Store, Room, TypeInv, LogType
<1>2. PICK t : t = Records
  OBVIOUS
<1>3. /\ log \o t \in Seq(Messages) /\ Len(log \o t) = Len(log) + Len(t)
      /\ \A i \in 1 .. Len(log) : (log \o t)[i] = log[i]
      /\ \A k \in 1 .. Len(t) : (log \o t)[Len(log) + k] = t[k]
  BY <1>1, <1>2, ConcatProperties
<1> QED
  BY <1>1, <1>2, <1>3 DEF LogType

\* The cursor is the last chat id of the page, cut to an int32.
LEMMA CursorType ==
  ASSUME TypeInv, pc = "write"
  PROVE  /\ Cursor \in -(MaxInt32 + 1) .. MaxInt32
         /\ \E id \in page : Cursor = Int32(users[id]) /\ \A other \in page : other <= id
<1> PICK n, s : n = Cardinality(page) /\ s = InOrder(page)
  OBVIOUS
<1>1. n \in Nat /\ n # 0 /\ IsFiniteSet(page) /\ page \subseteq Int
  <2>1. n \in Nat /\ IsFiniteSet(page) /\ page \subseteq Int /\ page # {}
    BY IdsFinite DEF TypeInv, SchedulerType
  <2> QED
    BY <2>1, FS_EmptySet
<1>2. s \in [1 .. n -> page] /\ Len(s) = n /\ n \in 1 .. n
  <2>1. s \in [1 .. n -> page]
    BY <1>1, InOrderType
  <2>2. s \in Seq(page)
    BY <1>1, <2>1
  <2> QED
    BY <1>1, <2>1, <2>2
<1>3. PICK id : id = s[n] /\ id \in page
  BY <1>2
<1>4. \A other \in page : other <= id
  BY <1>1, <1>3, InOrderType
<1>5. Cursor = Int32(users[id])
  BY <1>2, <1>3 DEF Cursor
<1>6. users[id] \in Int
  BY <1>3, TablesAssumption DEF TypeInv, UsersType, SchedulerType
<1> QED
  BY <1>3, <1>4, <1>5, <1>6, Int32Type

-------------------------------------------------------------------------------
(* Types after every step.                                                   *)

LEMMA EnvironmentType == ASSUME TypeInv, Environment PROVE TypeInv'
<1>1. ASSUME Tick PROVE TypeInv'
  <2>1. hour' = hour + 1 /\ UNCHANGED <<usersVars, schedulerVars, gatewayVars, log, owed, faults>>
    BY <1>1 DEF Tick
  <2>2. hour' \in Nat
    BY <2>1 DEF TypeInv
  <2>3. UsersType' /\ SchedulerType'
    BY <2>1 DEF TypeInv, UsersType, SchedulerType, usersVars, schedulerVars
  <2>4. LogType' /\ GatewayType' /\ FaultsType'
    BY <2>1 DEF TypeInv, LogType, GatewayType, FaultsType, gatewayVars
  <2> QED
    BY <2>2, <2>3, <2>4 DEF TypeInv
<1>2. ASSUME NEW chat \in NewChats, Register(chat) PROVE TypeInv'
  <2>1. PICK id \in 1 .. MaxId :
          users' = [i \in DOMAIN users \cup {id} |-> IF i = id THEN chat ELSE users[i]]
    BY <1>2 DEF Register
  <2>2. UNCHANGED <<hour, doneDay, schedulerVars, log, gatewayVars, owed, faults>>
    BY <1>2 DEF Register, clockVars
  <2>3. DOMAIN users' = DOMAIN users \cup {id} /\ chat \in Chats
    BY <2>1, TablesAssumption
  <2>4. UsersType'
    BY <2>1, <2>2, <2>3 DEF TypeInv, UsersType
  <2>5. SchedulerType'
    BY <2>2, <2>3 DEF TypeInv, SchedulerType, schedulerVars
  <2> QED
    BY <2>2, <2>4, <2>5 DEF TypeInv, LogType, GatewayType, FaultsType, gatewayVars
<1>3. ASSUME NEW id \in DOMAIN users, Answer(id) PROVE TypeInv'
  <2>1. /\ doneDay' = [doneDay EXCEPT ![id] = Day] /\ owed' = owed \ {id}
        /\ UNCHANGED <<hour, users, schedulerVars, log, gatewayVars, faults>>
    BY <1>3 DEF Answer, clockVars
  <2>2. Day \in Nat
    BY DivisionType DEF Day, TypeInv
  <2>3. UsersType'
    BY <2>1, <2>2 DEF TypeInv, UsersType
  <2>4. SchedulerType'
    BY <2>1 DEF TypeInv, SchedulerType, schedulerVars
  <2> QED
    BY <2>1, <2>3, <2>4 DEF TypeInv, LogType, GatewayType, FaultsType, gatewayVars
<1> QED
  BY <1>1, <1>2, <1>3 DEF Environment

\* A step of the scheduler leaves the gateway alone, and the topic only grows.
LEMMA SchedulerTyped ==
  ASSUME TypeInv, UNCHANGED <<hour, usersVars, gatewayVars>>, SchedulerType',
         UNCHANGED log \/ (pc = "write" /\ Store), FaultsType'
  PROVE  TypeInv'
<1>1. LogType' /\ Len(log') \in Nat /\ Len(log') >= Len(log)
  <2>1. CASE UNCHANGED log
    BY <2>1 DEF TypeInv, LogType
  <2>2. CASE pc = "write" /\ Store
    <3>1. Cardinality(page) \in Nat
      BY IdsFinite DEF TypeInv, SchedulerType
    <3>2. Len(log) \in Nat /\ Len(log') = Len(log) + Cardinality(page) /\ LogType'
      BY <2>2, StoreType DEF TypeInv, LogType
    <3> QED
      BY <3>1, <3>2
  <2> QED
    BY <2>1, <2>2
<1>2. GatewayType'
  BY <1>1 DEF TypeInv, LogType, GatewayType, gatewayVars
<1> QED
  BY <1>1, <1>2 DEF TypeInv, UsersType, usersVars

\* Returning from notify leaves the scheduler with its types.
LEMMA ReturnType ==
  ASSUME TypeInv, Return, UNCHANGED <<users, wake, planned, pass, owed>>, complete' \in BOOLEAN
  PROVE  SchedulerType'
BY DEF Return, TypeInv, SchedulerType

\* Due users are users.
LEMMA PageType ==
  ASSUME TypeInv
  PROVE  /\ DueUsers \subseteq DOMAIN users
         /\ \A id : {u \in DueUsers : u > id} \in SUBSET DOMAIN users
         /\ GetUsersByID(lastID) \subseteq {u \in DueUsers : u > lastID}
<1>1. DueUsers \subseteq DOMAIN users
  BY DEF DueUsers
<1>2. {u \in DueUsers : u > lastID} \in SUBSET DOMAIN users
  BY <1>1
<1>3. GetUsersByID(lastID) \subseteq {u \in DueUsers : u > lastID}
  BY DEF GetUsersByID, Smallest
<1> QED
  BY <1>1, <1>3

LEMMA ScheduleType == ASSUME TypeInv, Schedule PROVE TypeInv'
<1>0. SchedulerType
  BY DEF TypeInv
<1>1. ASSUME Plan PROVE TypeInv'
  <2>1. NextSlot(hour) \in Nat /\ hour \in Nat
    BY NextSlotIsFirst DEF TypeInv
  <2>2. SchedulerType'
    BY <1>0, <1>1, <2>1 DEF Plan, SchedulerType, usersVars
  <2> QED
    BY <1>1, <2>2, SchedulerTyped DEF Plan, TypeInv, FaultsType, clockVars
<1>2. ASSUME Wake PROVE TypeInv'
  <2>1. SchedulerType'
    <3>1. DueUsers \subseteq DOMAIN users
      BY PageType
    <3>2. pass + 1 \in Nat
      BY <1>0 DEF SchedulerType
    <3> QED
      BY <1>0, <1>2, <3>1, <3>2, ZeroInRange DEF Wake, SchedulerType, usersVars
  <2> QED
    BY <1>2, <2>1, SchedulerTyped DEF Wake, TypeInv, FaultsType, clockVars
<1>3. ASSUME ReadPage PROVE TypeInv'
  <2>1. page' \subseteq DOMAIN users
    BY <1>3, PageType DEF ReadPage
  <2>2. SchedulerType'
    BY <1>0, <1>3, <2>1 DEF ReadPage, SchedulerType, usersVars
  <2> QED
    BY <1>3, <2>2, SchedulerTyped DEF ReadPage, TypeInv, FaultsType, clockVars
<1>4. ASSUME WritePage PROVE TypeInv'
  <2>1. /\ pc = "write" /\ Store /\ UNCHANGED <<hour, usersVars, gatewayVars, faults>>
        /\ UNCHANGED <<wake, planned, pass, owed>>
    BY <1>4 DEF WritePage, clockVars
  <2>2. SchedulerType'
    <3>1. CASE Return /\ complete' = TRUE
      BY <2>1, <3>1, ReturnType DEF usersVars
    <3>2. CASE pc' = "tick" /\ lastID' = Cursor /\ page' = {} /\ UNCHANGED complete
      <4>1. Cursor \in -(MaxInt32 + 1) .. MaxInt32
        BY <2>1, CursorType
      <4> QED
        BY <1>0, <2>1, <3>2, <4>1 DEF SchedulerType, usersVars
    <3> QED
      BY <1>4, <3>1, <3>2 DEF WritePage
  <2> QED
    BY <2>1, <2>2, SchedulerTyped DEF TypeInv, FaultsType
<1>5. ASSUME NextPage PROVE TypeInv'
  <2>1. SchedulerType'
    BY <1>0, <1>5 DEF NextPage, SchedulerType, usersVars
  <2> QED
    BY <1>5, <2>1, SchedulerTyped DEF NextPage, TypeInv, FaultsType, clockVars
<1> QED
  BY <1>1, <1>2, <1>3, <1>4, <1>5 DEF Schedule

LEMMA SchedulerFailureType ==
  ASSUME TypeInv,
         ReadPageFails \/ WritePageUnacknowledged \/ WritePageFails \/ RestartScheduler
  PROVE  TypeInv'
<1>1. /\ UNCHANGED <<hour, usersVars, gatewayVars, owed>>
      /\ UNCHANGED log \/ (pc = "write" /\ Store)
  BY DEF ReadPageFails, WritePageUnacknowledged, WritePageFails, RestartScheduler, clockVars
<1>2. FaultsType'
  BY FaultCounted DEF ReadPageFails, WritePageUnacknowledged, WritePageFails,
     RestartScheduler, TypeInv
<1>3. SchedulerType'
  <2>1. CASE WritePageUnacknowledged
    BY <2>1 DEF WritePageUnacknowledged, TypeInv, SchedulerType, usersVars, schedulerVars
  <2>2. CASE ReadPageFails \/ WritePageFails \/ RestartScheduler
    <3>1. complete \in BOOLEAN
      BY DEF TypeInv, SchedulerType
    <3>2. /\ Return /\ UNCHANGED <<users, wake, planned, pass, owed>>
          /\ complete' \in BOOLEAN
      BY <1>1, <2>2, <3>1 DEF ReadPageFails, WritePageFails, RestartScheduler, usersVars
    <3> QED
      BY <3>2, ReturnType
  <2> QED
    BY <2>1, <2>2
<1> QED
  BY <1>1, <1>2, <1>3, SchedulerTyped

\* A step of the gateway leaves all else alone.
LEMMA GatewayTyped ==
  ASSUME TypeInv, GatewayType', FaultsType',
         UNCHANGED <<clockVars, usersVars, schedulerVars, log, owed>>
  PROVE  TypeInv'
BY DEF TypeInv, UsersType, SchedulerType, LogType, clockVars, usersVars, schedulerVars

LEMMA DispatchType ==
  ASSUME TypeInv, Dispatch \/ CommitFails \/ RestartGateway
  PROVE  TypeInv'
<1>0. GatewayType /\ FaultsType /\ Len(log) \in Nat /\ Len(log) <= MaxRecords
  BY DEF TypeInv, LogType
<1>1. UNCHANGED <<clockVars, usersVars, schedulerVars, log, owed>>
  BY DEF Dispatch, Fetch, FetchTimesOut, Send, Commit, CommitFails, RestartGateway
<1>2. FaultsType'
  BY <1>0, FaultCounted DEF Dispatch, Fetch, FetchTimesOut, Send, Commit, CommitFails,
     RestartGateway, FaultsType
<1>3. CASE Fetch
  <2>1. GatewayType'
    BY <1>0, <1>3 DEF Fetch, GatewayType
  <2> QED
    BY <1>1, <1>2, <2>1, GatewayTyped
<1>4. CASE FetchTimesOut
  <2>1. GatewayType'
    BY <1>0, <1>4 DEF FetchTimesOut, GatewayType
  <2> QED
    BY <1>1, <1>2, <2>1, GatewayTyped
<1>5. CASE Send
  <2>1. GatewayType'
    BY <1>0, <1>5 DEF Send, GatewayType
  <2> QED
    BY <1>1, <1>2, <2>1, GatewayTyped
<1>6. CASE Commit \/ CommitFails
  <2>1. GatewayType'
    BY <1>0, <1>6 DEF Commit, CommitFails, GatewayType
  <2> QED
    BY <1>1, <1>2, <2>1, GatewayTyped
<1>7. CASE RestartGateway
  <2>1. GatewayType'
    BY <1>0, <1>7 DEF RestartGateway, StartOffset, GatewayType
  <2> QED
    BY <1>1, <1>2, <2>1, GatewayTyped
<1> QED
  BY <1>3, <1>4, <1>5, <1>6, <1>7 DEF Dispatch

LEMMA InitType == Init => TypeInv
<1> SUFFICES ASSUME Init PROVE TypeInv
  OBVIOUS
<1>1. UsersType
  <2>1. PICK ids \in SUBSET (1 .. MaxId) : users \in [ids -> Chats]
    BY TablesAssumption DEF Init
  <2> QED
    BY <2>1 DEF Init, UsersType
<1>2. SchedulerType
  BY ZeroInRange DEF Init, SchedulerType
<1>3. LogType /\ GatewayType
  BY DEF Init, LogType, GatewayType
<1> QED
  BY <1>1, <1>2, <1>3 DEF Init, TypeInv, FaultsType

LEMMA NextType == ASSUME TypeInv, [Next]_vars PROVE TypeInv'
<1>1. CASE UNCHANGED vars
  BY <1>1 DEF vars, clockVars, usersVars, schedulerVars, gatewayVars, TypeInv, UsersType,
     SchedulerType, LogType, GatewayType, FaultsType
<1> QED
  BY <1>1, EnvironmentType, ScheduleType, SchedulerFailureType, DispatchType
  DEF Next, Failure

\* The state has its types: the offsets of the group and of its reader, the batch in hand and
\* the position sent next stay in order, for every size of a batch, and the cursor is an int32
\* whatever chat id it was made from.
THEOREM TypeCorrect == Spec => []TypeOK
<1>1. TypeInv => TypeOK
  <2> SUFFICES ASSUME TypeInv PROVE TypeOK
    OBVIOUS
  <2>1. \A id \in DOMAIN users : users[id] \in Chats
    BY DEF TypeInv, UsersType
  <2> QED
    BY <2>1 DEF TypeInv, TypeOK, UsersType, SchedulerType, LogType, GatewayType
<1> QED
  BY <1>1, InitType, NextType, PTL DEF Spec

-------------------------------------------------------------------------------
(* The slots.                                                                *)

SlotInv == pc = "sleep" => wake = NextSlot(planned)

LEMMA SlotStep == ASSUME SlotInv, [Next]_vars PROVE SlotInv'
<1>1. CASE Plan
  BY <1>1 DEF Plan, SlotInv, NextSlot
<1>2. CASE UNCHANGED <<pc, wake, planned>>
  BY <1>2 DEF SlotInv, NextSlot
<1>3. CASE pc' # "sleep"
  BY <1>3 DEF SlotInv
<1>4. ASSUME Schedule PROVE Plan \/ pc' # "sleep"
  BY <1>4 DEF Schedule, Wake, ReadPage, WritePage, Return, NextPage
<1>5. ASSUME Failure PROVE UNCHANGED <<pc, wake, planned>> \/ pc' # "sleep"
  BY <1>5 DEF Failure, ReadPageFails, WritePageUnacknowledged, WritePageFails,
     RestartScheduler, CommitFails, RestartGateway, Return, schedulerVars
<1>6. ASSUME Environment \/ Dispatch \/ UNCHANGED vars PROVE UNCHANGED <<pc, wake, planned>>
  BY <1>6 DEF Environment, Tick, Register, Answer, Dispatch, Fetch, FetchTimesOut, Send,
     Commit, vars, schedulerVars
<1> QED
  BY <1>1, <1>2, <1>3, <1>4, <1>5, <1>6 DEF Next

\* The scheduler sleeps exactly to the first slot after the hour in which it lay down
\* (getNextSlotTime), for every list of slots in ascending order and every hour.
THEOREM NextSlotAlways == Spec => []SleepsToTheNextSlot
<1>1. Init => SlotInv
  BY DEF Init, SlotInv
<1>2. TypeInv /\ SlotInv => SleepsToTheNextSlot
  <2> SUFFICES ASSUME TypeInv, SlotInv, pc = "sleep" PROVE SleepsToTheNextSlot
    BY DEF SleepsToTheNextSlot
  <2>1. planned \in Nat /\ wake = NextSlot(planned)
    BY DEF TypeInv, SchedulerType, SlotInv
  <2>2. IsSlot(wake) /\ planned < wake /\ \A h \in planned + 1 .. wake - 1 : ~IsSlot(h)
    BY <2>1, NextSlotIsFirst
  <2> QED
    BY <2>2 DEF SleepsToTheNextSlot, IsSlot
<1> QED
  BY <1>1, <1>2, SlotStep, InitType, NextType, PTL DEF Spec

-------------------------------------------------------------------------------
(* What the gateway has sent.                                                *)

\* The first position of the round that has not been handed to Telegram.
Front == IF next = 0 THEN position - batch + 1 ELSE next

SentInv ==
  /\ committed < Front
  /\ \A i \in 1 .. Front - 1 : tries[i] > 0
  /\ \A i \in 1 .. MaxRecords :
       tries[i] <= faults.restarts + 1 /\ (i >= Front => tries[i] <= faults.restarts)

\* The front lies in the topic or right after it.
LEMMA FrontType ==
  ASSUME TypeInv
  PROVE  /\ Front \in 1 .. Len(log) + 1 /\ Front <= position + 1 /\ batch <= position
         /\ Len(log) \in 0 .. MaxRecords /\ committed \in Nat /\ position \in Nat /\ batch \in Nat
         /\ faults.restarts \in Nat /\ tries \in [1 .. MaxRecords -> Nat]
<1>1. GatewayType /\ FaultsType /\ Len(log) \in Nat /\ Len(log) <= MaxRecords
  BY DEF TypeInv, LogType
<1> QED
  BY <1>1 DEF GatewayType, FaultsType, Front

\* No step but the gateway's own touches its state or counts a restart.
LEMMA GatewayFrame ==
  ASSUME TypeInv, [Next]_vars, ~Dispatch, ~CommitFails, ~RestartGateway
  PROVE  UNCHANGED gatewayVars /\ faults'.restarts = faults.restarts
<1>1. CASE Environment \/ Schedule \/ UNCHANGED vars
  BY <1>1 DEF Environment, Tick, Register, Answer, Schedule, Plan, Wake, ReadPage, WritePage,
     NextPage, vars
<1>2. CASE ReadPageFails \/ WritePageUnacknowledged \/ WritePageFails \/ RestartScheduler
  <2>1. UNCHANGED gatewayVars /\ (Fault("others") \/ Fault("copies"))
    BY <1>2 DEF ReadPageFails, WritePageUnacknowledged, WritePageFails, RestartScheduler
  <2> QED
    BY <2>1, FaultCounted DEF TypeInv
<1> QED
  BY <1>1, <1>2 DEF Next, Failure

\* A batch keeps its front until it is sent; a restart goes back to what was committed.
LEMMA SentStep == ASSUME TypeInv, SentInv, [Next]_vars PROVE SentInv'
<1>1. CASE ~Dispatch /\ ~CommitFails /\ ~RestartGateway
  <2>1. UNCHANGED gatewayVars /\ faults'.restarts = faults.restarts
    BY <1>1, GatewayFrame
  <2> QED
    BY <2>1 DEF SentInv, Front, gatewayVars
<1>2. CASE Fetch \/ FetchTimesOut
  <2>1. UNCHANGED <<committed, tries, faults>>
    BY <1>2 DEF Fetch, FetchTimesOut
  <2>2. ASSUME Fetch PROVE Front' = Front
    <3>1. /\ next = 0 /\ position' = position + 1 /\ batch' = batch + 1
          /\ next' = position' - batch' + 1 \/ next' = 0
      BY <2>2 DEF Fetch
    <3>2. position' - batch' + 1 = position - batch + 1
      BY <3>1, FrontType
    <3> QED
      BY <3>1, <3>2 DEF Front
  <2>3. ASSUME FetchTimesOut PROVE Front' = Front
    BY <2>3, FrontType DEF FetchTimesOut, Front
  <2>4. Front' = Front
    BY <1>2, <2>2, <2>3
  <2> QED
    BY <2>1, <2>4 DEF SentInv
<1>3. CASE Send
  <2>1. /\ next \in 1 .. position /\ Front = next /\ Front' = next + 1
        /\ tries' = [tries EXCEPT ![next] = @ + 1] /\ UNCHANGED <<committed, faults>>
    BY <1>3, FrontType DEF Send, Front
  <2>2. /\ Front \in 1 .. MaxRecords
        /\ tries'[Front] = tries[Front] + 1
        /\ \A i \in 1 .. MaxRecords : i # Front => tries'[i] = tries[i]
        /\ \A i \in 1 .. MaxRecords : tries[i] \in Nat
    BY <2>1, FrontType DEF TypeInv, GatewayType
  <2>3. Front' = Front + 1
    BY <2>1
  <2>4. committed' < Front'
    BY <2>1, <2>3, FrontType DEF SentInv
  <2>5. ASSUME NEW i \in 1 .. Front' - 1 PROVE tries'[i] > 0
    <3>1. i \in 1 .. MaxRecords /\ (i = Front \/ i \in 1 .. Front - 1) /\ tries[i] \in Nat
      BY <2>2, <2>3, FrontType
    <3>2. CASE i = Front
      BY <2>2, <3>1, <3>2
    <3>3. CASE i # Front
      BY <2>2, <3>1, <3>3 DEF SentInv
    <3> QED
      BY <3>2, <3>3
  <2>6. \A i \in 1 .. MaxRecords : /\ tries'[i] <= faults'.restarts + 1
                                   /\ i >= Front' => tries'[i] <= faults'.restarts
    BY <2>1, <2>2, <2>3, FrontType DEF SentInv
  <2> QED
    BY <2>4, <2>5, <2>6 DEF SentInv
<1>4. CASE Commit \/ CommitFails
  <2>1. /\ Front = position + 1 /\ Front' = position + 1 /\ UNCHANGED tries
        /\ committed' \in {committed, position}
    BY <1>4, FrontType DEF Commit, CommitFails, Front
  <2>2. faults'.restarts = faults.restarts
    BY <1>4, FaultCounted DEF Commit, CommitFails, TypeInv
  <2> QED
    BY <2>1, <2>2, FrontType DEF SentInv
<1>5. CASE RestartGateway
  <2>1. Front' = committed + 1 /\ UNCHANGED <<committed, tries>>
    BY <1>5, FrontType DEF RestartGateway, StartOffset, Front
  <2>2. faults'.restarts = faults.restarts + 1
    BY <1>5, FaultCounted DEF RestartGateway, TypeInv
  <2>3. committed' < Front' /\ \A i \in 1 .. Front' - 1 : tries'[i] > 0
    BY <2>1, FrontType DEF SentInv
  <2>4. \A i \in 1 .. MaxRecords : tries[i] \in Nat /\ tries[i] <= faults.restarts + 1
    BY FrontType DEF SentInv
  <2>5. \A i \in 1 .. MaxRecords : /\ tries'[i] <= faults'.restarts + 1
                                   /\ i >= Front' => tries'[i] <= faults'.restarts
    <3>1. PICK r : r = faults.restarts
      OBVIOUS
    <3>2. r \in Nat /\ faults'.restarts = r + 1 /\ UNCHANGED tries
      BY <2>1, <2>2, <3>1, FrontType
    <3> QED
      BY <2>4, <3>1, <3>2
  <2> QED
    BY <2>3, <2>5 DEF SentInv
<1> QED
  BY <1>1, <1>2, <1>3, <1>4, <1>5 DEF Dispatch

\* What has been handed to Telegram is known from the position sent next.
LEMMA SentAlways == Spec => [](TypeInv /\ SentInv)
<1>1. Init => SentInv
  BY DEF Init, SentInv, Front
<1> QED
  BY <1>1, SentStep, InitType, NextType, PTL DEF Spec

-------------------------------------------------------------------------------
(* What the topic says.                                                      *)

LogInv ==
  \A i \in 1 .. Len(log) :
    /\ log[i].id \in DOMAIN users /\ log[i].text = Itoa(users[log[i].id])
    /\ log[i].pass <= pass

\* Only a page that is written changes the topic, only a waking scheduler the number of the
\* pass, and a user keeps the chat.
LEMMA TopicFrame ==
  ASSUME TypeInv, [Next]_vars
  PROVE  /\ UNCHANGED log \/ (pc = "write" /\ Store)
         /\ UNCHANGED pass \/ (Wake /\ pass' = pass + 1 /\ UNCHANGED log)
         /\ DOMAIN users \subseteq DOMAIN users' /\ \A id \in DOMAIN users : users'[id] = users[id]
<1>1. CASE Schedule \/ UNCHANGED vars
  BY <1>1 DEF Schedule, Plan, Wake, ReadPage, WritePage, NextPage, vars, usersVars,
     schedulerVars
<1>2. CASE Failure
  BY <1>2 DEF Failure, ReadPageFails, WritePageUnacknowledged, WritePageFails, RestartScheduler,
     CommitFails, RestartGateway, usersVars, schedulerVars
<1>3. CASE Dispatch
  BY <1>3 DEF Dispatch, Fetch, FetchTimesOut, Send, Commit, usersVars, schedulerVars
<1>4. CASE Tick \/ \E id \in DOMAIN users : Answer(id)
  BY <1>4 DEF Tick, Answer, usersVars, schedulerVars
<1>5. ASSUME NEW chat \in NewChats, Register(chat)
      PROVE  /\ UNCHANGED <<log, pass>>
             /\ DOMAIN users \subseteq DOMAIN users'
             /\ \A id \in DOMAIN users : users'[id] = users[id]
  <2>1. PICK new \in 1 .. MaxId :
          /\ \A other \in DOMAIN users : new > other
          /\ users' = [i \in DOMAIN users \cup {new} |-> IF i = new THEN chat ELSE users[i]]
    BY <1>5 DEF Register
  <2>2. new \notin DOMAIN users
    BY <2>1
  <2> QED
    BY <1>5, <2>1, <2>2 DEF Register, schedulerVars
<1> QED
  BY <1>1, <1>2, <1>3, <1>4, <1>5 DEF Next, Environment

\* A record keeps telling the truth, as users keep their chats.
LEMMA LogStep == ASSUME TypeInv, LogInv, [Next]_vars PROVE LogInv'
<1>1. \A id \in DOMAIN users : id \in DOMAIN users' /\ users'[id] = users[id]
  BY TopicFrame
<1>2. pass \in Nat /\ pass' \in Nat /\ pass <= pass'
  BY TopicFrame DEF TypeInv, SchedulerType
<1>3. \A i \in 1 .. Len(log) : /\ log[i].id \in DOMAIN users' /\ log[i].pass <= pass'
                              /\ log[i].text = Itoa(users'[log[i].id])
  <2> SUFFICES ASSUME NEW i \in 1 .. Len(log)
               PROVE  /\ log[i].id \in DOMAIN users' /\ log[i].pass <= pass'
                      /\ log[i].text = Itoa(users'[log[i].id])
    OBVIOUS
  <2>1. PICK m : m = log[i]
    OBVIOUS
  <2>2. m.pass \in Nat
    <3>1. log[i] \in Messages
      BY DEF TypeInv, LogType
    <3> QED
      BY <2>1, <3>1 DEF Messages
  <2>3. m.id \in DOMAIN users /\ m.text = Itoa(users[m.id]) /\ m.pass <= pass
    BY <2>1 DEF LogInv
  <2>4. m.id \in DOMAIN users' /\ users'[m.id] = users[m.id]
    BY <1>1, <2>3
  <2>5. m.pass <= pass'
    BY <1>2, <2>2, <2>3
  <2> QED
    BY <2>1, <2>3, <2>4, <2>5
<1>4. CASE UNCHANGED log
  BY <1>3, <1>4 DEF LogInv, Itoa
<1>5. CASE pc = "write" /\ Store
  <2> SUFFICES ASSUME NEW i \in 1 .. Len(log')
               PROVE  /\ log'[i].id \in DOMAIN users' /\ log'[i].text = Itoa(users'[log'[i].id])
                      /\ log'[i].pass <= pass'
    BY DEF LogInv, Itoa
  <2>1. Len(log) \in Nat /\ Cardinality(page) \in Nat /\ page \subseteq DOMAIN users
    BY IdsFinite DEF TypeInv, LogType, SchedulerType
  <2>2. CASE i <= Len(log)
    <3>1. i \in 1 .. Len(log) /\ log'[i] = log[i]
      BY <1>5, <2>1, <2>2, StoreType
    <3> QED
      BY <1>3, <3>1
  <2>3. CASE i > Len(log)
    <3>1. PICK k \in 1 .. Cardinality(page) : i = Len(log) + k
      <4>1. i - Len(log) \in 1 .. Cardinality(page) /\ i = Len(log) + (i - Len(log))
        BY <1>5, <2>1, <2>3, StoreType
      <4> QED
        BY <4>1
    <3>2. PICK m : m = Records[k]
      OBVIOUS
    <3>3. log'[i] = m
      BY <1>5, <3>1, <3>2, StoreType
    <3>4. m.id \in page /\ m.pass = pass /\ m.text = Itoa(users[m.id])
      BY <1>5, <3>2, RecordsType
    <3>5. m.id \in DOMAIN users' /\ users'[m.id] = users[m.id]
      BY <1>1, <2>1, <3>4
    <3> QED
      BY <1>2, <3>3, <3>4, <3>5
  <2> QED
    BY <2>1, <2>2, <2>3
<1> QED
  BY <1>4, <1>5, TopicFrame

LEMMA LogAlways == Spec => [](TypeInv /\ LogInv)
<1>1. Init => LogInv
  BY DEF Init, LogInv
<1> QED
  BY <1>1, LogStep, InitType, NextType, PTL DEF Spec

\* Through itoa, the topic and atoi a reminder gets to the user it was written for, or to chat 0
\* for a group, for every table of users and every chat id.
THEOREM AlwaysReachesItsUser == Spec => []ReachesItsUser
<1>1. TypeInv /\ LogInv => ReachesItsUser
  <2> SUFFICES ASSUME TypeInv, LogInv, NEW i \in 1 .. Len(log)
               PROVE  LET chat == Atoi(log[i].text)
                      IN  chat = users[log[i].id] \/ (chat = 0 /\ users[log[i].id] < 0)
    BY DEF ReachesItsUser
  <2>1. PICK n : n = users[log[i].id]
    OBVIOUS
  <2>2. n \in Int /\ log[i].text = Itoa(n)
    BY <2>1, TablesAssumption DEF LogInv, TypeInv, UsersType
  <2>3. Atoi(Itoa(n)) = n \/ (Atoi(Itoa(n)) = 0 /\ n < 0)
    BY <2>2 DEF Atoi, Itoa
  <2> QED
    BY <2>1, <2>2, <2>3
<1> QED
  BY <1>1, LogAlways, PTL

\* A record is tried for the first time at the front, where all before it have been tried,
\* and the front is what a commit or a restart goes by.
LEMMA DispatchDelivers ==
  ASSUME TypeInv, SentInv, Dispatch \/ CommitFails \/ RestartGateway
  PROVE  [Topic!DeliveryNext]_(Topic!deliveryVars)
<1> DEFINE Tried == {i \in 1 .. MaxRecords : tries[i] > 0}
<1>1. UNCHANGED log
  BY DEF Dispatch, Fetch, FetchTimesOut, Send, Commit, CommitFails, RestartGateway
<1>2. \A i \in 1 .. Front - 1 : i \in Tried
  BY FrontType DEF SentInv
<1>3. CASE Fetch \/ FetchTimesOut \/ CommitFails \/ RestartGateway
  <2>1. UNCHANGED <<log, tries, committed>>
    BY <1>1, <1>3 DEF Fetch, FetchTimesOut, CommitFails, RestartGateway
  <2> QED
    BY <2>1 DEF Topic!deliveryVars
<1>4. CASE Send
  <2>1. /\ next \in 1 .. position /\ Front = next
        /\ tries' = [tries EXCEPT ![next] = @ + 1] /\ UNCHANGED committed
    BY <1>4 DEF Send, Front
  <2>2. next \in 1 .. Len(log) /\ next \in 1 .. MaxRecords
    BY <2>1, FrontType DEF TypeInv, GatewayType
  <2>3. \A i \in 1 .. MaxRecords : tries'[i] > 0 <=> (tries[i] > 0 \/ i = next)
    BY <2>1, <2>2, FrontType
  <2>4. Tried' = Tried \cup {next}
    BY <2>2, <2>3
  <2>5. CASE next \in Tried
    BY <1>1, <2>1, <2>4, <2>5 DEF Topic!deliveryVars
  <2>6. CASE next \notin Tried
    <3>1. \A j \in 1 .. next - 1 : Topic!IsDone(j)
      BY <1>2, <2>1 DEF Topic!IsDone
    <3>2. PICK i \in 1 .. Len(log) : i = next
      BY <2>2
    <3>3. Topic!Finish(i)
      BY <1>1, <2>1, <2>4, <2>6, <3>1, <3>2 DEF Topic!Finish
    <3> QED
      BY <3>3 DEF Topic!DeliveryNext
  <2> QED
    BY <2>5, <2>6
<1>5. CASE Commit
  <2>1. next = position + 1 /\ committed' = position /\ UNCHANGED tries
    BY <1>5 DEF Commit
  <2>2. Front = position + 1 /\ position \in committed .. Len(log)
    BY <2>1, FrontType DEF TypeInv, GatewayType, Front
  <2>3. CASE position = committed
    BY <1>1, <2>1, <2>3 DEF Topic!deliveryVars
  <2>4. CASE position # committed
    <3>1. committed' \in committed + 1 .. Len(log)
      BY <2>1, <2>2, <2>4, FrontType
    <3>2. \A i \in 1 .. committed' : Topic!IsDone(i)
      BY <1>2, <2>1, <2>2, FrontType DEF Topic!IsDone
    <3> QED
      BY <1>1, <2>1, <3>1, <3>2 DEF Topic!DeliveryNext, Topic!Advance
  <2> QED
    BY <2>3, <2>4
<1> QED
  BY <1>3, <1>4, <1>5 DEF Dispatch

\* HandleNotifications, with its batches, timeouts, restarts and commits that fail, delivers
\* the topic at least once and in order.
THEOREM GatewayImplementsDelivery == Spec => ImplementsDelivery
<1>1. Init => Topic!DeliveryInit
  BY DEF Init, Topic!DeliveryInit
<1>2. TypeInv /\ SentInv /\ [Next]_vars => [Topic!DeliveryNext]_(Topic!deliveryVars)
  <2> SUFFICES ASSUME TypeInv, SentInv, [Next]_vars, ~Dispatch, ~CommitFails, ~RestartGateway
               PROVE  [Topic!DeliveryNext]_(Topic!deliveryVars)
    BY DispatchDelivers
  <2>1. UNCHANGED <<tries, committed>>
    BY GatewayFrame DEF gatewayVars
  <2>2. CASE UNCHANGED log
    BY <2>1, <2>2 DEF Topic!deliveryVars
  <2>3. CASE log' # log
    <3>1. pc = "write" /\ Store
      BY <2>3, TopicFrame
    <3>2. Cardinality(page) \in Nat \ {0} /\ page # {}
      BY <3>1, IdsFinite, FS_EmptySet DEF TypeInv, SchedulerType
    <3>3. Len(log) \in Nat /\ Len(log') = Len(log) + Cardinality(page)
      BY <3>1, StoreType DEF TypeInv, LogType
    <3>4. \A i \in 1 .. Len(log) : log'[i] = log[i]
      BY <3>1, StoreType
    <3> QED
      BY <2>1, <3>2, <3>3, <3>4 DEF Topic!DeliveryNext, Topic!Store
  <2> QED
    BY <2>2, <2>3
<1> QED
  BY <1>1, <1>2, SentAlways, PTL DEF Spec, ImplementsDelivery, Topic!DeliverySpec

-------------------------------------------------------------------------------
(* A pass.                                                                   *)

\* When the cursor over the users does no harm.
Sound == OnePage \/ CursorSound

\* More users make it no sounder.
LEMMA SoundBefore == ASSUME TypeInv, [Next]_vars, Sound' PROVE Sound
<1>1. DOMAIN users \subseteq DOMAIN users' /\ \A id \in DOMAIN users : users'[id] = users[id]
  BY TopicFrame
<1>2. ASSUME OnePage' PROVE OnePage
  <2>1. IsFiniteSet(DOMAIN users') /\ Cardinality(DOMAIN users') \in Nat
    <3>1. TypeInv'
      BY NextType
    <3>2. DOMAIN users' \subseteq 1 .. MaxId
      BY <3>1 DEF TypeInv, UsersType
    <3>3. 1 \in Int /\ MaxId \in Int
      OBVIOUS
    <3> QED
      BY <3>2, <3>3, FS_Interval, FS_Subset, FS_CardinalityType
  <2>2. /\ Cardinality(DOMAIN users) \in Nat
        /\ Cardinality(DOMAIN users) <= Cardinality(DOMAIN users')
    BY <1>1, <2>1, FS_Subset, FS_CardinalityType
  <2> QED
    BY <1>2, <2>1, <2>2 DEF OnePage
<1>3. ASSUME CursorSound' PROVE CursorSound
  BY <1>1, <1>3 DEF CursorSound, Int32
<1> QED
  BY <1>2, <1>3 DEF Sound

Written(id, p) == \E i \in 1 .. Len(log) : log[i].id = id /\ log[i].pass = p

\* What is written stays; a page that is stored is written.
LEMMA WrittenStays ==
  ASSUME TypeInv, [Next]_vars
  PROVE  /\ \A id, p : Written(id, p) => Written(id, p)'
         /\ Store /\ pc = "write" => \A id \in page : Written(id, pass)'
<1>1. CASE pc = "write" /\ Store
  <2> PICK n, m : n = Len(log) /\ m = Cardinality(page)
    OBVIOUS
  <2>1. n \in Nat /\ m \in Nat /\ Len(log') = n + m
    BY <1>1, StoreType, IdsFinite DEF TypeInv, LogType, SchedulerType
  <2>2. /\ \A i \in 1 .. n : i \in 1 .. Len(log') /\ log'[i] = log[i]
        /\ \A k \in 1 .. m : n + k \in 1 .. Len(log') /\ log'[n + k] = Records[k]
    BY <1>1, <2>1, StoreType
  <2>3. ASSUME NEW id, NEW p, Written(id, p) PROVE Written(id, p)'
    BY <2>2, <2>3 DEF Written
  <2>4. ASSUME NEW id \in page PROVE Written(id, pass)'
    <3>1. PICK k \in 1 .. m : Records[k].id = id /\ Records[k].pass = pass
      BY <1>1, RecordsType
    <3>2. UNCHANGED pass
      BY <1>1, TopicFrame DEF Wake
    <3> QED
      BY <2>2, <3>1, <3>2 DEF Written
  <2> QED
    BY <2>3, <2>4
<1>2. CASE ~(pc = "write" /\ Store)
  <2>1. UNCHANGED log
    BY <1>2, TopicFrame
  <2> QED
    BY <1>2, <2>1 DEF Written
<1> QED
  BY <1>1, <1>2

OwedInv ==
  /\ owed \subseteq DueUsers
  /\ pc \in {"page", "write", "tick"} => complete = FALSE

\* The users still owed are written already or still ahead.
PassInv ==
  Sound =>
    /\ pc \in {"page", "tick"} => \A id \in owed : Written(id, pass) \/ id > lastID
    /\ pc = "write" =>
         \A id \in owed :
           \/ Written(id, pass) \/ id \in page
           \/ Cardinality(page) >= PageSize /\ \A other \in page : other < id
    /\ pc = "plan" /\ complete => \A id \in owed : Written(id, pass)

\* Who is owed stays due: the day only grows, and an answer takes its user off.
LEMMA OwedStep == ASSUME TypeInv, OwedInv, [Next]_vars PROVE OwedInv'
<1>1. CASE Tick
  <2>1. /\ UNCHANGED <<users, doneDay, owed, pc, complete>> /\ hour' = hour + 1
    BY <1>1 DEF Tick, usersVars, schedulerVars
  <2>2. Day \in Nat /\ Day' \in Nat /\ Day <= Day'
    BY <2>1, DayGrows, DivisionType DEF Day, TypeInv
  <2>3. \A id \in DOMAIN users : doneDay[id] \in Nat
    BY DEF TypeInv, UsersType
  <2>4. DueUsers \subseteq DueUsers'
    BY <2>1, <2>2, <2>3 DEF DueUsers, IsDue
  <2> QED
    BY <2>1, <2>4 DEF OwedInv
<1>2. CASE \E chat \in NewChats : Register(chat)
  <2>1. UNCHANGED <<hour, doneDay, owed, pc, complete>>
    BY <1>2 DEF Register, schedulerVars, clockVars
  <2>2. DueUsers \subseteq DueUsers'
    BY <2>1, TopicFrame DEF DueUsers, IsDue, Day
  <2> QED
    BY <2>1, <2>2 DEF OwedInv
<1>3. CASE \E id \in DOMAIN users : Answer(id)
  <2>1. PICK id \in DOMAIN users : Answer(id)
    BY <1>3
  <2>2. /\ UNCHANGED <<hour, users, pc, complete>> /\ owed' = owed \ {id}
        /\ doneDay' = [doneDay EXCEPT ![id] = Day]
    BY <2>1 DEF Answer, schedulerVars, clockVars
  <2>3. \A other \in DueUsers \ {id} : other \in DueUsers'
    <3>1. \A other \in DOMAIN users : other # id => doneDay'[other] = doneDay[other]
      BY <2>2 DEF TypeInv, UsersType
    <3> QED
      BY <2>2, <3>1 DEF DueUsers, IsDue, Day
  <2> QED
    BY <2>2, <2>3 DEF OwedInv
<1>4. CASE Schedule
  <2>1. DueUsers' = DueUsers
    BY <1>4 DEF Schedule, Plan, Wake, ReadPage, WritePage, NextPage, DueUsers, IsDue, Day,
       clockVars, usersVars
  <2>2. owed' = owed \/ owed' = DueUsers
    BY <1>4 DEF Schedule, Plan, Wake, ReadPage, WritePage, NextPage
  <2>3. ASSUME pc' \in {"page", "write", "tick"} PROVE complete' = FALSE
    BY <1>4, <2>3 DEF Schedule, Plan, Wake, ReadPage, WritePage, NextPage, Return, OwedInv
  <2> QED
    BY <2>1, <2>2, <2>3 DEF OwedInv
<1>5. CASE Failure \/ Dispatch \/ UNCHANGED vars
  <2>1. UNCHANGED <<hour, usersVars, owed>>
    BY <1>5 DEF Failure, ReadPageFails, WritePageUnacknowledged, WritePageFails,
       RestartScheduler, CommitFails, RestartGateway, Dispatch, Fetch, FetchTimesOut, Send,
       Commit, vars, clockVars
  <2>2. DueUsers' = DueUsers
    BY <2>1 DEF DueUsers, IsDue, Day, usersVars
  <2>3. pc' = "plan" \/ UNCHANGED <<pc, complete>>
    BY <1>5 DEF Failure, ReadPageFails, WritePageUnacknowledged, WritePageFails,
       RestartScheduler, CommitFails, RestartGateway, Dispatch, Fetch, FetchTimesOut, Send,
       Commit, vars, schedulerVars, Return
  <2> QED
    BY <2>1, <2>2, <2>3 DEF OwedInv
<1> QED
  BY <1>1, <1>2, <1>3, <1>4, <1>5 DEF Next, Environment

\* The page read holds every due user after the cursor up to its last.
LEMMA PageRead ==
  ASSUME TypeInv
  PROVE  LET after == {u \in DueUsers : u > lastID}
             small == GetUsersByID(lastID)
         IN  /\ small \subseteq after
             /\ \A id \in after : \/ id \in small
                                  \/ /\ Cardinality(small) >= PageSize
                                     /\ \A other \in small : other < id
<1> PICK after : after = {u \in DueUsers : u > lastID}
  OBVIOUS
<1> PICK small : small = Smallest(PageSize, after)
  OBVIOUS
<1>1. after \in SUBSET DOMAIN users /\ IsFiniteSet(after) /\ after \subseteq Int
  BY PageType, IdsFinite DEF TypeInv
<1>2. /\ small \subseteq after /\ \A a \in small, b \in after \ small : a < b
      /\ Cardinality(small) < PageSize => small = after
  BY <1>1, SmallestType
<1>3. Cardinality(small) \in Nat
  BY <1>1, <1>2, FS_Subset, FS_CardinalityType
<1> QED
  BY <1>2, <1>3 DEF GetUsersByID

\* The cursor lies before every user that follows the page, and not before the page.
LEMMA CursorOrder ==
  ASSUME TypeInv, pc = "write", Sound, Cardinality(page) >= PageSize
  PROVE  /\ \A id \in page : id <= Cursor
         /\ \A id \in DOMAIN users : (\A other \in page : other < id) => id > Cursor
<1>1. page \subseteq DOMAIN users /\ DOMAIN users \subseteq 1 .. MaxId
  BY DEF TypeInv, SchedulerType, UsersType
<1>2. ~OnePage
  <2>1. IsFiniteSet(DOMAIN users) /\ Cardinality(DOMAIN users) \in Nat /\ Cardinality(page) \in Nat
    BY <1>1, IdsFinite DEF TypeInv
  <2>2. Cardinality(page) <= Cardinality(DOMAIN users)
    BY <1>1, <2>1, FS_Subset
  <2> QED
    BY <2>1, <2>2 DEF OnePage
<1>3. PICK last \in page : Cursor = Int32(users[last]) /\ \A other \in page : other <= last
  BY CursorType
<1>4. Cursor \in Int /\ last <= Cursor /\ \A id \in DOMAIN users : last < id => Cursor < id
  BY <1>1, <1>2, <1>3, CursorType DEF Sound, CursorSound
<1> QED
  BY <1>1, <1>3, <1>4

\* Each page brings the pass on without leaving anyone behind.
LEMMA PassStep == ASSUME TypeInv, OwedInv, PassInv, [Next]_vars PROVE PassInv'
<1> SUFFICES ASSUME Sound' PROVE PassInv'
  BY DEF PassInv
<1>0. Sound
  BY SoundBefore
<1>a. /\ owed \subseteq DOMAIN users /\ DOMAIN users \subseteq 1 .. MaxId /\ owed \subseteq DueUsers
      /\ lastID \in Int
  BY DEF TypeInv, SchedulerType, UsersType, OwedInv
<1>b. \A id, p : Written(id, p) => Written(id, p)'
  BY WrittenStays
<1>1. CASE Environment \/ Dispatch \/ CommitFails \/ RestartGateway \/ UNCHANGED vars
           \/ WritePageUnacknowledged
  <2>1. UNCHANGED <<pc, lastID, page, pass, complete>> /\ owed' \subseteq owed
    BY <1>1 DEF Environment, Tick, Register, Answer, Dispatch, Fetch, FetchTimesOut, Send, Commit,
       CommitFails, RestartGateway, WritePageUnacknowledged, vars, schedulerVars
  <2>2. \A id \in owed' : id \in owed /\ (Written(id, pass) => Written(id, pass)')
    BY <1>b, <2>1 DEF Written
  <2> QED
    BY <1>0, <2>1, <2>2 DEF PassInv
<1>2. CASE Plan \/ ReadPageFails \/ WritePageFails \/ RestartScheduler
  <2>1. pc' \in {"plan", "sleep"} /\ (pc' = "plan" => complete' = FALSE)
    BY <1>2 DEF Plan, ReadPageFails, WritePageFails, RestartScheduler, Return, OwedInv
  <2> QED
    BY <2>1 DEF PassInv
<1>3. CASE Wake
  <2>1. pc' = "page" /\ lastID' = 0 /\ owed' = DueUsers
    BY <1>3 DEF Wake
  <2>2. \A id \in owed' : id > lastID'
    BY <1>a, <2>1, PageType
  <2> QED
    BY <2>1, <2>2 DEF PassInv
<1>4. CASE ReadPage
  <2>1. /\ pc = "page" /\ page' = GetUsersByID(lastID) /\ UNCHANGED <<log, pass, owed>>
        /\ pc' = IF page' = {} THEN "plan" ELSE "write"
    BY <1>4 DEF ReadPage
  <2>2. ASSUME NEW id \in owed'
        PROVE  \/ Written(id, pass)' \/ id \in page'
               \/ Cardinality(page') >= PageSize /\ \A other \in page' : other < id
    <3>1. Written(id, pass) \/ id > lastID
      BY <1>0, <2>1 DEF PassInv
    <3>2. CASE Written(id, pass)
      BY <1>b, <2>1, <3>2 DEF Written
    <3>3. CASE id > lastID
      <4>1. id \in {u \in DueUsers : u > lastID}
        BY <1>a, <2>1, <3>3
      <4> QED
        BY <2>1, <4>1, PageRead
    <3> QED
      BY <3>1, <3>2, <3>3
  <2>3. CASE page' = {}
    <3>1. ~(Cardinality(page') >= PageSize)
      BY <2>3, FS_EmptySet
    <3> QED
      BY <2>1, <2>2, <2>3, <3>1 DEF PassInv
  <2>4. CASE page' # {}
    BY <2>1, <2>2, <2>4 DEF PassInv
  <2> QED
    BY <2>3, <2>4
<1>5. CASE WritePage
  <2>1. pc = "write" /\ Store /\ UNCHANGED <<pass, owed>>
    BY <1>5 DEF WritePage
  <2>2. ASSUME NEW id \in owed'
        PROVE  \/ Written(id, pass)'
               \/ Cardinality(page) >= PageSize /\ \A other \in page : other < id
    <3>1. \/ Written(id, pass) \/ id \in page
          \/ Cardinality(page) >= PageSize /\ \A other \in page : other < id
      BY <1>0, <2>1 DEF PassInv
    <3> QED
      BY <2>1, <3>1, WrittenStays
  <2>3. Cardinality(page) \in Nat
    BY IdsFinite DEF TypeInv, SchedulerType
  <2>4. CASE Cardinality(page) < PageSize /\ Return /\ complete' = TRUE
    <3>1. \A id \in owed' : Written(id, pass)'
      BY <2>2, <2>3, <2>4
    <3> QED
      BY <2>4, <3>1 DEF PassInv, Return
  <2>5. CASE Cardinality(page) = PageSize /\ pc' = "tick" /\ lastID' = Cursor
    <3>1. ASSUME NEW id \in owed' PROVE Written(id, pass)' \/ id > lastID'
      <4>1. id \in DOMAIN users
        BY <1>a, <2>1
      <4> QED
        BY <1>0, <2>1, <2>2, <2>5, <4>1, CursorOrder
    <3> QED
      BY <2>5, <3>1 DEF PassInv
  <2> QED
    BY <1>5, <2>4, <2>5 DEF WritePage
<1>6. CASE NextPage
  <2>1. pc = "tick" /\ pc' = "page" /\ UNCHANGED <<lastID, pass, owed, log>>
    BY <1>6 DEF NextPage
  <2> QED
    BY <1>0, <2>1 DEF PassInv, Written
<1> QED
  BY <1>1, <1>2, <1>3, <1>4, <1>5, <1>6 DEF Next, Schedule, Failure

\* A pass that came to its end has written every user who was due from its beginning on, when the
\* users fit in a page or the cursor is sound: for every table, page size and width of the cursor.
THEOREM PassAlwaysComplete == Spec => []PassIsComplete
<1>1. Init => OwedInv /\ PassInv
  BY DEF Init, OwedInv, PassInv
<1>2. PassInv => PassIsComplete
  BY DEF PassInv, PassIsComplete, Sound, Written
<1> QED
  BY <1>1, <1>2, OwedStep, PassStep, InitType, NextType, PTL DEF Spec

-------------------------------------------------------------------------------
(* Once in a pass.                                                           *)

Copies(id, p) == {i \in 1 .. Len(log) : log[i].id = id /\ log[i].pass = p}

\* What a page of distinct users adds.
LEMMA CopiesAdded ==
  ASSUME TypeInv, [Next]_vars, NEW id, NEW p
  PROVE  /\ IsFiniteSet(Copies(id, p)) /\ Cardinality(Copies(id, p)) \in Nat
         /\ Cardinality(Copies(id, p)') \in Nat
         /\ ~(pc = "write" /\ Store) \/ id \notin page \/ p # pass =>
              Copies(id, p)' = Copies(id, p)
         /\ Cardinality(Copies(id, p)') <= Cardinality(Copies(id, p)) + 1
<1> PICK n : n = Len(log)
  OBVIOUS
<1>1. n \in Nat
  BY DEF TypeInv, LogType
<1>2. IsFiniteSet(Copies(id, p)) /\ Cardinality(Copies(id, p)) \in Nat
  <2>1. IsFiniteSet(1 .. n)
    <3>1. 1 \in Int /\ n \in Int
      BY <1>1
    <3> QED
      BY <3>1, FS_Interval
  <2>2. Copies(id, p) \in SUBSET (1 .. n)
    BY DEF Copies
  <2> QED
    BY <2>1, <2>2, FS_Subset, FS_CardinalityType
<1>3. CASE ~(pc = "write" /\ Store)
  <2>1. UNCHANGED log
    BY <1>3, TopicFrame
  <2>2. Copies(id, p)' = Copies(id, p)
    BY <2>1 DEF Copies
  <2> QED
    BY <1>2, <2>2
<1>4. CASE pc = "write" /\ Store
  <2> PICK m : m = Cardinality(page)
    OBVIOUS
  <2>1. m \in Nat /\ Len(log') = n + m
    BY <1>4, StoreType, IdsFinite DEF TypeInv, SchedulerType
  <2>2. /\ \A i \in 1 .. n : i \in 1 .. n + m /\ log'[i] = log[i]
        /\ \A k \in 1 .. m : n + k \in 1 .. n + m /\ log'[n + k] = Records[k]
        /\ \A i \in 1 .. n + m : i \in 1 .. n \/ \E k \in 1 .. m : i = n + k
    <3>1. \A i \in 1 .. n + m : i \in 1 .. n \/ (i - n \in 1 .. m /\ i = n + (i - n))
      BY <1>1, <2>1
    <3> QED
      BY <1>1, <1>4, <2>1, <3>1, StoreType
  <2>3. /\ Len(Records) = m /\ \A k \in 1 .. m : Records[k].id \in page /\ Records[k].pass = pass
        /\ \A i, k \in 1 .. m : Records[i].id = Records[k].id => i = k
    BY <1>4, RecordsType
  <2>4. ASSUME NEW k \in 1 .. m, Records[k].id = id, p = pass
        PROVE  Copies(id, p)' = Copies(id, p) \cup {n + k}
    <3>1. \A i \in Copies(id, p) \cup {n + k} : i \in Copies(id, p)'
      <4>1. n + k \in 1 .. Len(log') /\ log'[n + k].id = id /\ log'[n + k].pass = p
        BY <2>1, <2>2, <2>3, <2>4
      <4>2. \A i \in Copies(id, p) : i \in Copies(id, p)'
        BY <2>1, <2>2 DEF Copies
      <4>3. n + k \in Copies(id, p)'
        BY <4>1 DEF Copies
      <4> QED
        BY <4>2, <4>3
    <3>2. ASSUME NEW i \in Copies(id, p)' PROVE i \in Copies(id, p) \cup {n + k}
      <4>1. i \in 1 .. n + m /\ log'[i].id = id /\ log'[i].pass = p
        BY <2>1, <3>2 DEF Copies
      <4>2. CASE i \in 1 .. n
        BY <2>2, <4>1, <4>2 DEF Copies
      <4>3. ASSUME NEW j \in 1 .. m, i = n + j PROVE i = n + k
        <5>1. Records[j].id = Records[k].id
          BY <2>2, <2>4, <4>1, <4>3
        <5> QED
          BY <2>3, <4>3, <5>1
      <4> QED
        BY <2>2, <4>1, <4>2, <4>3
    <3> QED
      BY <3>1, <3>2
  <2>5. ASSUME ~ \E k \in 1 .. m : Records[k].id = id /\ p = pass
        PROVE  Copies(id, p)' = Copies(id, p)
    BY <2>1, <2>2, <2>3, <2>5 DEF Copies
  <2>6. ASSUME NEW i
        PROVE  Cardinality(Copies(id, p) \cup {i}) \in Nat
               /\ Cardinality(Copies(id, p) \cup {i}) <= Cardinality(Copies(id, p)) + 1
    <3>1. PICK s : s = Copies(id, p)
      OBVIOUS
    <3>2. /\ IsFiniteSet(s) /\ Cardinality(s) \in Nat
          /\ Cardinality(s \cup {i}) = IF i \in s THEN Cardinality(s) ELSE Cardinality(s) + 1
      BY <1>2, <3>1, FS_AddElement
    <3> QED
      BY <3>1, <3>2
  <2>7. CASE \E k \in 1 .. m : Records[k].id = id /\ p = pass
    <3>1. id \in page /\ p = pass
      BY <2>3, <2>7
    <3> QED
      BY <1>2, <1>4, <2>4, <2>6, <2>7, <3>1
  <2> QED
    BY <1>2, <2>5, <2>7
<1> QED
  BY <1>3, <1>4

\* No copy of a user ahead of the cursor is written in the pass.
CopiesInv ==
  Sound =>
    /\ \A id, p : Cardinality(Copies(id, p)) <= 1 + faults.copies
    /\ pc \in {"page", "tick"} => \A id : Copies(id, pass) # {} => id <= lastID
    /\ pc = "write" =>
         /\ \A id \in page : id > lastID /\ Cardinality(Copies(id, pass)) <= faults.copies
         /\ \A id : Copies(id, pass) # {} => id <= lastID \/ id \in page

\* Each page adds one copy of users who had only the writer's copies in this pass.
LEMMA CopiesStep == ASSUME TypeInv, LogInv, CopiesInv, [Next]_vars PROVE CopiesInv'
<1> SUFFICES ASSUME Sound' PROVE CopiesInv'
  BY DEF CopiesInv
<1>0. Sound
  BY SoundBefore
<1>a. /\ faults.copies \in Nat /\ faults'.copies \in Nat /\ faults'.copies >= faults.copies
      /\ WritePageUnacknowledged => faults'.copies = faults.copies + 1
  <2>1. FaultsType /\ FaultsType'
    BY NextType DEF TypeInv
  <2>2. CASE Failure
    <3>1. Fault("copies") \/ Fault("others") \/ Fault("restarts")
      BY <2>2 DEF Failure, ReadPageFails, WritePageUnacknowledged, WritePageFails,
         RestartScheduler, CommitFails, RestartGateway
    <3>2. WritePageUnacknowledged => Fault("copies")
      BY DEF WritePageUnacknowledged
    <3> QED
      BY <2>1, <3>1, <3>2, FaultCounted DEF FaultsType
  <2>3. CASE ~Failure
    <3>1. UNCHANGED faults
      BY <2>3 DEF Next, Environment, Tick, Register, Answer, Schedule, Plan, Wake, ReadPage,
         WritePage, NextPage, Dispatch, Fetch, FetchTimesOut, Send, Commit, vars
    <3> QED
      BY <2>1, <2>3, <3>1 DEF Failure, FaultsType
  <2> QED
    BY <2>2, <2>3
<1>b. \A id, p : /\ Cardinality(Copies(id, p)) \in Nat /\ Cardinality(Copies(id, p)') \in Nat
                 /\ Cardinality(Copies(id, p)') <= Cardinality(Copies(id, p)) + 1
                 /\ ~(pc = "write" /\ Store) \/ id \notin page \/ p # pass =>
                      Copies(id, p)' = Copies(id, p)
  BY CopiesAdded
<1>c. \A id, p : Cardinality(Copies(id, p)) <= 1 + faults.copies
  BY <1>0 DEF CopiesInv
<1>1. ASSUME NEW id, NEW p PROVE Cardinality(Copies(id, p)') <= 1 + faults'.copies
  <2>1. CASE Copies(id, p)' = Copies(id, p)
    BY <1>a, <1>b, <1>c, <2>1
  <2>2. CASE pc = "write" /\ id \in page /\ p = pass
    <3>1. Cardinality(Copies(id, p)) <= faults.copies
      BY <1>0, <2>2 DEF CopiesInv
    <3> QED
      BY <1>a, <1>b, <3>1
  <2> QED
    BY <1>b, <2>1, <2>2
<1>2. CASE UNCHANGED <<pc, lastID, page, pass, log>>
  <2>1. \A id : Copies(id, pass)' = Copies(id, pass)
    BY <1>2 DEF Copies
  <2> QED
    BY <1>0, <1>1, <1>2, <1>a, <1>b, <2>1 DEF CopiesInv
<1>3. CASE pc' \in {"plan", "sleep"}
  BY <1>1, <1>3 DEF CopiesInv
<1>4. CASE Wake
  <2>1. pc' = "page" /\ pass' = pass + 1 /\ UNCHANGED log
    BY <1>4 DEF Wake
  <2>2. pass \in Nat /\ \A i \in 1 .. Len(log) : log[i] \in Messages
    BY DEF TypeInv, SchedulerType, LogType
  <2>3. \A i \in 1 .. Len(log) : log[i].pass # pass'
    BY <2>1, <2>2 DEF LogInv, Messages
  <2>4. \A id : Copies(id, pass)' = {}
    BY <2>1, <2>3 DEF Copies
  <2> QED
    BY <1>1, <2>1, <2>4 DEF CopiesInv
<1>5. CASE ReadPage /\ page' # {}
  <2>1. /\ pc = "page" /\ pc' = "write" /\ page' = GetUsersByID(lastID)
        /\ UNCHANGED <<lastID, log, pass>>
    BY <1>5 DEF ReadPage
  <2>2. \A id : Copies(id, pass)' = Copies(id, pass) /\ (Copies(id, pass) # {} => id <= lastID)
    BY <1>0, <2>1 DEF CopiesInv, Copies
  <2>3. \A id \in page' : id \in Int /\ id > lastID
    BY <2>1, PageType DEF TypeInv, UsersType
  <2>4. \A id \in page' : Copies(id, pass)' = {}
    BY <2>2, <2>3 DEF TypeInv, SchedulerType
  <2> QED
    BY <1>1, <1>a, <2>1, <2>2, <2>3, <2>4, FS_EmptySet DEF CopiesInv
<1>6. CASE WritePageUnacknowledged
  <2>1. pc = "write" /\ pc' = "write" /\ UNCHANGED <<lastID, page, pass>>
    BY <1>6 DEF WritePageUnacknowledged, schedulerVars
  <2>2. \A id \in page : id > lastID /\ Cardinality(Copies(id, pass)) <= faults.copies
    BY <1>0, <2>1 DEF CopiesInv
  <2>3. \A id \in page' : id > lastID' /\ Cardinality(Copies(id, pass)') <= faults'.copies
    BY <1>6, <1>a, <1>b, <2>1, <2>2
  <2>4. \A id : Copies(id, pass)' # {} => id <= lastID' \/ id \in page'
    BY <1>0, <1>b, <2>1 DEF CopiesInv
  <2> QED
    BY <1>1, <2>1, <2>3, <2>4 DEF CopiesInv
<1>7. CASE WritePage /\ pc' = "tick"
  <2>1. pc = "write" /\ Cardinality(page) = PageSize /\ lastID' = Cursor /\ UNCHANGED pass
    BY <1>7 DEF WritePage, Return
  <2>2. \A id : Copies(id, pass)' # {} => id <= lastID \/ id \in page
    BY <1>0, <1>b, <2>1 DEF CopiesInv
  <2>3. \A id \in page : id <= Cursor /\ id > lastID /\ id \in Int
    <3>1. \A id \in page : id \in Int
      BY DEF TypeInv, SchedulerType, UsersType
    <3>2. \A id \in page : id > lastID
      BY <1>0, <2>1 DEF CopiesInv
    <3>3. Cardinality(page) >= PageSize
      BY <2>1
    <3> QED
      BY <1>0, <2>1, <3>1, <3>2, <3>3, CursorOrder
  <2>4. page # {} /\ lastID \in Int /\ Cursor \in Int
    BY <2>1, CursorType DEF TypeInv, SchedulerType
  <2>5. lastID <= Cursor
    BY <2>3, <2>4
  <2>6. ASSUME NEW id, Copies(id, pass)' # {} PROVE id <= lastID'
    <3>1. CASE id \in page
      BY <2>1, <2>3, <3>1
    <3>2. CASE id <= lastID
      <4>1. id \in Int
        <5>1. PICK i \in 1 .. Len(log') : log'[i].id = id
          BY <2>6 DEF Copies
        <5>2. LogType'
          BY NextType DEF TypeInv
        <5>3. log'[i] \in Messages
          BY <5>1, <5>2 DEF LogType
        <5> QED
          BY <5>1, <5>3 DEF Messages
      <4> QED
        BY <2>1, <2>4, <2>5, <3>2, <4>1
    <3> QED
      BY <2>2, <2>6, <3>1, <3>2
  <2> QED
    BY <1>1, <1>7, <2>6 DEF CopiesInv
<1>8. CASE NextPage
  <2>1. pc = "tick" /\ pc' = "page" /\ UNCHANGED <<lastID, pass, log>>
    BY <1>8 DEF NextPage
  <2>2. \A id : Copies(id, pass)' = Copies(id, pass)
    BY <2>1 DEF Copies
  <2> QED
    BY <1>0, <1>1, <2>1, <2>2 DEF CopiesInv
<1>9. CASE Environment \/ Dispatch \/ CommitFails \/ RestartGateway \/ UNCHANGED vars
  <2>1. UNCHANGED <<pc, lastID, page, pass, log>>
    BY <1>9 DEF Environment, Tick, Register, Answer, Dispatch, Fetch, FetchTimesOut, Send, Commit,
       CommitFails, RestartGateway, vars, schedulerVars
  <2> QED
    BY <1>2, <2>1
<1>10. CASE Plan \/ (ReadPage /\ page' = {}) \/ (WritePage /\ pc' # "tick")
  <2>1. pc' \in {"plan", "sleep"}
    BY <1>10 DEF Plan, ReadPage, WritePage, Return
  <2> QED
    BY <1>3, <2>1
<1>11. CASE ReadPageFails \/ WritePageFails \/ RestartScheduler
  <2>1. pc' \in {"plan", "sleep"}
    BY <1>11 DEF ReadPageFails, WritePageFails, RestartScheduler, Return
  <2> QED
    BY <1>3, <2>1
<1> QED
  BY <1>4, <1>5, <1>6, <1>7, <1>8, <1>9, <1>10, <1>11 DEF Next, Schedule, Failure

\* The copies of a user in a pass are never more than the writer's faults explain.
LEMMA CopiesAlways == Spec => [](TypeInv /\ CopiesInv)
<1>1. Init => CopiesInv
  <2> SUFFICES ASSUME Init PROVE CopiesInv
    OBVIOUS
  <2>1. \A id, p : Copies(id, p) = {}
    BY DEF Init, Copies
  <2>2. \A id, p : Cardinality(Copies(id, p)) <= 1 + faults.copies
    <3>1. Cardinality({}) = 0 /\ faults.copies = 0
      BY FS_EmptySet DEF Init
    <3>2. 0 <= 1 + 0
      OBVIOUS
    <3> QED
      BY <2>1, <3>1, <3>2
  <2> QED
    BY <2>2 DEF Init, CopiesInv
<1> QED
  BY <1>1, LogAlways, CopiesStep, InitType, NextType, PTL DEF Spec

\* Under the same condition no user is written twice in a pass, but for the copies of the writer,
\* and no record is sent twice, but for the restarts of the gateway.
THEOREM AlwaysRemindedOnce == Spec => []RemindedOnce
<1>1. TypeInv /\ SentInv /\ CopiesInv => RemindedOnce
  <2> SUFFICES ASSUME TypeInv, SentInv, CopiesInv PROVE RemindedOnce
    OBVIOUS
  <2>1. \A i \in 1 .. Len(log) : tries[i] <= 1 + faults.restarts
    BY FrontType DEF SentInv
  <2>2. ASSUME Sound, NEW i \in 1 .. Len(log)
        PROVE  Cardinality({j \in 1 .. Len(log) :
                              log[j].id = log[i].id /\ log[j].pass = log[i].pass})
                 <= 1 + faults.copies
    <3>1. PICK id, p : id = log[i].id /\ p = log[i].pass
      OBVIOUS
    <3>2. Cardinality(Copies(id, p)) <= 1 + faults.copies
      BY <2>2 DEF CopiesInv
    <3> QED
      BY <3>1, <3>2 DEF Copies
  <2> QED
    BY <2>1, <2>2 DEF RemindedOnce, Sound
<1> QED
  BY <1>1, SentAlways, CopiesAlways, PTL

-------------------------------------------------------------------------------
(* How both loops come to their ends.                                        *)

\* The steps HandleNotifications still makes when nothing else happens: four for a record not
\* yet fetched; of the batch in hand the deadline, what is left to send, and the commit.
Undelivered ==
  4 * (Len(log) - position)
  + IF next # 0 THEN position + 2 - next ELSE IF batch > 0 THEN batch + 2 ELSE 0

\* Every step of HandleNotifications brings it nearer to the end of the topic, a commit that fails
\* too; only new records or its restart, which is a fault, put the end off, and there every record
\* has been handed to Telegram.  With the fairness of Dispatch this is the argument for
\* EveryRecordIsTried.
THEOREM EveryStepDelivers ==
  Spec => /\ [](/\ Undelivered \in Nat
                /\ Undelivered = 0 => \A i \in 1 .. Len(log) : tries[i] > 0)
          /\ [][/\ Dispatch \/ CommitFails => Undelivered' < Undelivered
                /\ Undelivered' > Undelivered =>
                     Len(log') > Len(log) \/ faults'.restarts = faults.restarts + 1]_vars
<1>1. ASSUME TypeInv
      PROVE  /\ Len(log) \in Nat /\ position \in Nat /\ position <= Len(log)
             /\ batch \in Nat /\ next \in Nat /\ next <= position + 1 /\ batch <= position
             /\ next # 0 => next >= position - batch + 1
  <2>1. Len(log) \in Nat /\ GatewayType
    BY <1>1 DEF TypeInv, LogType
  <2> QED
    BY <2>1 DEF GatewayType
<1>2. ASSUME TypeInv, SentInv
      PROVE  /\ Undelivered \in Nat
             /\ Undelivered = 0 => \A i \in 1 .. Len(log) : tries[i] > 0
  <2>1. Undelivered \in Nat /\ (Undelivered = 0 => next = 0 /\ batch = 0 /\ position = Len(log))
    BY <1>1, <1>2, SMTT(20) DEF Undelivered
  <2>2. next = 0 /\ batch = 0 /\ position = Len(log) => Front - 1 = Len(log)
    BY <1>1, <1>2 DEF Front
  <2> QED
    BY <1>2, <2>1, <2>2 DEF SentInv
<1>3. ASSUME TypeInv, Dispatch \/ CommitFails
      PROVE  Undelivered' \in Int /\ Undelivered \in Int /\ Undelivered' < Undelivered
  <2>1. CASE Fetch
    <3>1. /\ next = 0 /\ position < Len(log) /\ UNCHANGED log
          /\ position' = position + 1 /\ batch' = batch + 1
          /\ next' = 0 \/ next' = position' - batch' + 1
      BY <2>1 DEF Fetch
    <3>2. next' = 0 \/ next' = position - batch + 1
      BY <1>1, <1>3, <3>1
    <3>3. /\ 4 * (Len(log') - position') = 4 * (Len(log) - position) - 4
          /\ Undelivered = 4 * (Len(log) - position) + IF batch > 0 THEN batch + 2 ELSE 0
      BY <1>1, <1>3, <3>1 DEF Undelivered
    <3>4. CASE next' = 0
      <4>1. Undelivered' = 4 * (Len(log') - position') + (batch + 3)
        BY <1>1, <1>3, <3>1, <3>4 DEF Undelivered
      <4> QED
        BY <1>1, <1>3, <3>3, <4>1, SMTT(20)
    <3>5. CASE next' = position - batch + 1
      <4>1. Undelivered' = 4 * (Len(log') - position') + (batch + 2)
        <5>1. next' # 0 /\ position' + 2 - next' = batch + 2
          BY <1>1, <1>3, <3>1, <3>5, SMTT(20)
        <5> QED
          BY <5>1 DEF Undelivered
      <4> QED
        BY <1>1, <1>3, <3>3, <4>1, SMTT(20)
    <3> QED
      BY <3>2, <3>4, <3>5
  <2>2. CASE FetchTimesOut
    BY <1>1, <1>3, <2>2 DEF FetchTimesOut, Undelivered
  <2>3. CASE Send
    BY <1>1, <1>3, <2>3, SMTT(20) DEF Send, Undelivered
  <2>4. CASE Commit \/ CommitFails
    BY <1>1, <1>3, <2>4 DEF Commit, CommitFails, Undelivered
  <2> QED
    BY <1>3, <2>1, <2>2, <2>3, <2>4 DEF Dispatch
<1>4. ASSUME TypeInv, SentInv, [Next]_vars, Undelivered' > Undelivered
      PROVE  Len(log') > Len(log) \/ faults'.restarts = faults.restarts + 1
  <2>1. ~Dispatch /\ ~CommitFails
    BY <1>3, <1>4
  <2>2. CASE RestartGateway
    BY <1>4, <2>2, FaultCounted DEF RestartGateway, TypeInv
  <2>3. CASE ~RestartGateway
    <3>1. UNCHANGED <<position, batch, next>>
      BY <1>4, <2>1, <2>3, GatewayFrame DEF gatewayVars
    <3>2. log' = log => Undelivered' = Undelivered
      BY <3>1 DEF Undelivered
    <3>3. Undelivered \in Nat
      BY <1>2, <1>4
    <3>4. log' # log
      BY <1>4, <3>2, <3>3
    <3>5. pc = "write" /\ Store
      BY <1>4, <3>4, TopicFrame
    <3>6. Cardinality(page) \in Nat \ {0} /\ page # {}
      BY <1>4, <3>5, IdsFinite, FS_EmptySet DEF TypeInv, SchedulerType
    <3>7. Len(log) \in Nat /\ Len(log') = Len(log) + Cardinality(page)
      BY <1>4, <3>5, StoreType DEF TypeInv, LogType
    <3> QED
      BY <3>6, <3>7
  <2> QED
    BY <2>2, <2>3
<1> QED
  BY <1>2, <1>3, <1>4, SentAlways, PTL DEF Spec

\* A pass goes forward: from page to page the cursor grows, and a page has only users after it, when
\* the users fit in a page or the cursor is sound.  So the users still ahead get fewer with every
\* page, which is the argument for PassEnds.
THEOREM PassGoesForward ==
  Spec => [][Sound' /\ pc = "write" /\ pc' = "tick" =>
               /\ lastID' > lastID
               /\ \A id \in page : lastID < id /\ id <= lastID']_vars
<1>1. ASSUME TypeInv, CopiesInv, [Next]_vars, Sound', pc = "write", pc' = "tick"
      PROVE  lastID' > lastID /\ \A id \in page : lastID < id /\ id <= lastID'
  <2>1. Sound
    BY <1>1, SoundBefore
  <2>2. WritePage
    BY <1>1 DEF Next, Environment, Tick, Register, Answer, Schedule, Plan, Wake, ReadPage,
       NextPage, Dispatch, Fetch, FetchTimesOut, Send, Commit, Failure, ReadPageFails,
       WritePageUnacknowledged, WritePageFails, RestartScheduler, CommitFails, RestartGateway,
       Return, vars, schedulerVars
  <2>3. Cardinality(page) = PageSize /\ PageSize \in Nat /\ lastID' = Cursor
    BY <1>1, <2>2, SizesAssumption DEF WritePage, Return
  <2>4. \A id \in page : lastID < id
    BY <1>1, <2>1 DEF CopiesInv
  <2>5. \A id \in page : id <= lastID'
    <3>1. Cardinality(page) >= PageSize
      BY <2>3
    <3> QED
      BY <1>1, <2>1, <2>3, <3>1, CursorOrder
  <2>6. PICK id \in page : TRUE
    BY <1>1 DEF TypeInv, SchedulerType
  <2>7. lastID \in Int /\ id \in Int /\ lastID' \in Int
    <3>1. TypeInv' 
      BY <1>1, NextType
    <3>2. id \in Int
      BY <1>1, <2>6, IdsFinite DEF TypeInv, SchedulerType
    <3> QED
      BY <1>1, <2>6, <3>1, <3>2 DEF TypeInv, SchedulerType
  <2>8. lastID' > lastID
    BY <2>4, <2>5, <2>6, <2>7
  <2> QED
    BY <2>4, <2>5, <2>8
<1> QED
  BY <1>1, CopiesAlways, PTL DEF Spec
===============================================================================
