------------------------ MODULE PolymarketBookProofs ------------------------
(***************************************************************************)
(* What the rebuilt book of a market holds, for any assets and levels, any *)
(* number of updates, connections and faults, and any MAX_BUFFER.          *)
(*                                                                         *)
(* A book is what the latest of the updates it has taken in set; so it is  *)
(* the venue's as soon as it has taken in all up to its newest.  What has  *)
(* to be known for that is the order of everything between the venue and   *)
(* the book: a change on the wire is behind all that was read and behind   *)
(* every `book` that was taken before it, and what a buffer holds from     *)
(* before a `book` has no later stamp.                                     *)
(***************************************************************************)
EXTENDS PolymarketBook, SequenceTheorems, FiniteSetTheorems, WellFoundedInduction, TLAPS

(* The book that a set of updates leaves.                                  *)
BookOf(H) ==
  [l \in Level |->
     LET setting == {k \in H : updates[k].level = l}
     IN  IF setting = {} THEN 0 ELSE updates[Max(setting)].size]

(* The clock does not go back, and only what was sent is recorded.         *)
Stamped ==
  /\ LastUpdate <= MaxUpdates /\ streamed <= LastUpdate /\ recorded \subseteq 1 .. streamed
  /\ \A k \in DOMAIN updates : updates[k].ms <= ms
  /\ \A j, k \in DOMAIN updates : j <= k => updates[j].ms <= updates[k].ms

(* The books that are still to be applied.                                 *)
OnWire(b)   == b \in {wire[i] : i \in DOMAIN wire}
InFlight(b) == b.kind = "book" /\ (b \in pending \/ OnWire(b))
BookComing(a) == \E b \in Message : InFlight(b) /\ b.asset = a

(* A `book` was taken between two updates.                                 *)
TakenBetween(b) ==
  /\ b.at <= streamed /\ b.ms <= ms
  /\ \A k \in DOMAIN updates : IF k <= b.at THEN updates[k].ms <= b.ms ELSE updates[k].ms >= b.ms

(* ... and whatever was buffered before it was taken has no later stamp.   *)
CoversBuffer(b) ==
  \A a \in Asset : \A i \in DOMAIN buffer[a] :
    buffer[a][i].update <= b.at => buffer[a][i].ms <= b.ms

(* A change on the wire carries updates that were sent, behind all that    *)
(* was read.                                                               *)
Sent(c)  == c.first <= c.final /\ c.final <= streamed /\ c.ms = updates[c.final].ms
Ahead(c) ==
  \A a \in Asset : /\ \A k \in holds[a] : k < c.first
                   /\ \A i \in DOMAIN buffer[a] : buffer[a][i].update < c.first

FlightSound ==
  /\ \A b \in Message : InFlight(b) => TakenBetween(b) /\ CoversBuffer(b)
  /\ \A i \in DOMAIN wire : wire[i].kind = "change" => Sent(wire[i]) /\ Ahead(wire[i])
  /\ \A b \in Message, i \in DOMAIN wire :
       InFlight(b) /\ wire[i].kind = "change" => b.at < wire[i].first
  /\ \A i, j \in DOMAIN wire :
       i < j /\ wire[i].kind = "change" /\ wire[j].kind = "change" => wire[i].final < wire[j].first

(* Items in the order of their updates.                                    *)
PendingItem   == [ms : 0 .. MaxMs, update : Id]
Rising(items) == \A i, j \in DOMAIN items : i < j => items[i].update < items[j].update

(* A buffer holds recorded updates of its asset, in their order.           *)
BufferSound ==
  \A a \in Asset :
    /\ \A i \in DOMAIN buffer[a] :
         /\ buffer[a][i].update \in Of(a, streamed) \intersect recorded
         /\ updates[buffer[a][i].update].ms <= buffer[a][i].ms /\ buffer[a][i].ms <= ms
    /\ Rising(buffer[a])

HoldsSound ==
  \A a \in Asset : holds[a] \subseteq Of(a, streamed) /\ (Live(a) => book[a] = BookOf(holds[a]))

(* MaxBuffer recorded updates of the asset came behind k.                  *)
RecordedOf(a)   == Of(a, LastUpdate) \intersect recorded
PushedOut(a, k) == Cardinality({j \in RecordedOf(a) : j > k}) >= MaxBuffer

NothingMissed ==
  \A a \in Asset :
    /\ resets[a] = 0 <=> ~Live(a)
    /\ \A k \in RecordedOf(a) :
         /\ resets[a] = 0 => k \in UpdatesIn(buffer[a]) \/ PushedOut(a, k)
         /\ resets[a] = 1 /\ k \notin holds[a] => updates[k].ms = snapMs[a] \/ PushedOut(a, k)

(* A connection brings an asset one book.                                  *)
OneBookEach ==
  /\ \A b \in pending : b.kind = "book"
  /\ \A b, c \in pending : b.asset = c.asset => b = c
  /\ \A i \in DOMAIN wire : wire[i].kind = "book" =>
       /\ \A b \in pending : b.asset # wire[i].asset
       /\ \A j \in DOMAIN wire : wire[j].kind = "book" /\ wire[j].asset = wire[i].asset => j = i

(* ... and there are no more snapshots than connections.                   *)
SnapshotsBounded ==
  \A a \in Asset : resets[a] + left.connects + (IF BookComing(a) THEN 1 ELSE 0) <= MaxConnects

BookInv ==
  /\ TypeOK /\ Stamped /\ FlightSound /\ BufferSound /\ HoldsSound
  /\ NothingMissed /\ OneBookEach /\ SnapshotsBounded
-----------------------------------------------------------------------------
(* A bounded set of numbers has its maximum.                               *)
LEMMA MaxIsIn ==
  ASSUME NEW n \in Nat, NEW S \in SUBSET (1 .. n), S # {}
  PROVE  Max(S) \in S /\ \A k \in S : k <= Max(S)
<1> DEFINE T == {n - k : k \in S}
<1>1. T \subseteq Nat /\ T # {}
  <2>1. \A k \in S : k \in 1 .. n /\ n - k \in Nat
    OBVIOUS
  <2>2. PICK k \in S : TRUE
    OBVIOUS
  <2>3. n - k \in T
    OBVIOUS
  <2>4. QED
    BY <2>1, <2>3
<1>2. PICK t \in T : \A u \in T : ~(<<u, t>> \in OpToRel(<, Nat))
  BY <1>1, WFMin, NatLessThanWellFounded, Zenon
<1>3. \A u \in T : ~(u < t)
  BY <1>1, <1>2 DEF OpToRel
<1>4. PICK m \in S : t = n - m
  OBVIOUS
<1>5. \A k \in S : m >= k
  <2>1. TAKE k \in S
  <2>2. ~(n - k < n - m)
    BY <1>3, <1>4
  <2>3. m \in 1 .. n /\ k \in 1 .. n
    OBVIOUS
  <2>4. QED
    BY <2>2, <2>3
<1>6. Max(S) \in S /\ \A k \in S : Max(S) >= k
  BY <1>5 DEF Max
<1>7. QED
  <2>1. \A k \in S : k \in Int
    OBVIOUS
  <2>2. QED
    BY <1>6, <2>1

(* ... and it is the only member that no member exceeds.                   *)
LEMMA MaxIs ==
  ASSUME NEW S, \A k \in S : k \in Int, NEW m \in S, \A k \in S : k <= m
  PROVE  Max(S) = m
<1>1. \A k \in S : m >= k
  OBVIOUS
<1>2. Max(S) \in S /\ \A k \in S : Max(S) >= k
  BY <1>1 DEF Max
<1>3. m \in Int /\ Max(S) \in Int /\ m <= Max(S) /\ Max(S) <= m
  BY <1>2
<1>4. QED
  BY <1>3

-----------------------------------------------------------------------------
(* The elements of S below k.                                              *)
Below(S, k) == {j \in S : j < k}

(* A larger element has more below it, and none has all.                   *)
LEMMA BelowGrows ==
  ASSUME NEW S \in SUBSET Nat, IsFiniteSet(S), NEW k \in S
  PROVE  /\ Cardinality(S) \in Nat
         /\ Cardinality(Below(S, k)) \in 0 .. Cardinality(S) - 1
         /\ \A m \in S : k < m => Cardinality(Below(S, k)) < Cardinality(Below(S, m))
<1>1. \A m \in S : IsFiniteSet(Below(S, m)) /\ Cardinality(Below(S, m)) \in Nat
  <2>1. TAKE m \in S
  <2>2. Below(S, m) \in SUBSET S
    BY DEF Below
  <2>3. IsFiniteSet(Below(S, m))
    BY <2>2, FS_Subset
  <2>4. QED
    BY <2>3, FS_CardinalityType
<1>2. Cardinality(S) \in Nat
  BY FS_CardinalityType
<1>3. Cardinality(Below(S, k)) < Cardinality(S)
  <2>1. Below(S, k) \in SUBSET S /\ k \notin Below(S, k)
    BY DEF Below
  <2>2. Cardinality(Below(S, k)) <= Cardinality(S) /\ Cardinality(S) # Cardinality(Below(S, k))
    BY <2>1, FS_Subset
  <2>3. QED
    BY <1>1, <1>2, <2>2
<1>4. ASSUME NEW m \in S, k < m
      PROVE  Cardinality(Below(S, k)) < Cardinality(Below(S, m))
  <2>1. Below(S, k) \in SUBSET Below(S, m)
    <3>1. \A j \in S : j < k => j < m
      BY <1>4
    <3>2. QED
      BY <3>1 DEF Below
  <2>2. k \in Below(S, m) /\ k \notin Below(S, k)
    BY <1>4 DEF Below
  <2>3. /\ Cardinality(Below(S, k)) <= Cardinality(Below(S, m))
        /\ Cardinality(Below(S, m)) # Cardinality(Below(S, k))
    BY <1>1, <2>1, <2>2, FS_Subset
  <2>4. QED
    BY <1>1, <2>3
<1>5. QED
  BY <1>1, <1>2, <1>3, <1>4

(* InOrder lists the elements of a finite set of numbers, each once, the   *)
(* smaller first.                                                          *)
LEMMA InOrderIsSorted ==
  ASSUME NEW S \in SUBSET Nat, IsFiniteSet(S)
  PROVE  /\ Cardinality(S) \in Nat
         /\ DOMAIN InOrder(S) = 1 .. Cardinality(S)
         /\ \A n \in 1 .. Cardinality(S) : InOrder(S)[n] \in S
         /\ \A i, j \in 1 .. Cardinality(S) : i < j => InOrder(S)[i] < InOrder(S)[j]
         /\ \A k \in S : \E n \in 1 .. Cardinality(S) : InOrder(S)[n] = k
<1> DEFINE rank == [k \in S |-> Cardinality(Below(S, k))]
<1>1. Cardinality(S) \in Nat
  BY FS_CardinalityType
<1>2. PICK c \in Nat : c = Cardinality(S)
  BY <1>1
<1>3. IsFiniteSet(0 .. c - 1) /\ Cardinality(0 .. c - 1) = c
  BY FS_Interval
<1>4. rank \in [S -> 0 .. c - 1]
  BY <1>2, BelowGrows
<1>5. \A k, m \in S : rank[k] = rank[m] => k = m
  <2> SUFFICES ASSUME NEW k \in S, NEW m \in S, k < m PROVE rank[k] < rank[m]
    <3>1. \A k, m \in S : k < m => rank[k] # rank[m]
      BY <1>4
    <3>2. \A k, m \in S : k # m => k < m \/ m < k
      OBVIOUS
    <3>3. QED
      BY <3>1, <3>2
  <2>1. QED
    BY BelowGrows
<1>6. rank \in Injection(S, 0 .. c - 1)
  BY <1>4, <1>5 DEF Injection, IsInjective
<1>7. rank \in Surjection(S, 0 .. c - 1)
  BY <1>2, <1>3, <1>6, FS_Injection
<1>8. \A n \in 1 .. c : \E k \in S : Cardinality({j \in S : j < k}) = n - 1
  <2>1. TAKE n \in 1 .. c
  <2>2. n - 1 \in 0 .. c - 1
    OBVIOUS
  <2>3. \A t \in 0 .. c - 1 : \E k \in S : rank[k] = t
    BY <1>7 DEF Surjection
  <2>4. PICK k \in S : rank[k] = n - 1
    BY <2>2, <2>3
  <2>5. QED
    BY <2>4 DEF Below
<1>9. \A n \in 1 .. c : InOrder(S)[n] \in S /\ rank[InOrder(S)[n]] = n - 1
  BY <1>2, <1>8, Zenon DEF InOrder, Below
<1>10. ASSUME NEW i \in 1 .. c, NEW j \in 1 .. c, i < j
       PROVE  InOrder(S)[i] < InOrder(S)[j]
  <2>1. PICK k \in S, m \in S : k = InOrder(S)[i] /\ m = InOrder(S)[j]
    BY <1>9
  <2>2. rank[k] < rank[m]
    BY <1>9, <1>10, <2>1
  <2>3. ~(m < k) /\ m # k
    <3>1. m < k => rank[m] < rank[k]
      BY BelowGrows
    <3>2. rank[k] \in 0 .. c - 1 /\ rank[m] \in 0 .. c - 1
      BY <1>4
    <3>3. QED
      BY <2>2, <3>1, <3>2
  <2>4. QED
    BY <2>1, <2>3
<1>11. ASSUME NEW k \in S PROVE \E n \in 1 .. c : InOrder(S)[n] = k
  <2>1. rank[k] \in 0 .. c - 1
    BY <1>4
  <2>2. PICK n \in 1 .. c : n - 1 = rank[k]
    <3>1. rank[k] + 1 \in 1 .. c /\ (rank[k] + 1) - 1 = rank[k]
      BY <2>1
    <3>2. QED
      BY <3>1
  <2>3. InOrder(S)[n] = k
    BY <1>5, <1>9, <2>2
  <2>4. QED
    BY <2>3
<1>12. DOMAIN InOrder(S) = 1 .. Cardinality(S)
  BY DEF InOrder
<1>13. QED
  BY <1>1, <1>2, <1>9, <1>10, <1>11, <1>12

-----------------------------------------------------------------------------
(* Applying newer items to the book of a set of updates leaves the book of *)
(* them all.                                                               *)
LEMMA AppliedIsLatest ==
  ASSUME NEW n \in Nat, NEW H \in SUBSET (1 .. n), NEW items \in Seq(PendingItem),
         \A i \in DOMAIN items : items[i].update \in 1 .. n,
         Rising(items),
         \A k \in H : \A i \in DOMAIN items : k < items[i].update
  PROVE  ApplyItems(BookOf(H), items) = BookOf(H \union UpdatesIn(items))
<1> DEFINE U == UpdatesIn(items)
           setting(l) == {i \in DOMAIN items : updates[items[i].update].level = l}
           held(l) == {k \in H : updates[k].level = l}
           all(l) == {k \in H \union U : updates[k].level = l}
           before(l) == IF held(l) = {} THEN 0 ELSE updates[Max(held(l))].size
           after(l) == IF all(l) = {} THEN 0 ELSE updates[Max(all(l))].size
<1>1. PICK len \in Nat : len = Len(items)
  OBVIOUS
<1>2. DOMAIN items = 1 .. len
  BY <1>1
<1>3. ASSUME NEW l \in Level
      PROVE  (IF setting(l) = {} THEN before(l)
              ELSE updates[items[Max(setting(l))].update].size) = after(l)
  <2>1. CASE setting(l) = {}
    <3>1. all(l) = held(l)
      BY <2>1 DEF UpdatesIn
    <3>2. QED
      BY <2>1, <3>1
  <2>2. CASE setting(l) # {}
    <3>1. setting(l) \in SUBSET (1 .. len)
      BY <1>2
    <3>2. Max(setting(l)) \in setting(l) /\ \A i \in setting(l) : i <= Max(setting(l))
      BY <2>2, <3>1, MaxIsIn
    <3>3. PICK m \in DOMAIN items : m = Max(setting(l)) /\ updates[items[m].update].level = l
      BY <3>2
    <3>4. items[m].update \in all(l)
      BY <3>3 DEF UpdatesIn
    <3>5. \A k \in all(l) : k \in 1 .. n
      BY DEF UpdatesIn
    <3>6. ASSUME NEW k \in all(l) PROVE k <= items[m].update
      <4>1. CASE k \in H
        <5>1. k < items[m].update
          BY <4>1
        <5>2. QED
          BY <5>1, <3>4, <3>5
      <4>2. CASE k \in U
        <5>1. PICK i \in DOMAIN items : k = items[i].update
          BY <4>2 DEF UpdatesIn
        <5>2. i \in setting(l) /\ i <= m
          BY <3>2, <3>3, <5>1
        <5>3. i < m \/ i = m
          BY <1>2, <5>2
        <5>4. QED
          BY <3>4, <3>5, <5>1, <5>3 DEF Rising
      <4>3. QED
        BY <4>1, <4>2
    <3>7. \A k \in all(l) : k \in Int
      BY <3>5
    <3>8. Max(all(l)) = items[m].update
      BY <3>4, <3>6, <3>7, MaxIs
    <3>9. QED
      BY <2>2, <3>3, <3>4, <3>8
  <2>3. QED
    BY <2>1, <2>2
<1>4. BookOf(H) = [l \in Level |-> before(l)]
  BY DEF BookOf
<1>5. ApplyItems(BookOf(H), items)
        = [l \in Level |-> IF setting(l) = {} THEN before(l)
                           ELSE updates[items[Max(setting(l))].update].size]
  <2>1. \A l \in Level : BookOf(H)[l] = before(l)
    BY <1>4
  <2>2. QED
    BY <2>1, Zenon DEF ApplyItems
<1>6. BookOf(H \union U) = [l \in Level |-> after(l)]
  BY DEF BookOf
<1>7. QED
  BY <1>3, <1>5, <1>6

(* What is left of a buffer after a time stamp.                            *)
LEMMA AfterIsPart ==
  ASSUME NEW items \in Seq(PendingItem), NEW t \in Int
  PROVE  /\ After(items, t) \in Seq(PendingItem)
         /\ \A n \in DOMAIN After(items, t) : \E i \in DOMAIN items :
              items[i].ms > t /\ After(items, t)[n] = items[i]
         /\ \A i \in DOMAIN items : items[i].ms > t =>
              \E n \in DOMAIN After(items, t) : After(items, t)[n] = items[i]
         /\ Rising(items) => Rising(After(items, t))
<1> DEFINE S == {i \in DOMAIN items : items[i].ms > t}
<1>1. PICK len \in Nat : len = Len(items)
  OBVIOUS
<1>2. S \in SUBSET (1 .. len) /\ IsFiniteSet(1 .. len) /\ S \in SUBSET Nat
  <2>1. IsFiniteSet(1 .. len)
    BY FS_Interval
  <2>2. S \in SUBSET (1 .. len)
    BY <1>1
  <2>3. QED
    BY <2>1, <2>2
<1>3. IsFiniteSet(S)
  BY <1>2, FS_Subset
<1>4. PICK c \in Nat : c = Cardinality(S)
  BY <1>3, FS_CardinalityType
<1>5. PICK at : at = InOrder(S)
  OBVIOUS
<1>6. /\ DOMAIN at = 1 .. c
      /\ \A n \in 1 .. c : at[n] \in S
      /\ \A i, j \in 1 .. c : i < j => at[i] < at[j]
      /\ \A k \in S : \E n \in 1 .. c : at[n] = k
  BY <1>2, <1>3, <1>4, <1>5, InOrderIsSorted
<1>7. After(items, t) = [n \in 1 .. c |-> items[at[n]]]
  BY <1>5, <1>6 DEF After
<1>8. \A n \in 1 .. c : at[n] \in DOMAIN items /\ items[at[n]].ms > t
  BY <1>6
<1>9. After(items, t) \in Seq(PendingItem)
  <2>1. \A n \in 1 .. c : items[at[n]] \in PendingItem
    BY <1>8, ElementOfSeq
  <2>2. QED
    BY <1>7, <2>1
<1>10. \A i \in DOMAIN items : items[i].ms > t =>
         \E n \in DOMAIN After(items, t) : After(items, t)[n] = items[i]
  BY <1>6, <1>7
<1>11. ASSUME Rising(items) PROVE Rising(After(items, t))
  BY <1>6, <1>7, <1>8, <1>11 DEF Rising
<1>12. QED
  BY <1>7, <1>8, <1>9, <1>10, <1>11

(* The items of a change.                                                  *)
LEMMA PendingIsChange ==
  ASSUME NEW c, NEW a, c.first \in Id, c.final \in Id, c.ms \in 0 .. MaxMs
  PROVE  /\ Pending(c, a) \in Seq(PendingItem)
         /\ \A i \in DOMAIN Pending(c, a) :
              Pending(c, a)[i].ms = c.ms /\ Pending(c, a)[i].update \in ItemsOf(c, a)
         /\ Rising(Pending(c, a))
         /\ UpdatesIn(Pending(c, a)) = ItemsOf(c, a)
<1> DEFINE S == ItemsOf(c, a)
<1>1. c.first \in Nat /\ c.final \in Nat /\ c.first >= 1
  BY PolymarketBookAssumption DEF Id
<1>2. S \in SUBSET (c.first .. c.final) /\ IsFiniteSet(c.first .. c.final)
      /\ S \in SUBSET Nat
  <2>1. c.first \in Int /\ c.final \in Int
    BY <1>1
  <2>2. IsFiniteSet(c.first .. c.final)
    BY <2>1, FS_Interval
  <2>3. S \in SUBSET (c.first .. c.final)
    BY DEF ItemsOf
  <2>4. \A k \in c.first .. c.final : k \in Nat
    BY <1>1
  <2>5. QED
    BY <2>2, <2>3, <2>4
<1>3. IsFiniteSet(S)
  BY <1>2, FS_Subset
<1>4. PICK n \in Nat : n = Cardinality(S)
  BY <1>3, FS_CardinalityType
<1>5. PICK at : at = InOrder(S)
  OBVIOUS
<1>6. /\ DOMAIN at = 1 .. n
      /\ \A i \in 1 .. n : at[i] \in S
      /\ \A i, j \in 1 .. n : i < j => at[i] < at[j]
      /\ \A k \in S : \E i \in 1 .. n : at[i] = k
  BY <1>2, <1>3, <1>4, <1>5, InOrderIsSorted
<1>7. Pending(c, a) = [i \in 1 .. n |-> [ms |-> c.ms, update |-> at[i]]]
  BY <1>5, <1>6 DEF Pending
<1>8. S \subseteq Id
  BY <1>2, PolymarketBookAssumption DEF Id
<1>9. Pending(c, a) \in Seq(PendingItem)
  BY <1>6, <1>7, <1>8 DEF PendingItem
<1>10. \A i \in 1 .. n : Pending(c, a)[i].ms = c.ms /\ Pending(c, a)[i].update = at[i]
  BY <1>7
<1>11. DOMAIN Pending(c, a) = 1 .. n
  BY <1>7
<1>12. UpdatesIn(Pending(c, a)) = S
  BY <1>6, <1>10, <1>11 DEF UpdatesIn
<1>13. Rising(Pending(c, a))
  BY <1>6, <1>10, <1>11 DEF Rising
<1>14. QED
  BY <1>6, <1>9, <1>10, <1>11, <1>12, <1>13

(* A buffer drops its oldest items and no more than it must.               *)
LEMMA BufferedAreLast ==
  ASSUME NEW items \in Seq(PendingItem)
  PROVE  \E off \in Nat :
           /\ BufferedItems(items) \in Seq(PendingItem)
           /\ Len(BufferedItems(items)) <= MaxBuffer
           /\ Len(items) = off + Len(BufferedItems(items))
           /\ \A i \in DOMAIN BufferedItems(items) :
                off + i \in DOMAIN items /\ BufferedItems(items)[i] = items[off + i]
           /\ off > 0 => Len(BufferedItems(items)) = MaxBuffer
<1>1. PICK len \in Nat : len = Len(items) /\ DOMAIN items = 1 .. len
  OBVIOUS
<1>2. MaxBuffer \in Nat /\ MaxBuffer > 0
  BY PolymarketBookAssumption
<1>3. CASE len <= MaxBuffer
  <2>1. BufferedItems(items) = items
    BY <1>1, <1>2, <1>3 DEF BufferedItems
  <2>2. QED
    BY <1>1, <1>2, <1>3, <2>1
<1>4. CASE len > MaxBuffer
  <2>1. PICK off \in Nat : off = len - MaxBuffer /\ off > 0
    BY <1>2, <1>4
  <2>2. BufferedItems(items) = SubSeq(items, off + 1, len)
    BY <1>1, <1>2, <1>4, <2>1 DEF BufferedItems
  <2>3. /\ SubSeq(items, off + 1, len) \in Seq(PendingItem)
        /\ Len(SubSeq(items, off + 1, len)) = len - off
        /\ \A i \in 1 .. len - off : SubSeq(items, off + 1, len)[i] = items[off + 1 + i - 1]
    <3>1. \A i \in off + 1 .. len : items[i] \in PendingItem
      BY <1>1, <2>1, ElementOfSeq
    <3>2. off + 1 \in 1 .. len + 1 /\ len \in off + 1 - 1 .. len
      BY <1>2, <2>1
    <3>3. QED
      BY <1>1, <2>1, <3>1, <3>2, SubSeqProperties
  <2>4. DOMAIN BufferedItems(items) = 1 .. len - off
    BY <2>2, <2>3
  <2>5. \A i \in 1 .. len - off : off + i \in 1 .. len /\ off + 1 + i - 1 = off + i
    BY <2>1
  <2>6. /\ BufferedItems(items) \in Seq(PendingItem)
        /\ Len(BufferedItems(items)) = MaxBuffer
        /\ Len(items) = off + Len(BufferedItems(items))
    BY <1>1, <1>2, <2>1, <2>2, <2>3
  <2>7. \A i \in DOMAIN BufferedItems(items) :
          off + i \in DOMAIN items /\ BufferedItems(items)[i] = items[off + i]
    BY <1>1, <2>2, <2>3, <2>4, <2>5
  <2>8. QED
    BY <1>2, <2>6, <2>7
<1>5. QED
  BY <1>1, <1>2, <1>3, <1>4

-----------------------------------------------------------------------------
(* Sequences without their first element.                                  *)
LEMMA TailShifts ==
  ASSUME NEW S, NEW s \in Seq(S), s # << >>
  PROVE  /\ Tail(s) \in Seq(S) /\ Head(s) = s[1] /\ 1 \in DOMAIN s
         /\ DOMAIN Tail(s) \subseteq Nat /\ DOMAIN s \subseteq Nat
         /\ \A i \in DOMAIN Tail(s) : 1 + i \in DOMAIN s /\ 1 + i # 1 /\ Tail(s)[i] = s[1 + i]
  OBVIOUS

(* What the fields of a message are.                                       *)
LEMMA MessageIs ==
  ASSUME NEW m \in Message
  PROVE  /\ m.kind = "book" => m.asset \in Asset /\ m.at \in Nat /\ m.ms \in Nat
                               /\ m.ms \in 0 .. MaxMs
         /\ m.kind = "change" => m.first \in Id /\ m.final \in Id /\ m.ms \in 0 .. MaxMs
                               /\ m.first \in Nat /\ m.final \in Nat
         /\ m.kind \in {"book", "change"}
  BY PolymarketBookAssumption DEF Message, Id

(* Updates, their stamps, and the sets of them.                            *)
LEMMA UpdatesTyped ==
  ASSUME TypeOK
  PROVE  /\ LastUpdate \in Nat /\ DOMAIN updates = 1 .. LastUpdate
         /\ streamed \in Nat /\ ms \in Nat
         /\ \A k \in 1 .. LastUpdate : updates[k].ms \in 0 .. MaxMs /\ updates[k].ms \in Nat
         /\ \A a \in Asset : RecordedOf(a) \in SUBSET (1 .. LastUpdate)
<1>1. updates \in Seq([asset : Asset, level : Level, size : 0 .. MaxSize, ms : 0 .. MaxMs])
  BY DEF TypeOK
<1>2. LastUpdate \in Nat /\ DOMAIN updates = 1 .. LastUpdate
  BY <1>1 DEF LastUpdate
<1>3. \A k \in 1 .. LastUpdate : updates[k].ms \in 0 .. MaxMs
  <2>1. PICK R : R = [asset : Asset, level : Level, size : 0 .. MaxSize, ms : 0 .. MaxMs]
    OBVIOUS
  <2>2. updates \in Seq(R)
    BY <1>1, <2>1
  <2>3. \A k \in 1 .. LastUpdate : updates[k] \in R
    BY <1>2, <2>2, ElementOfSeq
  <2>4. QED
    BY <2>1, <2>3
<1>4. 0 .. MaxMs \subseteq Nat /\ 0 .. MaxUpdates \subseteq Nat
  BY PolymarketBookAssumption
<1>5. \A a \in Asset : RecordedOf(a) \in SUBSET (1 .. LastUpdate)
  BY DEF RecordedOf, Of
<1>6. QED
  BY <1>2, <1>3, <1>4, <1>5 DEF TypeOK

(* A larger set of recorded updates pushes out no less.                    *)
LEMMA PushedOutStays ==
  ASSUME NEW a \in Asset, NEW k, NEW n \in Nat,
         RecordedOf(a) \subseteq RecordedOf(a)', RecordedOf(a)' \in SUBSET (1 .. n),
         PushedOut(a, k)
  PROVE  PushedOut(a, k)'
<1> DEFINE A == {j \in RecordedOf(a) : j > k}
           B == {j \in RecordedOf(a)' : j > k}
<1>1. A \in SUBSET B /\ B \in SUBSET (1 .. n)
  OBVIOUS
<1>2. IsFiniteSet(1 .. n)
  BY FS_Interval
<1>3. IsFiniteSet(B)
  BY <1>1, <1>2, FS_Subset
<1>4. IsFiniteSet(A) /\ Cardinality(A) <= Cardinality(B)
  BY <1>1, <1>3, FS_Subset
<1>5. Cardinality(A) \in Nat /\ Cardinality(B) \in Nat
  BY <1>3, <1>4, FS_CardinalityType
<1>6. Cardinality(A) >= MaxBuffer
  BY DEF PushedOut
<1>7. Cardinality(B) >= MaxBuffer
  BY <1>4, <1>5, <1>6, PolymarketBookAssumption
<1>8. QED
  BY <1>7 DEF PushedOut

(* ... so what was missed for a good reason still is.                      *)
LEMMA MissedStays ==
  ASSUME NothingMissed,
         UNCHANGED << resets, snapMs, buffer, holds >>, LastUpdate' \in Nat,
         \A a \in Asset : RecordedOf(a)' = RecordedOf(a),
         \A a \in Asset : \A k \in RecordedOf(a) : updates'[k].ms = updates[k].ms
  PROVE  NothingMissed'
<1>1. PICK n \in Nat : n = LastUpdate'
  OBVIOUS
<1>2. \A a \in Asset : RecordedOf(a)' \in SUBSET (1 .. n)
  BY <1>1 DEF RecordedOf, Of
<1>3. \A a \in Asset : \A k : PushedOut(a, k) => PushedOut(a, k)'
  BY <1>2, PushedOutStays
<1>4. \A a \in Asset : Live(a)' = Live(a) /\ UpdatesIn(buffer'[a]) = UpdatesIn(buffer[a])
  BY DEF Live
<1>5. QED
  BY <1>3, <1>4 DEF NothingMissed, UpdatesIn

(* Fewer messages, in the same order, and buffers and books that are       *)
(* still behind them.                                                      *)
LEMMA FlightThins ==
  ASSUME FlightSound, NEW off \in Nat,
         DOMAIN wire \subseteq Nat, DOMAIN wire' \subseteq Nat,
         \A i \in DOMAIN wire' : off + i \in DOMAIN wire /\ wire'[i] = wire[off + i],
         pending' \subseteq pending, UNCHANGED << updates, ms, streamed >>,
         \A b \in Message : InFlight(b) /\ InFlight(b)' => CoversBuffer(b)',
         \A i \in DOMAIN wire' : wire'[i].kind = "change" => Ahead(wire[i])'
  PROVE  FlightSound' /\ \A b : InFlight(b)' => InFlight(b)
<1>1. \A b : InFlight(b)' => InFlight(b)
  BY DEF InFlight, OnWire
<1>2. \A b : TakenBetween(b) => TakenBetween(b)'
  BY DEF TakenBetween
<1>3. \A b \in Message : InFlight(b)' => TakenBetween(b)' /\ CoversBuffer(b)'
  BY <1>1, <1>2 DEF FlightSound
<1>4. \A i \in DOMAIN wire' : wire'[i].kind = "change" => Sent(wire[i])'
  BY DEF FlightSound, Sent
<1>5. \A b \in Message, i \in DOMAIN wire' :
        InFlight(b)' /\ wire'[i].kind = "change" => b.at < wire'[i].first
  BY <1>1 DEF FlightSound
<1>6. \A i, j \in DOMAIN wire' :
        i < j /\ wire'[i].kind = "change" /\ wire'[j].kind = "change" => wire'[i].final < wire'[j].first
  <2>1. \A i, j \in DOMAIN wire' : i < j => off + i < off + j
    OBVIOUS
  <2>2. QED
    BY <2>1 DEF FlightSound
<1>7. QED
  BY <1>1, <1>3, <1>4, <1>5, <1>6 DEF FlightSound

(* Fewer messages, and a connection still brings an asset one book.        *)
LEMMA OneBookThins ==
  ASSUME OneBookEach, NEW off \in Nat,
         DOMAIN wire \subseteq Nat, DOMAIN wire' \subseteq Nat,
         \A i \in DOMAIN wire' : off + i \in DOMAIN wire /\ wire'[i] = wire[off + i],
         pending' \subseteq pending
  PROVE  OneBookEach'
<1>1. \A i, j \in DOMAIN wire' : off + i = off + j => i = j
  OBVIOUS
<1>2. QED
  BY <1>1 DEF OneBookEach

(* Less to come and no more snapshots.                                     *)
LEMMA BoundStays ==
  ASSUME SnapshotsBounded, TypeOK, resets' = resets, left'.connects = left.connects,
         \A b : InFlight(b)' => InFlight(b)
  PROVE  SnapshotsBounded'
<1>1. \A a \in Asset : resets[a] \in Nat /\ left.connects \in Nat
  BY PolymarketBookAssumption DEF TypeOK
<1>2. \A a : BookComing(a)' => BookComing(a)
  BY DEF BookComing, Message, Id
<1>3. QED
  BY <1>1, <1>2, PolymarketBookAssumption DEF SnapshotsBounded

-----------------------------------------------------------------------------
(* Nothing has been sent at first.                                         *)
LEMMA InitBook == Init => BookInv
<1> SUFFICES ASSUME Init PROVE BookInv
  OBVIOUS
<1> USE PolymarketBookAssumption
<1>1. /\ updates = << >> /\ ms = 0 /\ up = FALSE /\ streamed = 0 /\ pending = {} /\ wire = << >>
      /\ recorded = {} /\ LastUpdate = 0
      /\ \A a \in Asset : snapMs[a] = None /\ buffer[a] = << >> /\ holds[a] = {} /\ resets[a] = 0
      /\ left = [connects |-> MaxConnects, faults |-> MaxFaults]
  BY DEF Init, LastUpdate
<1>2. TypeOK
  <2>1. book \in [Asset -> [Level -> 0 .. MaxSize]]
    BY DEF Init
  <2>2. /\ snapMs \in [Asset -> {None} \union 0 .. MaxMs]
        /\ buffer \in [Asset -> Seq([ms : 0 .. MaxMs, update : Id])]
        /\ holds \in [Asset -> SUBSET Id]
        /\ resets \in [Asset -> 0 .. MaxConnects]
    BY DEF Init
  <2>3. \A a \in Asset : Len(buffer[a]) <= (IF Live(a) THEN 0 ELSE MaxBuffer)
    BY <1>1
  <2>4. /\ updates \in Seq([asset : Asset, level : Level, size : 0 .. MaxSize, ms : 0 .. MaxMs])
        /\ wire \in Seq(Message)
    BY <1>1
  <2>5. left \in [connects : 0 .. MaxConnects, faults : 0 .. MaxFaults]
    BY <1>1
  <2>6. ms \in 0 .. MaxMs /\ streamed \in 0 .. MaxUpdates
    BY <1>1
  <2>7. up \in BOOLEAN /\ wire = << >> /\ pending = {}
    BY <1>1
  <2>8. pending \in SUBSET Message /\ recorded \in SUBSET Id
    BY <1>1
  <2>9. QED
    BY <2>1, <2>2, <2>3, <2>4, <2>5, <2>6, <2>7, <2>8 DEF TypeOK
<1>3. Stamped
  BY <1>1 DEF Stamped
<1>4. FlightSound
  BY <1>1 DEF FlightSound, InFlight, OnWire
<1>5. BufferSound
  BY <1>1 DEF BufferSound, Rising
<1>6. HoldsSound
  BY <1>1 DEF HoldsSound, Live
<1>7. NothingMissed
  BY <1>1 DEF NothingMissed, Live, RecordedOf
<1>8. OneBookEach
  BY <1>1 DEF OneBookEach
<1>9. SnapshotsBounded
  BY <1>1 DEF SnapshotsBounded, BookComing, InFlight, OnWire
<1>10. QED
  BY <1>2, <1>3, <1>4, <1>5, <1>6, <1>7, <1>8, <1>9 DEF BookInv

-----------------------------------------------------------------------------
(* A new update changes nothing that is said of the updates before it.     *)
LEMMA PastStays ==
  ASSUME TypeOK, Update
  PROVE  /\ LastUpdate' = LastUpdate + 1 /\ DOMAIN updates' = 1 .. LastUpdate + 1
         /\ updates'[LastUpdate + 1].ms = ms
         /\ \A k \in 1 .. LastUpdate : updates'[k] = updates[k]
         /\ updates' \in Seq([asset : Asset, level : Level, size : 0 .. MaxSize, ms : 0 .. MaxMs])
         /\ \A a, n : n \in 0 .. LastUpdate => Of(a, n)' = Of(a, n)
         /\ \A H : H \subseteq 1 .. LastUpdate => BookOf(H)' = BookOf(H)
<1>1. PICK a \in Asset, l \in Level, q \in 0 .. MaxSize :
        updates' = Append(updates, [asset |-> a, level |-> l, size |-> q, ms |-> ms])
  BY DEF Update
<1>2. PICK u : u = [asset |-> a, level |-> l, size |-> q, ms |-> ms]
  OBVIOUS
<1>3. PICK R : R = [asset : Asset, level : Level, size : 0 .. MaxSize, ms : 0 .. MaxMs]
  OBVIOUS
<1>4. updates \in Seq(R) /\ u \in R /\ updates' = Append(updates, u)
  BY <1>1, <1>2, <1>3 DEF TypeOK
<1>5. PICK n \in Nat : n = LastUpdate /\ n = Len(updates)
  BY <1>4 DEF LastUpdate
<1>6. /\ updates' \in Seq(R) /\ Len(updates') = n + 1
      /\ \A k \in 1 .. n : updates'[k] = updates[k]
      /\ updates'[n + 1] = u
  BY <1>4, <1>5, AppendProperties
<1>7. LastUpdate' = n + 1 /\ DOMAIN updates' = 1 .. n + 1
  BY <1>6 DEF LastUpdate
<1>8. \A b, m : m \in 0 .. n => Of(b, m)' = Of(b, m)
  BY <1>6 DEF Of
<1>9. ASSUME NEW H, H \subseteq 1 .. n PROVE BookOf(H)' = BookOf(H)
  <2>1. \A x : {k \in H : updates'[k].level = x} = {k \in H : updates[k].level = x}
    BY <1>6, <1>9
  <2>2. \A x : {k \in H : updates[k].level = x} # {} =>
          Max({k \in H : updates[k].level = x}) \in 1 .. n
    <3>1. TAKE x
    <3>2. {k \in H : updates[k].level = x} \in SUBSET (1 .. n)
      BY <1>9
    <3>3. QED
      BY <3>2, MaxIsIn
  <2>3. \A x : (IF {k \in H : updates'[k].level = x} = {} THEN 0
                ELSE updates'[Max({k \in H : updates'[k].level = x})].size)
             = (IF {k \in H : updates[k].level = x} = {} THEN 0
                ELSE updates[Max({k \in H : updates[k].level = x})].size)
    <3>1. TAKE x
    <3>2. CASE {k \in H : updates[k].level = x} = {}
      BY <2>1, <3>2
    <3>3. CASE {k \in H : updates[k].level = x} # {}
      BY <1>6, <2>1, <2>2, <3>3
    <3>4. QED
      BY <3>2, <3>3
  <2>4. QED
    BY <2>3, Zenon DEF BookOf
<1>10. updates'[n + 1].ms = ms
  BY <1>2, <1>6
<1>11. QED
  BY <1>3, <1>5, <1>6, <1>7, <1>8, <1>9, <1>10

(* A new update is the newest, and everything else is about older ones.    *)
LEMMA UpdateKeeps ==
  ASSUME BookInv, Update
  PROVE  BookInv'
<1>1. /\ UNCHANGED << ms, streamed, pending, up, wire, recorded, left >>
      /\ UNCHANGED << book, snapMs, buffer, holds, resets >> /\ LastUpdate < MaxUpdates
  BY DEF Update, bookVars
<1>2. TypeOK /\ Stamped /\ FlightSound /\ BufferSound /\ HoldsSound /\ NothingMissed
      /\ OneBookEach /\ SnapshotsBounded
  BY DEF BookInv
<1>3. /\ LastUpdate \in Nat /\ DOMAIN updates = 1 .. LastUpdate /\ streamed \in Nat /\ ms \in Nat
      /\ \A k \in 1 .. LastUpdate : updates[k].ms \in Nat
  BY <1>2, UpdatesTyped
<1>4. PICK n \in Nat : n = LastUpdate
  BY <1>3
<1>5. /\ LastUpdate' = n + 1 /\ DOMAIN updates' = 1 .. n + 1 /\ updates'[n + 1].ms = ms
      /\ \A k \in 1 .. n : updates'[k] = updates[k]
      /\ updates' \in Seq([asset : Asset, level : Level, size : 0 .. MaxSize, ms : 0 .. MaxMs])
      /\ \A a, m : m \in 0 .. n => Of(a, m)' = Of(a, m)
      /\ \A H : H \subseteq 1 .. n => BookOf(H)' = BookOf(H)
  BY <1>2, <1>4, PastStays
<1>6. streamed <= n /\ recorded \subseteq 1 .. streamed
  BY <1>2, <1>4 DEF Stamped
<1>7. TypeOK'
  BY <1>1, <1>2, <1>5 DEF TypeOK, Live
<1>8. Stamped'
  <2>1. \A k \in 1 .. n + 1 : k \in 1 .. n \/ k = n + 1
    OBVIOUS
  <2>2. \A k \in 1 .. n : updates[k].ms <= ms
    BY <1>2, <1>3, <1>4 DEF Stamped
  <2>3. ASSUME NEW k \in 1 .. n + 1 PROVE updates'[k].ms <= ms
    <3>1. CASE k = n + 1
      BY <1>3, <1>5, <3>1
    <3>2. CASE k \in 1 .. n
      BY <1>5, <2>2, <3>2
    <3>3. QED
      BY <2>1, <3>1, <3>2
  <2>4. ASSUME NEW j \in 1 .. n + 1, NEW k \in 1 .. n + 1, j <= k
        PROVE  updates'[j].ms <= updates'[k].ms
    <3>1. CASE k = n + 1
      BY <1>5, <2>3, <3>1
    <3>2. CASE k \in 1 .. n
      <4>1. j \in 1 .. n
        BY <2>4, <3>2
      <4>2. QED
        BY <1>2, <1>3, <1>4, <1>5, <2>4, <3>2, <4>1 DEF Stamped
    <3>3. QED
      BY <2>1, <3>1, <3>2
  <2>5. LastUpdate' <= MaxUpdates /\ streamed' <= LastUpdate' /\ recorded' \subseteq 1 .. streamed'
    BY <1>1, <1>3, <1>4, <1>5, <1>6, PolymarketBookAssumption
  <2>6. \A k \in DOMAIN updates' : updates'[k].ms <= ms'
    BY <1>1, <1>5, <2>3
  <2>7. \A j, k \in DOMAIN updates' : j <= k => updates'[j].ms <= updates'[k].ms
    BY <1>5, <2>4
  <2>8. QED
    BY <2>5, <2>6, <2>7 DEF Stamped
<1>9. FlightSound'
  <2>1. \A b : InFlight(b)' = InFlight(b)
    BY <1>1 DEF InFlight, OnWire
  <2>2. \A b : CoversBuffer(b)' = CoversBuffer(b)
    BY <1>1 DEF CoversBuffer
  <2>3. \A b \in Message : InFlight(b) => TakenBetween(b)'
    <3>1. SUFFICES ASSUME NEW b \in Message, InFlight(b) PROVE TakenBetween(b)'
      OBVIOUS
    <3>2. TakenBetween(b) /\ b.at \in Nat /\ b.ms \in Nat
      BY <1>2, <3>1, MessageIs DEF FlightSound, InFlight
    <3>3. ASSUME NEW k \in 1 .. n + 1
          PROVE  IF k <= b.at THEN updates'[k].ms <= b.ms ELSE updates'[k].ms >= b.ms
      <4>1. CASE k = n + 1
        BY <1>3, <1>5, <1>6, <3>2, <4>1 DEF TakenBetween
      <4>2. CASE k \in 1 .. n
        BY <1>3, <1>4, <1>5, <3>2, <4>2 DEF TakenBetween
      <4>3. QED
        BY <4>1, <4>2
    <3>4. QED
      BY <1>1, <1>5, <3>2, <3>3 DEF TakenBetween
  <2>4. ASSUME NEW i \in DOMAIN wire, wire[i].kind = "change" PROVE Sent(wire[i])' /\ Ahead(wire[i])'
    <3>1. Sent(wire[i]) /\ Ahead(wire[i])
      BY <1>2, <2>4 DEF FlightSound
    <3>2. wire[i] \in Message
      BY <1>2, ElementOfSeq DEF TypeOK
    <3>3. wire[i].final \in 1 .. n
      BY <1>3, <1>6, <2>4, <3>1, <3>2, MessageIs, PolymarketBookAssumption DEF Sent, Id
    <3>4. QED
      BY <1>1, <1>5, <3>1, <3>3 DEF Sent, Ahead
  <2>5. QED
    BY <1>1, <1>2, <2>1, <2>2, <2>3, <2>4 DEF FlightSound
<1>10. BufferSound'
  <2>1. ASSUME NEW a \in Asset, NEW i \in DOMAIN buffer[a]
        PROVE  /\ buffer[a][i].update \in Of(a, streamed)' \intersect recorded
               /\ updates'[buffer[a][i].update].ms <= buffer[a][i].ms /\ buffer[a][i].ms <= ms
    <3>1. /\ buffer[a][i].update \in Of(a, streamed) \intersect recorded
          /\ updates[buffer[a][i].update].ms <= buffer[a][i].ms /\ buffer[a][i].ms <= ms
      BY <1>2, <2>1 DEF BufferSound
    <3>2. buffer[a][i].update \in 1 .. n
      <4>1. buffer[a][i].update \in 1 .. streamed
        BY <1>6, <3>1
      <4>2. QED
        BY <1>3, <1>4, <1>6, <4>1
    <3>3. Of(a, streamed)' = Of(a, streamed)
      <4>1. PICK m \in 0 .. n : m = streamed
        BY <1>3, <1>6
      <4>2. QED
        BY <1>1, <1>5, <4>1 DEF Of
    <3>4. QED
      BY <1>5, <3>1, <3>2, <3>3
  <2>2. \A a \in Asset : Rising(buffer[a])
    BY <1>2 DEF BufferSound
  <2>3. QED
    BY <1>1, <2>1, <2>2 DEF BufferSound, Rising
<1>11. HoldsSound'
  <2>1. ASSUME NEW a \in Asset
        PROVE  holds[a] \subseteq Of(a, streamed)' /\ (Live(a) => book[a] = BookOf(holds[a])')
    <3>1. holds[a] \subseteq Of(a, streamed) /\ (Live(a) => book[a] = BookOf(holds[a]))
      BY <1>2 DEF HoldsSound
    <3>2. PICK m \in 0 .. n : m = streamed
      BY <1>3, <1>6
    <3>3. Of(a, streamed)' = Of(a, streamed)
      BY <1>1, <1>5, <3>2 DEF Of
    <3>4. PICK H : H = holds[a]
      OBVIOUS
    <3>5. H \subseteq 1 .. n
      BY <3>1, <3>2, <3>4 DEF Of
    <3>6. BookOf(H)' = BookOf(H)
      BY <1>5, <3>5
    <3>7. BookOf(holds[a])' = BookOf(holds[a])
      BY <1>1, <3>4, <3>6 DEF BookOf
    <3>8. QED
      BY <3>1, <3>3, <3>7
  <2>2. QED
    BY <1>1, <2>1 DEF HoldsSound, Live
<1>12. NothingMissed'
  <2>1. \A a \in Asset : RecordedOf(a)' = RecordedOf(a)
    BY <1>1, <1>3, <1>4, <1>5, <1>6 DEF RecordedOf, Of
  <2>2. \A a \in Asset : \A k \in RecordedOf(a) : updates'[k].ms = updates[k].ms
    BY <1>4, <1>5 DEF RecordedOf, Of
  <2>3. QED
    BY <1>1, <1>2, <1>5, <2>1, <2>2, MissedStays
<1>13. OneBookEach'
  BY <1>1, <1>2 DEF OneBookEach
<1>14. SnapshotsBounded'
  BY <1>1, <1>2, BoundStays DEF InFlight, OnWire
<1>15. QED
  BY <1>7, <1>8, <1>9, <1>10, <1>11, <1>12, <1>13, <1>14 DEF BookInv

(* Time passes at the venue.                                               *)
LEMMA TickKeeps ==
  ASSUME BookInv, TickMs
  PROVE  BookInv'
<1>1. /\ UNCHANGED << updates, streamed, pending, up, wire, recorded, left >>
      /\ UNCHANGED << book, snapMs, buffer, holds, resets >> /\ ms < MaxMs /\ ms' = ms + 1
  BY DEF TickMs, bookVars
<1>2. TypeOK /\ Stamped /\ FlightSound /\ BufferSound /\ HoldsSound /\ NothingMissed
      /\ OneBookEach /\ SnapshotsBounded
  BY DEF BookInv
<1>3. /\ LastUpdate \in Nat /\ DOMAIN updates = 1 .. LastUpdate /\ streamed \in Nat /\ ms \in Nat
      /\ \A k \in 1 .. LastUpdate : updates[k].ms \in Nat
  BY <1>2, UpdatesTyped
<1>4. TypeOK'
  <2>1. ms' \in 0 .. MaxMs
    BY <1>1, <1>3, PolymarketBookAssumption
  <2>2. QED
    BY <1>1, <1>2, <2>1 DEF TypeOK, Live
<1>5. Stamped'
  BY <1>1, <1>2, <1>3 DEF Stamped, LastUpdate
<1>6. FlightSound'
  <2>1. \A b : InFlight(b)' = InFlight(b) /\ CoversBuffer(b)' = CoversBuffer(b)
               /\ Sent(b)' = Sent(b) /\ Ahead(b)' = Ahead(b)
    BY <1>1 DEF InFlight, OnWire, CoversBuffer, Sent, Ahead
  <2>2. ASSUME NEW b \in Message, InFlight(b) PROVE TakenBetween(b)'
    <3>1. TakenBetween(b) /\ b.ms \in Nat
      BY <1>2, <2>2, MessageIs DEF FlightSound, InFlight
    <3>2. b.ms <= ms'
      BY <1>1, <1>3, <3>1 DEF TakenBetween
    <3>3. QED
      BY <1>1, <3>1, <3>2 DEF TakenBetween
  <2>3. QED
    BY <1>1, <1>2, <2>1, <2>2 DEF FlightSound
<1>7. BufferSound'
  <2>1. ASSUME NEW a \in Asset, NEW i \in DOMAIN buffer[a]
        PROVE  buffer[a][i].ms <= ms'
    <3>1. buffer[a][i].ms <= ms
      BY <1>2, <2>1 DEF BufferSound
    <3>2. PICK R : R = PendingItem
      OBVIOUS
    <3>3. buffer[a] \in Seq(R)
      BY <1>2, <2>1, <3>2 DEF TypeOK, PendingItem
    <3>4. buffer[a][i] \in R
      BY <2>1, <3>3, ElementOfSeq
    <3>5. buffer[a][i].ms \in Nat
      BY <3>2, <3>4, PolymarketBookAssumption DEF PendingItem
    <3>6. QED
      BY <1>1, <1>3, <3>1, <3>5
  <2>2. \A a : Of(a, streamed)' = Of(a, streamed) /\ Rising(buffer[a])' = Rising(buffer[a])
    BY <1>1 DEF Of, Rising
  <2>3. QED
    BY <1>1, <1>2, <2>1, <2>2 DEF BufferSound
<1>8. HoldsSound'
  BY <1>1, <1>2 DEF HoldsSound, Live, BookOf, Of
<1>9. NothingMissed'
  BY <1>1, <1>2 DEF NothingMissed, Live, RecordedOf, PushedOut, Of, LastUpdate, UpdatesIn
<1>10. OneBookEach'
  BY <1>1, <1>2 DEF OneBookEach
<1>11. SnapshotsBounded'
  BY <1>1, <1>2, BoundStays DEF InFlight, OnWire
<1>12. QED
  BY <1>4, <1>5, <1>6, <1>7, <1>8, <1>9, <1>10, <1>11 DEF BookInv

(* What the books and the records are is not touched by the wire.          *)
LEMMA BooksStay ==
  ASSUME BookInv, UNCHANGED << updates, ms, recorded, book, snapMs, buffer, holds, resets >>,
         streamed' \in Nat, streamed <= streamed', streamed' <= LastUpdate
  PROVE  Stamped' /\ BufferSound' /\ HoldsSound' /\ NothingMissed'
<1>1. TypeOK /\ Stamped /\ BufferSound /\ HoldsSound /\ NothingMissed
  BY DEF BookInv
<1>2. LastUpdate \in Nat /\ streamed \in Nat /\ LastUpdate' = LastUpdate
  BY <1>1, UpdatesTyped DEF LastUpdate
<1>3. \A a : Of(a, streamed) \subseteq Of(a, streamed)'
  BY <1>2 DEF Of
<1>4. Stamped'
  <2>1. recorded \subseteq 1 .. streamed /\ 1 .. streamed \subseteq 1 .. streamed'
    BY <1>1, <1>2 DEF Stamped
  <2>2. QED
    BY <1>1, <1>2, <2>1 DEF Stamped
<1>5. BufferSound'
  BY <1>1, <1>3 DEF BufferSound, Rising
<1>6. HoldsSound'
  <2>1. \A a : Live(a)' = Live(a) /\ BookOf(holds[a])' = BookOf(holds[a])
    BY DEF Live, BookOf
  <2>2. QED
    BY <1>1, <1>3, <2>1 DEF HoldsSound
<1>7. NothingMissed'
  BY <1>1 DEF NothingMissed, Live, RecordedOf, PushedOut, Of, LastUpdate, UpdatesIn
<1>8. QED
  BY <1>4, <1>5, <1>6, <1>7

(* The types of what the wire leaves alone.                                *)
LEMMA TypesStay ==
  ASSUME TypeOK, UNCHANGED << updates, ms, recorded, book, snapMs, buffer, holds, resets >>,
         up' \in BOOLEAN, ~up' => wire' = << >> /\ pending' = {},
         streamed' \in 0 .. MaxUpdates, pending' \in SUBSET Message, wire' \in Seq(Message),
         left' \in [connects : 0 .. MaxConnects, faults : 0 .. MaxFaults]
  PROVE  TypeOK'
  BY DEF TypeOK, Live

(* The books that a connection takes cover all that was done and sent.     *)
LEMMA ConnectKeeps ==
  ASSUME BookInv, Connect
  PROVE  BookInv'
<1>1. /\ UNCHANGED << updates, ms, wire, recorded, book, snapMs, buffer, holds, resets >>
      /\ ~up /\ up' = TRUE /\ streamed' = LastUpdate /\ left.connects > 0
      /\ left' = [left EXCEPT !.connects = @ - 1]
      /\ pending' = {[kind |-> "book", asset |-> a, at |-> LastUpdate, ms |-> ms] : a \in Asset}
  BY DEF Connect, bookVars
<1>2. TypeOK /\ Stamped /\ FlightSound /\ BufferSound /\ SnapshotsBounded
  BY DEF BookInv
<1>3. /\ LastUpdate \in Nat /\ DOMAIN updates = 1 .. LastUpdate /\ streamed \in Nat /\ ms \in Nat
      /\ \A k \in 1 .. LastUpdate : updates[k].ms \in Nat
  BY <1>2, UpdatesTyped
<1>4. wire = << >>
  BY <1>1, <1>2 DEF TypeOK
<1>5. LastUpdate \in 0 .. MaxUpdates /\ left.connects \in 0 .. MaxConnects
      /\ ms \in 0 .. MaxMs
  BY <1>2, <1>3 DEF TypeOK, Stamped
<1>6. \A b \in pending' : /\ b.kind = "book" /\ b.at = LastUpdate /\ b.ms = ms /\ b \in Message
  <2>1. SUFFICES ASSUME NEW a \in Asset,
                        NEW b, b = [kind |-> "book", asset |-> a, at |-> LastUpdate, ms |-> ms]
                 PROVE  /\ b.kind = "book" /\ b.at = LastUpdate /\ b.ms = ms /\ b \in Message
    BY <1>1
  <2>2. b \in [kind : {"book"}, asset : Asset, at : 0 .. MaxUpdates, ms : 0 .. MaxMs]
    BY <1>5, <2>1
  <2>3. b.kind = "book" /\ b.at = LastUpdate /\ b.ms = ms
    BY <2>1
  <2>4. QED
    BY <2>2, <2>3 DEF Message
<1>7. left' \in [connects : 0 .. MaxConnects, faults : 0 .. MaxFaults]
      /\ left'.connects = left.connects - 1 /\ left.connects \in Nat
  <2>1. left \in [connects : 0 .. MaxConnects, faults : 0 .. MaxFaults]
    BY <1>2 DEF TypeOK
  <2>2. left'.connects = left.connects - 1 /\ left.connects - 1 \in 0 .. MaxConnects
    BY <1>1, <1>5, <2>1, PolymarketBookAssumption
  <2>3. QED
    BY <1>1, <1>5, <2>1, <2>2, PolymarketBookAssumption
<1>8. TypeOK'
  <2>1. pending' \in SUBSET Message
    BY <1>6
  <2>2. up' /\ wire' \in Seq(Message) /\ streamed' \in 0 .. MaxUpdates /\ up' \in BOOLEAN
    BY <1>1, <1>2, <1>5 DEF TypeOK
  <2>3. QED
    BY <1>1, <1>2, <1>7, <2>1, <2>2, TypesStay
<1>9. Stamped' /\ BufferSound' /\ HoldsSound' /\ NothingMissed'
  BY <1>1, <1>2, <1>3, BooksStay DEF Stamped
<1>10. FlightSound'
  <2>1. DOMAIN wire' = {} /\ \A b : InFlight(b)' => b \in pending'
    BY <1>1, <1>4 DEF InFlight, OnWire
  <2>2. ASSUME NEW b \in pending' PROVE TakenBetween(b)'
    <3>1. b.at = LastUpdate /\ b.ms = ms
      BY <1>6
    <3>2. \A k \in DOMAIN updates : k <= b.at /\ updates[k].ms <= b.ms
      BY <1>2, <1>3, <3>1 DEF Stamped
    <3>3. QED
      BY <1>1, <1>3, <3>1, <3>2 DEF TakenBetween
  <2>3. ASSUME NEW b \in pending' PROVE CoversBuffer(b)'
    <3>1. b.ms = ms
      BY <1>6
    <3>2. QED
      BY <1>1, <1>2, <3>1 DEF CoversBuffer, BufferSound
  <2>4. QED
    BY <2>1, <2>2, <2>3 DEF FlightSound
<1>11. OneBookEach'
  <2>1. DOMAIN wire' = {}
    BY <1>1, <1>4
  <2>2. \A b, c \in pending' : b.asset = c.asset => b = c
    BY <1>1
  <2>3. QED
    BY <1>6, <2>1, <2>2 DEF OneBookEach
<1>12. SnapshotsBounded'
  <2>1. ASSUME NEW a \in Asset
        PROVE  resets[a] + left'.connects + 1 <= MaxConnects
               /\ resets[a] + left'.connects <= MaxConnects
    <3>1. resets[a] \in Nat
      BY <1>2, PolymarketBookAssumption DEF TypeOK
    <3>2. resets[a] + left.connects <= MaxConnects
      BY <1>2, <1>7, <3>1, PolymarketBookAssumption DEF SnapshotsBounded
    <3>3. QED
      BY <1>7, <3>1, <3>2, PolymarketBookAssumption
  <2>2. resets' = resets
    BY <1>1
  <2>3. ASSUME NEW a \in Asset
        PROVE  resets'[a] + left'.connects + (IF BookComing(a)' THEN 1 ELSE 0) <= MaxConnects
    <3>1. CASE BookComing(a)'
      BY <2>1, <2>2, <3>1
    <3>2. CASE ~BookComing(a)'
      <4>1. resets[a] + left'.connects + 0 = resets[a] + left'.connects
        BY <1>2, <1>7, PolymarketBookAssumption DEF TypeOK
      <4>2. QED
        BY <2>1, <2>2, <3>2, <4>1
    <3>3. QED
      BY <3>1, <3>2
  <2>4. QED
    BY <2>3 DEF SnapshotsBounded
<1>13. QED
  BY <1>8, <1>9, <1>10, <1>11, <1>12 DEF BookInv

(* A book goes from those taken to the end of the wire.                    *)
LEMMA SendBookKeeps ==
  ASSUME BookInv, SendBook
  PROVE  BookInv'
<1>1. PICK b \in pending : wire' = Append(wire, b) /\ pending' = pending \ {b}
  BY DEF SendBook
<1>2. /\ UNCHANGED << updates, ms, streamed, up, recorded, left >>
      /\ UNCHANGED << book, snapMs, buffer, holds, resets >> /\ up
  BY DEF SendBook, bookVars
<1>3. TypeOK /\ Stamped /\ FlightSound /\ OneBookEach /\ SnapshotsBounded
  BY DEF BookInv
<1>4. PICK n \in Nat : n = Len(wire)
  BY <1>3 DEF TypeOK
<1>5. b \in Message /\ wire \in Seq(Message) /\ pending' \in SUBSET Message /\ DOMAIN wire = 1 .. n
  BY <1>1, <1>3, <1>4 DEF TypeOK
<1>6. /\ wire' \in Seq(Message) /\ Len(wire') = n + 1 /\ DOMAIN wire' = 1 .. n + 1
      /\ \A i \in 1 .. n : wire'[i] = wire[i]
      /\ wire'[n + 1] = b
  BY <1>1, <1>4, <1>5, AppendProperties
<1>7. \A i \in 1 .. n + 1 : i \in 1 .. n \/ i = n + 1
  OBVIOUS
<1>8. b.kind = "book" /\ InFlight(b)
  BY <1>1, <1>3 DEF OneBookEach, InFlight
<1>9. TypeOK'
  BY <1>2, <1>3, <1>5, <1>6, TypesStay DEF TypeOK
<1>10. Stamped' /\ BufferSound' /\ HoldsSound' /\ NothingMissed'
  BY <1>2, <1>3, UpdatesTyped, BooksStay DEF Stamped
<1>11. \A c : InFlight(c)' => InFlight(c)
  <2>1. SUFFICES ASSUME NEW c, InFlight(c)' PROVE InFlight(c)
    OBVIOUS
  <2>2. c.kind = "book" /\ (c \in pending' \/ \E i \in DOMAIN wire' : c = wire'[i])
    BY <2>1 DEF InFlight, OnWire
  <2>3. c \in pending \/ \E i \in DOMAIN wire : c = wire[i]
    BY <1>1, <1>5, <1>6, <1>7, <2>2
  <2>4. QED
    BY <2>2, <2>3 DEF InFlight, OnWire
<1>12. FlightSound'
  <2>1. \A c : /\ TakenBetween(c)' = TakenBetween(c) /\ CoversBuffer(c)' = CoversBuffer(c)
               /\ Sent(c)' = Sent(c) /\ Ahead(c)' = Ahead(c)
    BY <1>2 DEF TakenBetween, CoversBuffer, Sent, Ahead
  <2>2. \A i \in 1 .. n + 1 : wire'[i].kind = "change" => i \in 1 .. n /\ wire'[i] = wire[i]
    BY <1>6, <1>7, <1>8
  <2>3. \A c \in Message : InFlight(c)' => TakenBetween(c)' /\ CoversBuffer(c)'
    BY <1>3, <1>11, <2>1 DEF FlightSound
  <2>4. ASSUME NEW i \in 1 .. n + 1, wire'[i].kind = "change" PROVE Sent(wire[i])' /\ Ahead(wire[i])'
    <3>1. Sent(wire[i]) /\ Ahead(wire[i]) /\ wire'[i] = wire[i]
      BY <1>3, <1>5, <2>2, <2>4 DEF FlightSound
    <3>2. QED
      BY <1>2, <3>1 DEF Sent, Ahead
  <2>5. \A c \in Message, i \in 1 .. n + 1 :
          InFlight(c)' /\ wire'[i].kind = "change" => c.at < wire'[i].first
    BY <1>3, <1>5, <1>11, <2>2 DEF FlightSound
  <2>6. \A i, j \in 1 .. n + 1 :
          i < j /\ wire'[i].kind = "change" /\ wire'[j].kind = "change" => wire'[i].final < wire'[j].first
    BY <1>3, <1>5, <2>2 DEF FlightSound
  <2>7. QED
    BY <1>6, <2>3, <2>4, <2>5, <2>6 DEF FlightSound
<1>13. OneBookEach'
  <2>1. \A c \in pending' : c.kind = "book" /\ c.asset # b.asset
    BY <1>1, <1>3 DEF OneBookEach
  <2>2. \A c, d \in pending' : c.asset = d.asset => c = d
    BY <1>1, <1>3 DEF OneBookEach
  <2>3. \A i \in 1 .. n : wire[i].kind = "book" => wire[i].asset # b.asset
    BY <1>1, <1>3, <1>5 DEF OneBookEach
  <2>4. ASSUME NEW i \in 1 .. n + 1, wire'[i].kind = "book"
        PROVE  /\ \A c \in pending' : c.asset # wire'[i].asset
               /\ \A j \in 1 .. n + 1 :
                    wire'[j].kind = "book" /\ wire'[j].asset = wire'[i].asset => j = i
    <3>1. CASE i = n + 1
      BY <1>6, <1>7, <2>1, <2>3, <3>1
    <3>2. CASE i \in 1 .. n
      <4>1. \A c \in pending' : c.asset # wire[i].asset
        BY <1>1, <1>3, <1>5, <1>6, <2>4, <3>2 DEF OneBookEach
      <4>2. \A j \in 1 .. n : wire[j].kind = "book" /\ wire[j].asset = wire[i].asset => j = i
        BY <1>3, <1>5, <1>6, <2>4, <3>2 DEF OneBookEach
      <4>3. wire[i].asset # b.asset
        BY <1>6, <2>3, <2>4, <3>2
      <4>4. QED
        BY <1>6, <1>7, <3>2, <4>1, <4>2, <4>3
    <3>3. QED
      BY <1>7, <3>1, <3>2
  <2>5. QED
    BY <1>6, <2>1, <2>2, <2>4 DEF OneBookEach
<1>14. SnapshotsBounded'
  BY <1>2, <1>3, <1>11, BoundStays
<1>15. QED
  BY <1>9, <1>10, <1>12, <1>13, <1>14 DEF BookInv

(* A change goes behind every book taken and every change before it.       *)
LEMMA SendChangeKeeps ==
  ASSUME BookInv, SendChange
  PROVE  BookInv'
<1>1. /\ UNCHANGED << updates, ms, pending, up, recorded, left >>
      /\ UNCHANGED << book, snapMs, buffer, holds, resets >> /\ up
      /\ streamed < LastUpdate /\ streamed' = LastUpdate
  BY DEF SendChange, bookVars
<1>2. PICK c : c = [kind |-> "change", first |-> streamed + 1, final |-> LastUpdate,
                    ms |-> updates[LastUpdate].ms]
  OBVIOUS
<1>3. wire' = Append(wire, c)
  BY <1>2 DEF SendChange
<1>4. TypeOK /\ Stamped /\ FlightSound /\ BufferSound /\ HoldsSound /\ OneBookEach /\ SnapshotsBounded
  BY DEF BookInv
<1>5. /\ LastUpdate \in Nat /\ DOMAIN updates = 1 .. LastUpdate /\ streamed \in Nat
      /\ \A k \in 1 .. LastUpdate : updates[k].ms \in 0 .. MaxMs
      /\ LastUpdate <= MaxUpdates
  BY <1>4, UpdatesTyped DEF Stamped
<1>6. c.kind = "change" /\ c.first = streamed + 1 /\ c.final = LastUpdate
      /\ c.ms = updates[LastUpdate].ms
  BY <1>2
<1>7. c \in Message
  <2>1. streamed + 1 \in Id /\ LastUpdate \in Id /\ updates[LastUpdate].ms \in 0 .. MaxMs
    BY <1>1, <1>5, PolymarketBookAssumption DEF Id
  <2>2. QED
    BY <1>2, <2>1 DEF Message
<1>8. PICK n \in Nat : n = Len(wire)
  BY <1>4 DEF TypeOK
<1>9. wire \in Seq(Message) /\ DOMAIN wire = 1 .. n
  BY <1>4, <1>8 DEF TypeOK
<1>10. /\ wire' \in Seq(Message) /\ Len(wire') = n + 1 /\ DOMAIN wire' = 1 .. n + 1
       /\ \A i \in 1 .. n : wire'[i] = wire[i]
       /\ wire'[n + 1] = c
  BY <1>3, <1>7, <1>8, <1>9, AppendProperties
<1>11. \A i \in 1 .. n + 1 : i \in 1 .. n \/ i = n + 1
  OBVIOUS
<1>12. TypeOK'
  <2>1. streamed' \in 0 .. MaxUpdates
    BY <1>1, <1>5
  <2>2. QED
    BY <1>1, <1>4, <1>10, <2>1, TypesStay DEF TypeOK
<1>13. Stamped' /\ BufferSound' /\ HoldsSound' /\ NothingMissed'
  BY <1>1, <1>5, BooksStay
<1>14. \A b : InFlight(b)' = InFlight(b)
  <2>1. SUFFICES ASSUME NEW b, b.kind = "book" PROVE OnWire(b)' = OnWire(b)
    BY <1>1 DEF InFlight
  <2>2. b # c
    BY <1>6, <2>1
  <2>3. QED
    BY <1>9, <1>10, <1>11, <2>2 DEF OnWire
<1>15. FlightSound'
  <2>1. \A b \in Message : InFlight(b) => TakenBetween(b)' /\ CoversBuffer(b)' /\ b.at <= streamed
    <3>1. SUFFICES ASSUME NEW b \in Message, InFlight(b)
                   PROVE  TakenBetween(b)' /\ CoversBuffer(b)' /\ b.at <= streamed
      OBVIOUS
    <3>2. TakenBetween(b) /\ CoversBuffer(b) /\ b.at \in Nat
      BY <1>4, <3>1, MessageIs DEF FlightSound, InFlight
    <3>3. b.at <= streamed'
      BY <1>1, <1>5, <3>2 DEF TakenBetween
    <3>4. QED
      BY <1>1, <3>2, <3>3 DEF TakenBetween, CoversBuffer
  <2>2. ASSUME NEW i \in 1 .. n, wire[i].kind = "change"
        PROVE  Sent(wire[i]) /\ Ahead(wire[i]) /\ wire[i].final <= streamed
               /\ wire[i].final \in Nat
    BY <1>4, <1>9, <2>2, MessageIs, ElementOfSeq DEF FlightSound, Sent
  <2>4. Ahead(c)
    <3>1. ASSUME NEW a \in Asset, NEW k \in Of(a, streamed) PROVE k < c.first
      BY <1>5, <1>6, <3>1 DEF Of
    <3>2. QED
      BY <1>4, <3>1 DEF Ahead, HoldsSound, BufferSound
  <2>5. ASSUME NEW i \in 1 .. n + 1, wire'[i].kind = "change" PROVE Sent(wire[i])' /\ Ahead(wire[i])'
    <3>1. CASE i = n + 1
      <4>1. c.first <= c.final /\ c.final <= streamed' /\ c.ms = updates'[c.final].ms
        BY <1>1, <1>5, <1>6
      <4>2. QED
        BY <1>1, <1>10, <2>4, <3>1, <4>1 DEF Sent, Ahead
    <3>2. CASE i \in 1 .. n
      <4>1. wire'[i] = wire[i] /\ wire[i].kind = "change"
        BY <1>10, <2>5, <3>2
      <4>2. wire[i].final <= streamed'
        BY <1>1, <1>5, <2>2, <3>2, <4>1
      <4>3. QED
        BY <1>1, <2>2, <3>2, <4>1, <4>2 DEF Sent, Ahead
    <3>3. QED
      BY <1>11, <3>1, <3>2
  <2>6. ASSUME NEW b \in Message, NEW i \in 1 .. n + 1, InFlight(b), wire'[i].kind = "change"
        PROVE  b.at < wire'[i].first
    <3>1. CASE i = n + 1
      <4>1. b.at <= streamed /\ b.at \in Nat
        BY <2>1, <2>6, MessageIs DEF InFlight
      <4>2. QED
        BY <1>5, <1>6, <1>10, <3>1, <4>1
    <3>2. CASE i \in 1 .. n
      BY <1>4, <1>9, <1>10, <2>6, <3>2 DEF FlightSound
    <3>3. QED
      BY <1>11, <3>1, <3>2
  <2>7. ASSUME NEW i \in 1 .. n + 1, NEW j \in 1 .. n + 1, i < j,
               wire'[i].kind = "change", wire'[j].kind = "change"
        PROVE  wire'[i].final < wire'[j].first
    <3>1. i \in 1 .. n /\ wire'[i] = wire[i]
      BY <1>10, <2>7
    <3>2. CASE j = n + 1
      BY <1>5, <1>6, <1>10, <2>2, <2>7, <3>1, <3>2
    <3>3. CASE j \in 1 .. n
      BY <1>4, <1>9, <1>10, <2>7, <3>1, <3>3 DEF FlightSound
    <3>4. QED
      BY <1>11, <3>2, <3>3
  <2>8. QED
    BY <1>10, <1>14, <2>1, <2>5, <2>6, <2>7 DEF FlightSound
<1>16. OneBookEach'
  <2>1. \A i \in 1 .. n + 1 : wire'[i].kind = "book" => i \in 1 .. n /\ wire'[i] = wire[i]
    BY <1>6, <1>10, <1>11
  <2>2. QED
    BY <1>1, <1>4, <1>9, <1>10, <2>1 DEF OneBookEach
<1>17. SnapshotsBounded'
  BY <1>1, <1>4, <1>14, BoundStays
<1>18. QED
  BY <1>12, <1>13, <1>15, <1>16, <1>17 DEF BookInv

(* What is lost on the way, with its connection or by itself, leaves the   *)
(* rest in order.                                                          *)
LEMMA LossKeeps ==
  ASSUME BookInv, Disconnect \/ RecordFails
  PROVE  BookInv'
<1>1. /\ UNCHANGED << updates, ms, streamed, recorded >>
      /\ UNCHANGED << book, snapMs, buffer, holds, resets >>
      /\ left'.connects = left.connects
  BY DEF Disconnect, RecordFails, bookVars, venueVars, BookInv, TypeOK
<1>2. TypeOK /\ Stamped /\ FlightSound /\ OneBookEach /\ SnapshotsBounded
  BY DEF BookInv
<1>3. /\ wire' \in Seq(Message) /\ pending' \subseteq pending
      /\ DOMAIN wire \subseteq Nat /\ DOMAIN wire' \subseteq Nat
      /\ \A i \in DOMAIN wire' : 1 + i \in DOMAIN wire /\ wire'[i] = wire[1 + i]
  <2>1. CASE Disconnect
    <3>1. wire' = << >> /\ pending' = {}
      BY <2>1 DEF Disconnect
    <3>2. QED
      BY <1>2, <3>1 DEF TypeOK
  <2>2. CASE RecordFails
    <3>1. wire # << >> /\ wire' = Tail(wire) /\ pending' = pending /\ wire \in Seq(Message)
      BY <1>2, <2>2 DEF RecordFails, venueVars, TypeOK
    <3>2. QED
      BY <3>1, TailShifts
  <2>3. QED
    BY <2>1, <2>2
<1>4. TypeOK'
  <2>1. left' \in [connects : 0 .. MaxConnects, faults : 0 .. MaxFaults]
    <3>1. CASE RecordFails
      <4>1. /\ left \in [connects : 0 .. MaxConnects, faults : 0 .. MaxFaults]
            /\ left.faults > 0 /\ left' = [left EXCEPT !.faults = @ - 1]
        BY <1>2, <3>1 DEF RecordFails, TypeOK
      <4>2. left.faults - 1 \in 0 .. MaxFaults
        BY <4>1, PolymarketBookAssumption
      <4>3. QED
        BY <4>1, <4>2
    <3>2. CASE Disconnect
      BY <1>2, <3>2 DEF Disconnect, TypeOK
    <3>3. QED
      BY <3>1, <3>2
  <2>2. up' \in BOOLEAN /\ (~up' => wire' = << >> /\ pending' = {})
    BY <1>2 DEF Disconnect, RecordFails, TypeOK, venueVars
  <2>3. pending' \in SUBSET Message /\ streamed' \in 0 .. MaxUpdates
    BY <1>1, <1>2, <1>3 DEF TypeOK
  <2>4. QED
    BY <1>1, <1>2, <1>3, <2>1, <2>2, <2>3, TypesStay
<1>5. Stamped' /\ BufferSound' /\ HoldsSound' /\ NothingMissed'
  BY <1>1, <1>2, UpdatesTyped, BooksStay DEF Stamped
<1>6. FlightSound' /\ \A b : InFlight(b)' => InFlight(b)
  <2>1. \A b \in Message : InFlight(b) => CoversBuffer(b)'
    BY <1>1, <1>2 DEF FlightSound, CoversBuffer
  <2>2. \A i \in DOMAIN wire' : wire'[i].kind = "change" => Ahead(wire[i])'
    BY <1>1, <1>2, <1>3 DEF FlightSound, Ahead
  <2>3. QED
    BY <1>1, <1>2, <1>3, <2>1, <2>2, FlightThins
<1>7. OneBookEach'
  BY <1>2, <1>3, OneBookThins
<1>8. SnapshotsBounded'
  BY <1>1, <1>2, <1>6, BoundStays
<1>9. QED
  BY <1>4, <1>5, <1>6, <1>7, <1>8 DEF BookInv

-----------------------------------------------------------------------------
(* The message at the head of the wire is read.                            *)
LEMMA HeadRead ==
  ASSUME BookInv, wire # << >>, wire' = Tail(wire), UNCHANGED << venueVars, up, left >>
  PROVE  /\ Head(wire) \in Message /\ 1 \in DOMAIN wire /\ Head(wire) = wire[1]
         /\ UNCHANGED << updates, ms, streamed, pending, up, left >>
         /\ wire' \in Seq(Message) /\ DOMAIN wire \subseteq Nat /\ DOMAIN wire' \subseteq Nat
         /\ \A i \in DOMAIN wire' : 1 + i \in DOMAIN wire /\ 1 + i # 1 /\ wire'[i] = wire[1 + i]
         /\ OneBookEach'
         /\ \A b : InFlight(b)' => InFlight(b)
         /\ up' \in BOOLEAN /\ (~up' => wire' = << >> /\ pending' = {})
         /\ pending' \in SUBSET Message
<1>1. TypeOK /\ OneBookEach /\ wire \in Seq(Message)
  BY DEF BookInv, TypeOK
<1>2. UNCHANGED << updates, ms, streamed, pending, up, left >>
  BY DEF venueVars
<1>3. /\ wire' \in Seq(Message) /\ Head(wire) = wire[1] /\ 1 \in DOMAIN wire
      /\ DOMAIN wire \subseteq Nat /\ DOMAIN wire' \subseteq Nat
      /\ \A i \in DOMAIN wire' : 1 + i \in DOMAIN wire /\ 1 + i # 1 /\ wire'[i] = wire[1 + i]
  BY <1>1, TailShifts
<1>4. wire[1] \in Message
  BY <1>1, <1>3, ElementOfSeq
<1>5. OneBookEach'
  BY <1>1, <1>2, <1>3, OneBookThins
<1>6. \A b : InFlight(b)' => InFlight(b)
  BY <1>2, <1>3 DEF InFlight, OnWire
<1>7. up
  BY <1>1 DEF TypeOK
<1>8. QED
  BY <1>1, <1>2, <1>3, <1>4, <1>5, <1>6, <1>7 DEF TypeOK

(* A book takes its own size from what set it.                             *)
LEMMA BookTyped ==
  ASSUME TypeOK, NEW H, H \subseteq 1 .. LastUpdate
  PROVE  BookOf(H) \in [Level -> 0 .. MaxSize]
<1>1. PICK n \in Nat : n = LastUpdate /\ n = Len(updates)
  BY DEF TypeOK, LastUpdate
<1>2. PICK R : R = [asset : Asset, level : Level, size : 0 .. MaxSize, ms : 0 .. MaxMs]
  OBVIOUS
<1>3. updates \in Seq(R)
  BY <1>2 DEF TypeOK
<1>4. \A k \in 1 .. n : updates[k] \in R
  BY <1>1, <1>3, ElementOfSeq
<1>5. ASSUME NEW l \in Level
      PROVE  (IF {k \in H : updates[k].level = l} = {} THEN 0
              ELSE updates[Max({k \in H : updates[k].level = l})].size) \in 0 .. MaxSize
  <2>1. CASE {k \in H : updates[k].level = l} = {}
    BY <2>1, PolymarketBookAssumption
  <2>2. CASE {k \in H : updates[k].level = l} # {}
    <3>1. {k \in H : updates[k].level = l} \in SUBSET (1 .. n)
      BY <1>1
    <3>2. Max({k \in H : updates[k].level = l}) \in 1 .. n
      BY <2>2, <3>1, MaxIsIn
    <3>3. updates[Max({k \in H : updates[k].level = l})].size \in 0 .. MaxSize
      BY <1>2, <1>4, <3>2
    <3>4. QED
      BY <2>2, <3>3
  <2>3. QED
    BY <2>1, <2>2
<1>6. QED
  BY <1>5 DEF BookOf

(* A snapshot is applied: it holds what it was taken behind, and of the    *)
(* buffer what has a later stamp, all of it later.                         *)
LEMMA ReadBookKeeps ==
  ASSUME BookInv, wire # << >>, wire' = Tail(wire), UNCHANGED << venueVars, up, left >>,
         Head(wire).kind = "book", ApplyBook(Head(wire)), recorded' = recorded
  PROVE  BookInv'
<1>1. PICK b \in Message : b = Head(wire) /\ b = wire[1] /\ b.kind = "book"
  BY HeadRead
<1>2. PICK a \in Asset : a = b.asset
  BY <1>1, MessageIs
<1>3. TypeOK /\ Stamped /\ FlightSound /\ BufferSound /\ HoldsSound /\ NothingMissed
      /\ OneBookEach /\ SnapshotsBounded
  BY DEF BookInv
<1>4. /\ 1 \in DOMAIN wire
      /\ UNCHANGED << updates, ms, streamed, pending, up, left >>
      /\ wire' \in Seq(Message) /\ DOMAIN wire \subseteq Nat /\ DOMAIN wire' \subseteq Nat
      /\ \A i \in DOMAIN wire' : 1 + i \in DOMAIN wire /\ 1 + i # 1 /\ wire'[i] = wire[1 + i]
      /\ OneBookEach' /\ \A c : InFlight(c)' => InFlight(c)
      /\ up' \in BOOLEAN /\ (~up' => wire' = << >> /\ pending' = {})
      /\ pending' \in SUBSET Message
  BY HeadRead
<1>5. InFlight(b) /\ TakenBetween(b) /\ CoversBuffer(b)
  <2>1. InFlight(b)
    BY <1>1, <1>4 DEF InFlight, OnWire
  <2>2. QED
    BY <1>3, <2>1 DEF FlightSound
<1>6. b.at \in Nat /\ b.ms \in 0 .. MaxMs /\ b.ms \in Nat
  BY <1>1, MessageIs
<1>7. PICK replay : replay = After(buffer[a], b.ms)
  OBVIOUS
<1>8. /\ book' = [book EXCEPT ![a] = ApplyItems(BookAt(a, b.at), replay)]
      /\ snapMs' = [snapMs EXCEPT ![a] = b.ms]
      /\ buffer' = [buffer EXCEPT ![a] = << >>]
      /\ holds' = [holds EXCEPT ![a] = Of(a, b.at) \union UpdatesIn(replay)]
      /\ resets' = [resets EXCEPT ![a] = @ + 1]
  BY <1>1, <1>2, <1>7 DEF ApplyBook
<1>9. /\ LastUpdate \in Nat /\ DOMAIN updates = 1 .. LastUpdate /\ streamed \in Nat /\ ms \in Nat
      /\ \A k \in 1 .. LastUpdate : updates[k].ms \in Nat
      /\ LastUpdate' = LastUpdate
  BY <1>3, <1>4, UpdatesTyped DEF LastUpdate
<1>10. b.at <= streamed /\ streamed <= LastUpdate /\ LastUpdate <= MaxUpdates
  BY <1>3, <1>5 DEF TakenBetween, Stamped
<1>11. PICK P : P = PendingItem
  OBVIOUS
<1>12. buffer \in [Asset -> Seq(P)]
  BY <1>3, <1>11 DEF TypeOK, PendingItem
<1>13. /\ replay \in Seq(PendingItem)
       /\ \A n \in DOMAIN replay : \E i \in DOMAIN buffer[a] :
            buffer[a][i].ms > b.ms /\ replay[n] = buffer[a][i]
       /\ \A i \in DOMAIN buffer[a] : buffer[a][i].ms > b.ms =>
            \E n \in DOMAIN replay : replay[n] = buffer[a][i]
       /\ Rising(replay)
  <2>1. buffer[a] \in Seq(PendingItem) /\ b.ms \in Int /\ Rising(buffer[a])
    BY <1>3, <1>6, <1>11, <1>12 DEF BufferSound
  <2>2. QED
    BY <1>7, <2>1, AfterIsPart
<1>14. \A i \in DOMAIN buffer[a] :
         /\ buffer[a][i].update \in Of(a, streamed) /\ buffer[a][i].update \in 1 .. LastUpdate
         /\ buffer[a][i].update \in Nat /\ buffer[a][i].ms \in Nat
         /\ buffer[a][i].ms > b.ms => b.at < buffer[a][i].update
  <2>1. TAKE i \in DOMAIN buffer[a]
  <2>2. buffer[a][i].update \in Of(a, streamed)
    BY <1>3 DEF BufferSound
  <2>3. buffer[a][i].update \in 1 .. LastUpdate
    BY <1>9, <1>10, <2>2 DEF Of
  <2>4. buffer[a][i] \in P
    BY <1>12, ElementOfSeq
  <2>5. buffer[a][i].ms \in Nat
    BY <1>11, <2>4, PolymarketBookAssumption DEF PendingItem
  <2>6. buffer[a][i].update <= b.at => buffer[a][i].ms <= b.ms
    BY <1>5 DEF CoversBuffer
  <2>7. QED
    BY <1>6, <2>2, <2>3, <2>5, <2>6
<1>15. /\ \A n \in DOMAIN replay : replay[n].update \in Of(a, streamed)
                                   /\ replay[n].update \in 1 .. LastUpdate
                                   /\ b.at < replay[n].update
       /\ UpdatesIn(replay) \subseteq Of(a, streamed)
  <2>1. \A n \in DOMAIN replay : replay[n].update \in Of(a, streamed)
                                   /\ replay[n].update \in 1 .. LastUpdate
                                   /\ b.at < replay[n].update
    BY <1>13, <1>14
  <2>2. QED
    BY <2>1 DEF UpdatesIn
<1>16. PICK N : N = Of(a, b.at) \union UpdatesIn(replay)
  OBVIOUS
<1>17. N \subseteq Of(a, streamed) /\ N \subseteq 1 .. LastUpdate
  <2>1. Of(a, b.at) \subseteq Of(a, streamed) /\ Of(a, streamed) \subseteq 1 .. LastUpdate
    BY <1>6, <1>9, <1>10 DEF Of
  <2>2. QED
    BY <1>15, <1>16, <2>1
<1>18. ApplyItems(BookAt(a, b.at), replay) = BookOf(N)
  <2>1. BookAt(a, b.at) = BookOf(Of(a, b.at))
    BY DEF BookAt, BookOf
  <2>2. Of(a, b.at) \in SUBSET (1 .. LastUpdate)
    BY <1>6, <1>9, <1>10 DEF Of
  <2>3. \A k \in Of(a, b.at) : \A n \in DOMAIN replay : k < replay[n].update
    <3>1. TAKE k \in Of(a, b.at)
    <3>2. k \in Nat /\ k <= b.at
      BY <1>6 DEF Of
    <3>3. TAKE n \in DOMAIN replay
    <3>4. replay[n].update \in 1 .. LastUpdate /\ b.at < replay[n].update
      BY <1>15
    <3>5. QED
      BY <1>6, <1>9, <3>2, <3>4
  <2>4. QED
    BY <1>9, <1>13, <1>15, <1>16, <2>1, <2>2, <2>3, AppliedIsLatest
<1>19. /\ \A x \in Asset : x # a => book'[x] = book[x] /\ snapMs'[x] = snapMs[x]
              /\ buffer'[x] = buffer[x] /\ holds'[x] = holds[x] /\ resets'[x] = resets[x]
       /\ book'[a] = BookOf(N) /\ snapMs'[a] = b.ms /\ buffer'[a] = << >>
       /\ holds'[a] = N /\ resets'[a] = resets[a] + 1
  BY <1>3, <1>8, <1>16, <1>18 DEF TypeOK
<1>20. \A x : Of(x, streamed)' = Of(x, streamed) /\ RecordedOf(x)' = RecordedOf(x)
              /\ BookOf(holds[x])' = BookOf(holds'[x])
  <2>1. updates' = updates /\ streamed' = streamed /\ LastUpdate' = LastUpdate
        /\ recorded' = recorded
    BY <1>4, <1>9
  <2>2. \A x : BookOf(holds[x])' = BookOf(holds'[x])
    BY <2>1 DEF BookOf
  <2>3. QED
    BY <2>1, <2>2 DEF Of, RecordedOf
<1>21. resets[a] + left.connects + 1 <= MaxConnects /\ resets[a] \in Nat /\ left.connects \in Nat
  <2>1. BookComing(a)
    BY <1>2, <1>5 DEF BookComing
  <2>2. resets[a] \in Nat /\ left.connects \in Nat
    BY <1>3, PolymarketBookAssumption DEF TypeOK
  <2>3. QED
    BY <1>3, <2>1, <2>2 DEF SnapshotsBounded
<1>22. TypeOK'
  <2>1. /\ updates' \in Seq([asset : Asset, level : Level, size : 0 .. MaxSize, ms : 0 .. MaxMs])
        /\ ms' \in 0 .. MaxMs /\ streamed' \in 0 .. MaxUpdates /\ recorded' \in SUBSET Id
        /\ left' \in [connects : 0 .. MaxConnects, faults : 0 .. MaxFaults]
    BY <1>3, <1>4 DEF TypeOK
  <2>2. book' \in [Asset -> [Level -> 0 .. MaxSize]]
    <3>1. BookOf(N) \in [Level -> 0 .. MaxSize]
      BY <1>3, <1>17, BookTyped
    <3>2. QED
      BY <1>3, <1>8, <1>18, <3>1 DEF TypeOK
  <2>3. snapMs' \in [Asset -> {None} \union 0 .. MaxMs]
    BY <1>3, <1>6, <1>8 DEF TypeOK
  <2>4. buffer' \in [Asset -> Seq(P)]
    BY <1>8, <1>12
  <2>5. \A x \in Asset : Len(buffer'[x]) <= (IF Live(x)' THEN 0 ELSE MaxBuffer)
    <3>1. TAKE x \in Asset
    <3>2. CASE x = a
      BY <1>6, <1>19, <3>2, PolymarketBookAssumption
    <3>3. CASE x # a
      BY <1>3, <1>19, <3>3 DEF TypeOK, Live
    <3>4. QED
      BY <3>2, <3>3
  <2>6. holds' \in [Asset -> SUBSET Id]
    <3>1. N \in SUBSET Id
      BY <1>9, <1>10, <1>17, PolymarketBookAssumption DEF Id
    <3>2. QED
      BY <1>3, <1>8, <1>16, <3>1 DEF TypeOK
  <2>7. resets' \in [Asset -> 0 .. MaxConnects]
    <3>1. resets[a] + 1 \in 0 .. MaxConnects
      BY <1>21, PolymarketBookAssumption
    <3>2. QED
      BY <1>3, <1>8, <3>1 DEF TypeOK
  <2>8. QED
    BY <1>4, <1>11, <2>1, <2>2, <2>3, <2>4, <2>5, <2>6, <2>7 DEF TypeOK, PendingItem
<1>23. Stamped'
  BY <1>3, <1>4, <1>9 DEF Stamped
<1>24. FlightSound'
  <2>1. \A c \in Message : InFlight(c) => CoversBuffer(c)'
    <3>1. SUFFICES ASSUME NEW c \in Message, InFlight(c), NEW x \in Asset,
                          NEW i \in DOMAIN buffer'[x], buffer'[x][i].update <= c.at
                   PROVE  buffer'[x][i].ms <= c.ms
      BY DEF CoversBuffer
    <3>2. x # a
      BY <1>19
    <3>3. QED
      BY <1>3, <1>19, <3>1, <3>2 DEF FlightSound, CoversBuffer
  <2>2. \A i \in DOMAIN wire' : wire'[i].kind = "change" => Ahead(wire[i])'
    <3>1. SUFFICES ASSUME NEW i \in DOMAIN wire', wire'[i].kind = "change" PROVE Ahead(wire[i])'
      OBVIOUS
    <3>2. PICK c \in Message : c = wire'[i] /\ c = wire[1 + i] /\ c.first \in Nat
      BY <1>4, <3>1, ElementOfSeq, MessageIs
    <3>3. Ahead(c) /\ b.at < c.first
      BY <1>3, <1>4, <1>5, <3>1, <3>2 DEF FlightSound
    <3>4. ASSUME NEW k \in N PROVE k < c.first
      <4>1. CASE k \in Of(a, b.at)
        BY <1>6, <3>2, <3>3, <4>1 DEF Of
      <4>2. CASE k \in UpdatesIn(replay)
        BY <1>13, <3>3, <4>2 DEF UpdatesIn, Ahead
      <4>3. QED
        BY <1>16, <4>1, <4>2
    <3>5. ASSUME NEW x \in Asset
          PROVE  /\ \A k \in holds'[x] : k < c.first
                 /\ \A j \in DOMAIN buffer'[x] : buffer'[x][j].update < c.first
      <4>1. CASE x = a
        BY <1>19, <3>4, <4>1
      <4>2. CASE x # a
        BY <1>19, <3>3, <4>2 DEF Ahead
      <4>3. QED
        BY <4>1, <4>2
    <3>6. QED
      BY <3>2, <3>5 DEF Ahead
  <2>3. QED
    BY <1>3, <1>4, <2>1, <2>2, FlightThins
<1>25. BufferSound'
  <2>1. SUFFICES ASSUME NEW x \in Asset
                 PROVE  /\ \A i \in DOMAIN buffer'[x] :
                             /\ buffer'[x][i].update \in Of(x, streamed) \intersect recorded
                             /\ updates[buffer'[x][i].update].ms <= buffer'[x][i].ms
                             /\ buffer'[x][i].ms <= ms
                        /\ Rising(buffer'[x])
    BY <1>4, <1>20 DEF BufferSound, Rising
  <2>2. CASE x = a
    BY <1>19, <2>2 DEF Rising
  <2>3. CASE x # a
    BY <1>3, <1>19, <2>3 DEF BufferSound
  <2>4. QED
    BY <2>2, <2>3
<1>26. HoldsSound'
  <2>1. SUFFICES ASSUME NEW x \in Asset
                 PROVE  holds'[x] \subseteq Of(x, streamed)
                        /\ (Live(x)' => book'[x] = BookOf(holds'[x]))
    BY <1>20 DEF HoldsSound
  <2>2. CASE x = a
    BY <1>17, <1>19, <2>2
  <2>3. CASE x # a
    BY <1>3, <1>19, <2>3 DEF HoldsSound, Live
  <2>4. QED
    BY <2>2, <2>3
<1>27. NothingMissed'
  <2>1. \A x, k : PushedOut(x, k)' = PushedOut(x, k)
    BY <1>20 DEF PushedOut
  <2>2. ASSUME NEW x \in Asset, x # a
        PROVE  /\ resets'[x] = 0 <=> ~Live(x)'
               /\ \A k \in RecordedOf(x) :
                    /\ resets'[x] = 0 => k \in UpdatesIn(buffer[x])' \/ PushedOut(x, k)
                    /\ resets'[x] = 1 /\ k \notin holds'[x] =>
                         updates'[k].ms = snapMs'[x] \/ PushedOut(x, k)
    BY <1>3, <1>4, <1>19, <2>2 DEF NothingMissed, Live, UpdatesIn
  <2>3. resets'[a] # 0 /\ Live(a)'
    BY <1>6, <1>19, <1>21 DEF Live, None
  <2>4. ASSUME NEW k \in RecordedOf(a), resets'[a] = 1, k \notin N
        PROVE  updates[k].ms = b.ms \/ PushedOut(a, k)
    <3>1. resets[a] = 0
      BY <1>19, <1>21, <2>4
    <3>2. k \in UpdatesIn(buffer[a]) \/ PushedOut(a, k)
      BY <1>3, <3>1 DEF NothingMissed
    <3>3. k \in 1 .. LastUpdate /\ k \in Of(a, LastUpdate)
      BY DEF RecordedOf, Of
    <3>4. b.at < k
      BY <1>6, <1>9, <1>16, <2>4, <3>3 DEF Of
    <3>5. updates[k].ms >= b.ms
      BY <1>5, <1>6, <1>9, <3>3, <3>4 DEF TakenBetween
    <3>6. ASSUME k \in UpdatesIn(buffer[a]) PROVE updates[k].ms <= b.ms
      <4>1. PICK i \in DOMAIN buffer[a] : k = buffer[a][i].update
        BY <3>6 DEF UpdatesIn
      <4>2. ~(buffer[a][i].ms > b.ms)
        BY <1>13, <1>16, <2>4, <4>1 DEF UpdatesIn
      <4>3. updates[k].ms <= buffer[a][i].ms
        BY <1>3, <4>1 DEF BufferSound
      <4>4. QED
        BY <1>6, <1>9, <1>14, <3>3, <4>2, <4>3
    <3>7. QED
      BY <1>6, <1>9, <3>2, <3>3, <3>5, <3>6
  <2>5. SUFFICES ASSUME NEW x \in Asset
                 PROVE  /\ resets'[x] = 0 <=> ~Live(x)'
                        /\ \A k \in RecordedOf(x) :
                             /\ resets'[x] = 0 => k \in UpdatesIn(buffer[x])' \/ PushedOut(x, k)
                             /\ resets'[x] = 1 /\ k \notin holds'[x] =>
                                  updates'[k].ms = snapMs'[x] \/ PushedOut(x, k)
    BY <1>20, <2>1 DEF NothingMissed
  <2>6. QED
    BY <1>4, <1>19, <2>2, <2>3, <2>4
<1>28. SnapshotsBounded'
  <2>1. ASSUME NEW x \in Asset
        PROVE  resets'[x] + left'.connects + (IF BookComing(x)' THEN 1 ELSE 0) <= MaxConnects
    <3>1. \A y : BookComing(y)' => BookComing(y)
      BY <1>4 DEF BookComing, Message, Id
    <3>2. CASE x # a
      <4>1. resets[x] \in Nat
        BY <1>3, PolymarketBookAssumption DEF TypeOK
      <4>2. resets[x] + left.connects + (IF BookComing(x) THEN 1 ELSE 0) <= MaxConnects
        BY <1>3 DEF SnapshotsBounded
      <4>3. resets'[x] = resets[x] /\ left' = left
        BY <1>4, <1>19, <3>2
      <4>4. QED
        BY <1>21, <3>1, <4>1, <4>2, <4>3, PolymarketBookAssumption
    <3>3. CASE x = a
      <4>1. ~BookComing(a)'
        <5>1. SUFFICES ASSUME NEW c, InFlight(c)', c.asset = a PROVE FALSE
          BY DEF BookComing
        <5>2. c.kind = "book" /\ (c \in pending \/ \E i \in DOMAIN wire : i # 1 /\ c = wire[i])
          BY <1>4, <5>1 DEF InFlight, OnWire
        <5>3. QED
          BY <1>1, <1>2, <1>3, <1>4, <5>1, <5>2 DEF OneBookEach
      <4>2. QED
        BY <1>4, <1>19, <1>21, <3>3, <4>1
    <3>4. QED
      BY <3>2, <3>3
  <2>2. QED
    BY <2>1 DEF SnapshotsBounded
<1>29. QED
  BY <1>4, <1>22, <1>23, <1>24, <1>25, <1>26, <1>27, <1>28 DEF BookInv

(* A change is applied: item by item, to a live book or to the buffer in   *)
(* front of the first snapshot.                                            *)
LEMMA ReadChangeKeeps ==
  ASSUME BookInv, wire # << >>, wire' = Tail(wire), UNCHANGED << venueVars, up, left >>,
         Head(wire).kind = "change", ApplyChange(Head(wire)),
         recorded' = recorded \union (Head(wire).first .. Head(wire).final)
  PROVE  BookInv'
<1>1. PICK c \in Message : c = Head(wire) /\ c = wire[1] /\ c.kind = "change"
  BY HeadRead
<1>2. TypeOK /\ Stamped /\ FlightSound /\ BufferSound /\ HoldsSound /\ NothingMissed
      /\ OneBookEach /\ SnapshotsBounded
  BY DEF BookInv
<1>3. /\ 1 \in DOMAIN wire
      /\ UNCHANGED << updates, ms, streamed, pending, up, left >>
      /\ wire' \in Seq(Message) /\ DOMAIN wire \subseteq Nat /\ DOMAIN wire' \subseteq Nat
      /\ \A i \in DOMAIN wire' : 1 + i \in DOMAIN wire /\ 1 + i # 1 /\ wire'[i] = wire[1 + i]
      /\ OneBookEach' /\ \A b : InFlight(b)' => InFlight(b)
      /\ up' \in BOOLEAN /\ (~up' => wire' = << >> /\ pending' = {})
      /\ pending' \in SUBSET Message
  BY HeadRead
<1>4. /\ c.first \in Id /\ c.final \in Id /\ c.ms \in 0 .. MaxMs /\ c.first \in Nat /\ c.final \in Nat
      /\ c.ms \in Nat
  BY <1>1, MessageIs, PolymarketBookAssumption
<1>5. Sent(c) /\ Ahead(c)
  BY <1>1, <1>2, <1>3 DEF FlightSound
<1>6. /\ LastUpdate \in Nat /\ DOMAIN updates = 1 .. LastUpdate /\ streamed \in Nat /\ ms \in Nat
      /\ \A k \in 1 .. LastUpdate : updates[k].ms \in Nat
      /\ LastUpdate' = LastUpdate
  BY <1>2, <1>3, UpdatesTyped DEF LastUpdate
<1>7. c.first <= c.final /\ c.final <= streamed /\ c.ms = updates[c.final].ms /\ 1 <= c.first
      /\ streamed <= LastUpdate /\ LastUpdate <= MaxUpdates
  BY <1>2, <1>4, <1>5 DEF Sent, Stamped, Id
<1>8. c.first .. c.final \subseteq 1 .. streamed /\ c.first .. c.final \subseteq 1 .. LastUpdate
  BY <1>4, <1>6, <1>7
<1>9. \A a : /\ Pending(c, a) \in Seq(PendingItem)
             /\ \A i \in DOMAIN Pending(c, a) :
                  Pending(c, a)[i].ms = c.ms /\ Pending(c, a)[i].update \in ItemsOf(c, a)
             /\ Rising(Pending(c, a))
             /\ UpdatesIn(Pending(c, a)) = ItemsOf(c, a)
  BY <1>4, PendingIsChange
<1>10. \A a : /\ ItemsOf(c, a) \subseteq c.first .. c.final
              /\ ItemsOf(c, a) \subseteq Of(a, streamed) /\ ItemsOf(c, a) \subseteq Of(a, LastUpdate)
              /\ ItemsOf(c, a) = Of(a, LastUpdate) \intersect (c.first .. c.final)
  BY <1>8 DEF ItemsOf, Of
<1>11. /\ book' = [a \in Asset |-> IF Live(a) THEN ApplyItems(book[a], Pending(c, a)) ELSE book[a]]
       /\ holds' = [a \in Asset |-> IF Live(a) THEN holds[a] \union ItemsOf(c, a) ELSE holds[a]]
       /\ buffer' = [a \in Asset |-> IF Live(a) THEN buffer[a]
                                     ELSE BufferedItems(buffer[a] \o Pending(c, a))]
       /\ snapMs' = snapMs /\ resets' = resets
       /\ recorded' = recorded \union (c.first .. c.final)
  BY <1>1 DEF ApplyChange
<1>12. \A a : /\ Live(a)' = Live(a) /\ Of(a, streamed)' = Of(a, streamed)
              /\ RecordedOf(a)' = RecordedOf(a) \union ItemsOf(c, a)
              /\ RecordedOf(a) \subseteq 1 .. LastUpdate /\ ItemsOf(c, a) \subseteq 1 .. LastUpdate
              /\ BookOf(holds[a])' = BookOf(holds'[a])
  <2>1. updates' = updates /\ streamed' = streamed /\ LastUpdate' = LastUpdate
    BY <1>3, <1>6
  <2>2. \A a : Live(a)' = Live(a)
    BY <1>11 DEF Live
  <2>3. \A a : BookOf(holds[a])' = BookOf(holds'[a])
    BY <2>1 DEF BookOf
  <2>4. \A a : RecordedOf(a)' = RecordedOf(a) \union ItemsOf(c, a)
    <3>1. \A a : RecordedOf(a)' = Of(a, LastUpdate) \intersect recorded'
      BY <2>1 DEF RecordedOf, Of
    <3>2. QED
      BY <1>10, <1>11, <3>1 DEF RecordedOf
  <2>5. QED
    BY <1>8, <1>10, <2>1, <2>2, <2>3, <2>4 DEF RecordedOf, Of
<1>13. \A i \in DOMAIN wire : i # 1 /\ wire[i].kind = "change" => c.final < wire[i].first
  BY <1>1, <1>2, <1>3 DEF FlightSound
<1>14. PICK P : P = PendingItem
  OBVIOUS
<1>15. buffer \in [Asset -> Seq(P)]
  BY <1>2, <1>14 DEF TypeOK, PendingItem
(* The buffers of the books that are not live.                             *)
<1>16. ASSUME NEW a \in Asset, ~Live(a)
       PROVE  \E off \in Nat, old \in Nat :
                /\ buffer'[a] \in Seq(P) /\ Len(buffer'[a]) <= MaxBuffer
                /\ old = Len(buffer[a]) /\ old + Len(Pending(c, a)) = off + Len(buffer'[a])
                /\ off > 0 => Len(buffer'[a]) = MaxBuffer
                /\ \A i \in DOMAIN buffer'[a] :
                     /\ off + i <= old => off + i \in DOMAIN buffer[a]
                                          /\ buffer'[a][i] = buffer[a][off + i]
                     /\ off + i > old => off + i - old \in DOMAIN Pending(c, a)
                                         /\ buffer'[a][i] = Pending(c, a)[off + i - old]
  <2>1. PICK p \in Seq(P) : p = Pending(c, a)
    BY <1>9, <1>14
  <2>2. PICK q \in Seq(P) : q = buffer[a]
    BY <1>15
  <2>3. /\ q \o p \in Seq(P) /\ Len(q \o p) = Len(q) + Len(p)
        /\ \A i \in 1 .. Len(q) + Len(p) :
             (q \o p)[i] = IF i <= Len(q) THEN q[i] ELSE p[i - Len(q)]
    BY ConcatProperties
  <2>4. buffer'[a] = BufferedItems(q \o p)
    BY <1>11, <1>16, <2>1, <2>2
  <2>5. PICK off \in Nat :
          /\ buffer'[a] \in Seq(P) /\ Len(buffer'[a]) <= MaxBuffer
          /\ Len(q \o p) = off + Len(buffer'[a])
          /\ \A i \in DOMAIN buffer'[a] :
               off + i \in DOMAIN (q \o p) /\ buffer'[a][i] = (q \o p)[off + i]
          /\ off > 0 => Len(buffer'[a]) = MaxBuffer
    BY <1>14, <2>3, <2>4, BufferedAreLast
  <2>6. PICK old \in Nat, new \in Nat : old = Len(q) /\ new = Len(p)
                                       /\ DOMAIN q = 1 .. old /\ DOMAIN p = 1 .. new
    BY <2>1, <2>2
  <2>7. DOMAIN (q \o p) = 1 .. old + new
    BY <2>3, <2>6
  <2>8. ASSUME NEW i \in DOMAIN buffer'[a]
        PROVE  /\ off + i <= old => off + i \in DOMAIN q /\ buffer'[a][i] = q[off + i]
               /\ off + i > old => off + i - old \in DOMAIN p /\ buffer'[a][i] = p[off + i - old]
    <3>1. off + i \in 1 .. old + new /\ buffer'[a][i] = (q \o p)[off + i]
      BY <2>5, <2>7
    <3>2. PICK j \in 1 .. old + new : j = off + i
      BY <3>1
    <3>3. (q \o p)[j] = IF j <= old THEN q[j] ELSE p[j - old]
      BY <2>3, <2>6
    <3>4. buffer'[a][i] = IF j <= old THEN q[j] ELSE p[j - old]
      BY <3>1, <3>2, <3>3
    <3>5. j <= old => j \in 1 .. old
      BY <2>6
    <3>6. j > old => j - old \in 1 .. new /\ ~(j <= old)
      BY <2>6
    <3>7. /\ j <= old => j \in DOMAIN q /\ buffer'[a][i] = q[j]
          /\ j > old => j - old \in DOMAIN p /\ buffer'[a][i] = p[j - old]
      BY <2>6, <3>4, <3>5, <3>6
    <3>8. off + i = j /\ off + i - old = j - old
      <4>1. PICK len \in Nat : DOMAIN buffer'[a] = 1 .. len
        BY <2>5
      <4>2. i \in 1 .. len
        BY <4>1
      <4>3. QED
        BY <3>2, <4>2
    <3>9. QED
      BY <3>7, <3>8
  <2>9. old = Len(buffer[a]) /\ old + Len(Pending(c, a)) = off + Len(buffer'[a])
    BY <2>1, <2>2, <2>3, <2>5, <2>6
  <2>10. \A i \in DOMAIN buffer'[a] :
           /\ off + i <= old => off + i \in DOMAIN buffer[a] /\ buffer'[a][i] = buffer[a][off + i]
           /\ off + i > old => off + i - old \in DOMAIN Pending(c, a)
                               /\ buffer'[a][i] = Pending(c, a)[off + i - old]
    BY <2>1, <2>2, <2>8
  <2>11. QED
    BY <2>5, <2>6, <2>9, <2>10
<1>17. ASSUME NEW a \in Asset, NEW i \in DOMAIN buffer[a]
       PROVE  /\ buffer[a][i].update \in Of(a, streamed) \intersect recorded
              /\ buffer[a][i].update \in 1 .. LastUpdate /\ buffer[a][i].update < c.first
              /\ updates[buffer[a][i].update].ms <= buffer[a][i].ms /\ buffer[a][i].ms <= ms
              /\ buffer[a][i].ms \in Nat
  <2>1. buffer[a][i].update \in Of(a, streamed) \intersect recorded
    BY <1>2, <1>17 DEF BufferSound
  <2>2. buffer[a][i].update \in 1 .. LastUpdate
    BY <1>6, <1>7, <2>1 DEF Of
  <2>3. buffer[a][i] \in P
    BY <1>15, <1>17, ElementOfSeq
  <2>4. buffer[a][i].ms \in Nat
    BY <1>14, <2>3, PolymarketBookAssumption DEF PendingItem
  <2>5. QED
    BY <1>2, <1>5, <1>17, <2>1, <2>2, <2>4 DEF BufferSound, Ahead
<1>18. ASSUME NEW a \in Asset, NEW i \in DOMAIN Pending(c, a)
       PROVE  /\ Pending(c, a)[i].ms = c.ms
              /\ Pending(c, a)[i].update \in c.first .. c.final
              /\ Pending(c, a)[i].update \in Of(a, streamed) \intersect recorded'
              /\ updates[Pending(c, a)[i].update].ms <= c.ms /\ c.ms <= ms
  <2>1. Pending(c, a)[i].ms = c.ms /\ Pending(c, a)[i].update \in ItemsOf(c, a)
    BY <1>9, <1>18
  <2>2. PICK k \in c.first .. c.final : k = Pending(c, a)[i].update
    BY <1>10, <2>1
  <2>3. k \in 1 .. LastUpdate /\ c.final \in 1 .. LastUpdate /\ k <= c.final
    BY <1>4, <1>6, <1>7, <1>8, <2>2
  <2>4. updates[k].ms <= updates[c.final].ms /\ updates[c.final].ms <= ms
    BY <1>2, <1>6, <2>3 DEF Stamped
  <2>5. QED
    BY <1>7, <1>10, <1>11, <2>1, <2>2, <2>4
<1>19. ASSUME NEW a \in Asset, NEW i \in DOMAIN buffer'[a]
       PROVE  \/ \E j \in DOMAIN buffer[a] : buffer'[a][i] = buffer[a][j]
              \/ \E j \in DOMAIN Pending(c, a) : buffer'[a][i] = Pending(c, a)[j]
  <2>1. CASE Live(a)
    BY <1>11, <1>19, <2>1
  <2>2. CASE ~Live(a)
    <3>1. PICK off \in Nat, old \in Nat :
             /\ off + i <= old => off + i \in DOMAIN buffer[a] /\ buffer'[a][i] = buffer[a][off + i]
             /\ off + i > old => off + i - old \in DOMAIN Pending(c, a)
                                 /\ buffer'[a][i] = Pending(c, a)[off + i - old]
      BY <1>16, <1>19, <2>2
    <3>2. PICK len \in Nat : DOMAIN buffer'[a] = 1 .. len
      BY <1>16, <2>2
    <3>3. off + i <= old \/ off + i > old
      BY <1>19, <3>2
    <3>4. QED
      BY <3>1, <3>3
  <2>3. QED
    BY <2>1, <2>2
<1>20. TypeOK'
  <2>1. /\ updates' \in Seq([asset : Asset, level : Level, size : 0 .. MaxSize, ms : 0 .. MaxMs])
        /\ ms' \in 0 .. MaxMs /\ streamed' \in 0 .. MaxUpdates
        /\ left' \in [connects : 0 .. MaxConnects, faults : 0 .. MaxFaults]
        /\ snapMs' \in [Asset -> {None} \union 0 .. MaxMs]
        /\ resets' \in [Asset -> 0 .. MaxConnects]
    BY <1>2, <1>3, <1>11 DEF TypeOK
  <2>2. 1 .. LastUpdate \subseteq Id
    BY <1>6, <1>7, PolymarketBookAssumption DEF Id
  <2>3. recorded' \in SUBSET Id
    BY <1>2, <1>8, <1>11, <2>2 DEF TypeOK
  <2>4. holds' \in [Asset -> SUBSET Id]
    <3>1. ASSUME NEW a \in Asset
          PROVE  (IF Live(a) THEN holds[a] \union ItemsOf(c, a) ELSE holds[a]) \in SUBSET Id
      BY <1>2, <1>12, <2>2 DEF TypeOK
    <3>2. QED
      BY <1>11, <3>1
  <2>5. buffer' \in [Asset -> Seq(P)]
    <3>1. ASSUME NEW a \in Asset PROVE buffer'[a] \in Seq(P)
      BY <1>11, <1>15, <1>16
    <3>2. buffer' = [a \in Asset |-> buffer'[a]]
      BY <1>11
    <3>3. QED
      BY <3>1, <3>2
  <2>6. \A a \in Asset : Len(buffer'[a]) <= (IF Live(a)' THEN 0 ELSE MaxBuffer)
    <3>1. TAKE a \in Asset
    <3>2. CASE Live(a)
      BY <1>2, <1>11, <1>12, <3>2 DEF TypeOK
    <3>3. CASE ~Live(a)
      BY <1>12, <1>16, <3>3
    <3>4. QED
      BY <3>2, <3>3
  <2>7. book' \in [Asset -> [Level -> 0 .. MaxSize]]
    <3>1. ASSUME NEW a \in Asset PROVE book'[a] \in [Level -> 0 .. MaxSize]
      <4>1. CASE Live(a)
        <5>1. book'[a] = ApplyItems(book[a], Pending(c, a))
          BY <1>11, <4>1
        <5>2. ASSUME NEW l \in Level PROVE ApplyItems(book[a], Pending(c, a))[l] \in 0 .. MaxSize
          <6>1. PICK s : s = {i \in DOMAIN Pending(c, a) : updates[Pending(c, a)[i].update].level = l}
            OBVIOUS
          <6>2. ApplyItems(book[a], Pending(c, a))[l]
                  = IF s = {} THEN book[a][l] ELSE updates[Pending(c, a)[Max(s)].update].size
            BY <6>1, Zenon DEF ApplyItems
          <6>3. CASE s = {}
            BY <1>2, <6>2, <6>3 DEF TypeOK
          <6>4. CASE s # {}
            <7>1. PICK len \in Nat : DOMAIN Pending(c, a) = 1 .. len
              BY <1>9
            <7>2. s \in SUBSET (1 .. len)
              BY <6>1, <7>1
            <7>3. Max(s) \in DOMAIN Pending(c, a)
              BY <6>4, <7>1, <7>2, MaxIsIn
            <7>4. Pending(c, a)[Max(s)].update \in 1 .. LastUpdate
              BY <1>8, <1>18, <7>3
            <7>5. PICK R : R = [asset : Asset, level : Level, size : 0 .. MaxSize, ms : 0 .. MaxMs]
              OBVIOUS
            <7>6. updates \in Seq(R) /\ DOMAIN updates = 1 .. LastUpdate
              BY <1>2, <1>6, <7>5 DEF TypeOK
            <7>7. PICK k \in 1 .. LastUpdate : k = Pending(c, a)[Max(s)].update
              BY <7>4
            <7>8. updates[k] \in R
              BY <7>6, ElementOfSeq DEF LastUpdate
            <7>9. QED
              BY <6>2, <6>4, <7>5, <7>7, <7>8
          <6>5. QED
            BY <6>3, <6>4
        <5>3. ApplyItems(book[a], Pending(c, a))
                = [l \in Level |-> ApplyItems(book[a], Pending(c, a))[l]]
          BY DEF ApplyItems
        <5>4. QED
          BY <5>1, <5>2, <5>3
      <4>2. CASE ~Live(a)
        BY <1>2, <1>11, <4>2 DEF TypeOK
      <4>3. QED
        BY <4>1, <4>2
    <3>2. book' = [a \in Asset |-> book'[a]]
      BY <1>11
    <3>3. QED
      BY <3>1, <3>2
  <2>8. QED
    BY <1>3, <1>14, <2>1, <2>3, <2>4, <2>5, <2>6, <2>7 DEF TypeOK, PendingItem
<1>21. Stamped'
  BY <1>2, <1>3, <1>6, <1>8, <1>11 DEF Stamped
<1>22. FlightSound'
  <2>1. \A b \in Message : InFlight(b) => CoversBuffer(b)'
    <3>1. SUFFICES ASSUME NEW b \in Message, InFlight(b), NEW a \in Asset,
                          NEW i \in DOMAIN buffer'[a], buffer'[a][i].update <= b.at
                   PROVE  buffer'[a][i].ms <= b.ms
      BY DEF CoversBuffer
    <3>2. b.at < c.first /\ b.at \in Nat
      BY <1>1, <1>2, <1>3, <3>1, MessageIs DEF FlightSound, InFlight
    <3>3. CASE \E j \in DOMAIN buffer[a] : buffer'[a][i] = buffer[a][j]
      BY <1>2, <3>1, <3>3 DEF FlightSound, CoversBuffer
    <3>4. CASE \E j \in DOMAIN Pending(c, a) : buffer'[a][i] = Pending(c, a)[j]
      <4>1. buffer'[a][i].update \in c.first .. c.final
        BY <1>18, <3>4
      <4>2. QED
        BY <1>4, <3>1, <3>2, <4>1
    <3>5. QED
      BY <1>19, <3>1, <3>3, <3>4
  <2>2. \A i \in DOMAIN wire' : wire'[i].kind = "change" => Ahead(wire[i])'
    <3>1. SUFFICES ASSUME NEW i \in DOMAIN wire', wire'[i].kind = "change" PROVE Ahead(wire[i])'
      OBVIOUS
    <3>2. PICK d \in Message : d = wire'[i] /\ d = wire[1 + i] /\ d.first \in Nat
      BY <1>3, <3>1, ElementOfSeq, MessageIs
    <3>3. Ahead(d) /\ c.final < d.first
      BY <1>2, <1>3, <1>13, <3>1, <3>2 DEF FlightSound
    <3>4. \A k \in c.first .. c.final : k < d.first
      BY <1>4, <3>2, <3>3
    <3>5. ASSUME NEW a \in Asset
          PROVE  /\ \A k \in holds'[a] : k < d.first
                 /\ \A j \in DOMAIN buffer'[a] : buffer'[a][j].update < d.first
      <4>1. \A k \in holds'[a] : k \in holds[a] \/ k \in c.first .. c.final
        BY <1>10, <1>11
      <4>2. \A j \in DOMAIN buffer'[a] : buffer'[a][j].update < d.first
        BY <1>18, <1>19, <3>3, <3>4 DEF Ahead
      <4>3. QED
        BY <3>3, <3>4, <4>1, <4>2 DEF Ahead
    <3>6. QED
      BY <3>2, <3>5 DEF Ahead
  <2>3. QED
    BY <1>2, <1>3, <2>1, <2>2, FlightThins
<1>23. BufferSound'
  <2>1. SUFFICES ASSUME NEW a \in Asset
                 PROVE  /\ \A i \in DOMAIN buffer'[a] :
                             /\ buffer'[a][i].update \in Of(a, streamed) \intersect recorded'
                             /\ updates[buffer'[a][i].update].ms <= buffer'[a][i].ms
                             /\ buffer'[a][i].ms <= ms
                        /\ Rising(buffer'[a])
    BY <1>3, <1>12 DEF BufferSound, Rising
  <2>2. ASSUME NEW i \in DOMAIN buffer'[a]
        PROVE  /\ buffer'[a][i].update \in Of(a, streamed) \intersect recorded'
               /\ updates[buffer'[a][i].update].ms <= buffer'[a][i].ms
               /\ buffer'[a][i].ms <= ms
    <3>1. CASE \E j \in DOMAIN buffer[a] : buffer'[a][i] = buffer[a][j]
      BY <1>11, <1>17, <3>1
    <3>2. CASE \E j \in DOMAIN Pending(c, a) : buffer'[a][i] = Pending(c, a)[j]
      BY <1>18, <3>2
    <3>3. QED
      BY <1>19, <2>2, <3>1, <3>2
  <2>3. Rising(buffer'[a])
    <3>1. CASE Live(a)
      BY <1>2, <1>11, <3>1 DEF BufferSound
    <3>2. CASE ~Live(a)
      <4>1. PICK off \in Nat, old \in Nat :
              /\ old = Len(buffer[a])
              /\ \A i \in DOMAIN buffer'[a] :
                   /\ off + i <= old => off + i \in DOMAIN buffer[a] /\ buffer'[a][i] = buffer[a][off + i]
                   /\ off + i > old => off + i - old \in DOMAIN Pending(c, a)
                                       /\ buffer'[a][i] = Pending(c, a)[off + i - old]
        BY <1>16, <3>2
      <4>2. PICK len \in Nat : DOMAIN buffer'[a] = 1 .. len
        BY <1>16, <3>2
      <4>3. ASSUME NEW i \in 1 .. len, NEW j \in 1 .. len, i < j
            PROVE  buffer'[a][i].update < buffer'[a][j].update
        <5>1. CASE off + j <= old
          <6>1. off + i <= old /\ off + i < off + j
            BY <4>3, <5>1
          <6>2. off + i \in DOMAIN buffer[a] /\ off + j \in DOMAIN buffer[a]
                /\ buffer'[a][i] = buffer[a][off + i] /\ buffer'[a][j] = buffer[a][off + j]
            BY <4>1, <4>2, <5>1, <6>1
          <6>3. Rising(buffer[a])
            BY <1>2 DEF BufferSound
          <6>4. QED
            BY <6>1, <6>2, <6>3 DEF Rising
        <5>2. CASE off + i <= old /\ off + j > old
          <6>1. PICK x \in DOMAIN buffer[a], y \in DOMAIN Pending(c, a) :
                  buffer'[a][i] = buffer[a][x] /\ buffer'[a][j] = Pending(c, a)[y]
            BY <4>1, <4>2, <5>2
          <6>2. buffer[a][x].update < c.first /\ buffer[a][x].update \in 1 .. LastUpdate
                /\ Pending(c, a)[y].update \in c.first .. c.final
            BY <1>17, <1>18
          <6>3. QED
            BY <1>4, <1>6, <6>1, <6>2
        <5>3. CASE off + i > old
          <6>1. off + j > old /\ off + i - old < off + j - old
            BY <4>3, <5>3
          <6>2. off + i - old \in DOMAIN Pending(c, a) /\ off + j - old \in DOMAIN Pending(c, a)
                /\ buffer'[a][i] = Pending(c, a)[off + i - old]
                /\ buffer'[a][j] = Pending(c, a)[off + j - old]
            BY <4>1, <4>2, <5>3, <6>1
          <6>3. Rising(Pending(c, a))
            BY <1>9
          <6>4. QED
            BY <6>1, <6>2, <6>3 DEF Rising
        <5>4. QED
          BY <5>1, <5>2, <5>3
      <4>4. QED
        BY <4>2, <4>3 DEF Rising
    <3>3. QED
      BY <3>1, <3>2
  <2>4. QED
    BY <2>2, <2>3
<1>24. HoldsSound'
  <2>1. SUFFICES ASSUME NEW a \in Asset
                 PROVE  holds'[a] \subseteq Of(a, streamed)
                        /\ (Live(a) => book'[a] = BookOf(holds'[a]))
    <3>1. \A a : BookOf(holds'[a]) = BookOf(holds[a])'
      BY <1>12
    <3>2. QED
      BY <1>12, <3>1 DEF HoldsSound
  <2>2. holds[a] \subseteq Of(a, streamed) /\ (Live(a) => book[a] = BookOf(holds[a]))
    BY <1>2 DEF HoldsSound
  <2>3. CASE ~Live(a)
    BY <1>11, <2>2, <2>3
  <2>4. CASE Live(a)
    <3>1. PICK items \in Seq(PendingItem) : items = Pending(c, a)
      BY <1>9
    <3>2. /\ Rising(items) /\ UpdatesIn(items) = ItemsOf(c, a)
          /\ \A i \in DOMAIN items : items[i].update \in c.first .. c.final
      BY <1>9, <1>10, <3>1
    <3>3. PICK H : H = holds[a]
      OBVIOUS
    <3>4. H \in SUBSET (1 .. LastUpdate)
      BY <1>6, <1>7, <2>2, <3>3 DEF Of
    <3>5. \A k \in H : \A i \in DOMAIN items : k < items[i].update
      <4>1. \A k \in H : k < c.first
        BY <1>5, <3>3 DEF Ahead
      <4>2. QED
        BY <1>4, <1>6, <3>2, <3>4, <4>1
    <3>6. \A i \in DOMAIN items : items[i].update \in 1 .. LastUpdate
      BY <1>8, <3>2
    <3>7. ApplyItems(BookOf(H), items) = BookOf(H \union UpdatesIn(items))
      BY <1>6, <3>2, <3>4, <3>5, <3>6, AppliedIsLatest
    <3>8. holds'[a] = H \union ItemsOf(c, a) /\ book'[a] = ApplyItems(book[a], items)
      BY <1>11, <2>4, <3>1, <3>3
    <3>9. book[a] = BookOf(H)
      BY <2>2, <2>4, <3>3
    <3>10. QED
      BY <1>10, <2>2, <3>2, <3>3, <3>7, <3>8, <3>9
  <2>5. QED
    BY <2>3, <2>4
<1>25. \A a \in Asset : \A k : PushedOut(a, k) => PushedOut(a, k)'
  BY <1>6, <1>12, PushedOutStays
(* What the buffer drops is pushed out.                                    *)
<1>26. ASSUME NEW a \in Asset, ~Live(a), NEW k \in RecordedOf(a) \union ItemsOf(c, a),
              k \in UpdatesIn(buffer[a]) \/ k \in ItemsOf(c, a)
       PROVE  k \in UpdatesIn(buffer'[a]) \/ PushedOut(a, k)'
  <2>1. PICK off \in Nat, old \in Nat :
          /\ buffer'[a] \in Seq(P) /\ Len(buffer'[a]) <= MaxBuffer
          /\ old = Len(buffer[a]) /\ old + Len(Pending(c, a)) = off + Len(buffer'[a])
          /\ off > 0 => Len(buffer'[a]) = MaxBuffer
          /\ \A i \in DOMAIN buffer'[a] :
               /\ off + i <= old => off + i \in DOMAIN buffer[a] /\ buffer'[a][i] = buffer[a][off + i]
               /\ off + i > old => off + i - old \in DOMAIN Pending(c, a)
                                   /\ buffer'[a][i] = Pending(c, a)[off + i - old]
    BY <1>16, <1>26
  <2>2. PICK len \in Nat : len = Len(buffer'[a]) /\ DOMAIN buffer'[a] = 1 .. len
    BY <2>1
  <2>3. PICK new \in Nat : new = Len(Pending(c, a)) /\ DOMAIN Pending(c, a) = 1 .. new
                           /\ old + new = off + len
    BY <1>9, <2>1, <2>2
  <2>4. DOMAIN buffer[a] = 1 .. old
    BY <1>15, <2>1
  <2>5. Rising(buffer[a]) /\ Rising(Pending(c, a)) /\ Rising(buffer'[a])
    BY <1>2, <1>9, <1>23 DEF BufferSound, Rising
  <2>6. \A i \in 1 .. len : buffer'[a][i].update \in RecordedOf(a)'
    <3>1. Of(a, streamed)' \subseteq Of(a, LastUpdate)'
      BY <1>3, <1>6, <1>7 DEF Of
    <3>2. QED
      BY <1>23, <2>2, <3>1 DEF BufferSound, RecordedOf
  (* k stands at place p of what was to be buffered.                       *)
  <2>7. PICK p \in 1 .. old + new :
          /\ p <= old => k = buffer[a][p].update
          /\ p > old => k = Pending(c, a)[p - old].update
    <3>1. CASE k \in UpdatesIn(buffer[a])
      <4>1. PICK x \in 1 .. old : k = buffer[a][x].update
        BY <2>4, <3>1 DEF UpdatesIn
      <4>2. x \in 1 .. old + new /\ x <= old /\ ~(x > old)
        OBVIOUS
      <4>3. QED
        BY <4>1, <4>2
    <3>2. CASE k \in ItemsOf(c, a)
      <4>1. PICK y \in 1 .. new : k = Pending(c, a)[y].update
        BY <1>9, <2>3, <3>2 DEF UpdatesIn
      <4>2. PICK z \in 1 .. old + new : z = old + y
        OBVIOUS
      <4>3. z > old /\ ~(z <= old) /\ z - old = y
        BY <4>2
      <4>4. QED
        BY <4>1, <4>2, <4>3
    <3>3. QED
      BY <1>26, <3>1, <3>2
  <2>8. CASE p > off
    <3>1. PICK i \in 1 .. len : i = p - off
      BY <2>3, <2>8
    <3>2. off + i = p
      BY <3>1
    <3>3. buffer'[a][i].update = k
      <4>1. i \in DOMAIN buffer'[a]
        BY <2>2, <3>1
      <4>2. CASE p <= old
        <5>1. buffer'[a][i] = buffer[a][p]
          BY <2>1, <3>2, <4>1, <4>2
        <5>2. QED
          BY <2>7, <4>2, <5>1
      <4>3. CASE p > old
        <5>1. buffer'[a][i] = Pending(c, a)[p - old]
          <6>1. off + i > old /\ off + i - old = p - old
            BY <3>1, <4>3
          <6>2. buffer'[a][i] = Pending(c, a)[off + i - old]
            BY <2>1, <4>1, <6>1
          <6>3. QED
            BY <6>1, <6>2
        <5>2. QED
          BY <2>7, <4>3, <5>1
      <4>4. QED
        BY <2>1, <4>2, <4>3
    <3>4. QED
      BY <2>2, <3>3 DEF UpdatesIn
  <2>9. CASE p <= off
    <3>1. len = MaxBuffer
      BY <2>1, <2>2, <2>9
    <3>2. ASSUME NEW i \in 1 .. len PROVE buffer'[a][i].update > k
      <4>1. CASE off + i <= old
        <5>1. p < off + i /\ p <= old /\ p \in DOMAIN buffer[a]
          BY <2>4, <2>9, <4>1
        <5>2. off + i \in DOMAIN buffer[a] /\ buffer'[a][i] = buffer[a][off + i]
          BY <2>1, <2>2, <4>1
        <5>3. buffer[a][p].update < buffer[a][off + i].update
          BY <2>5, <5>1, <5>2 DEF Rising
        <5>4. buffer[a][p].update \in Nat /\ buffer[a][off + i].update \in Nat
          BY <1>6, <1>17, <5>1, <5>2
        <5>5. QED
          BY <2>7, <5>1, <5>2, <5>3, <5>4
      <4>2. CASE off + i > old
        <5>1. off + i - old \in DOMAIN Pending(c, a)
              /\ buffer'[a][i] = Pending(c, a)[off + i - old]
          BY <2>1, <2>2, <4>2
        <5>2. Pending(c, a)[off + i - old].update \in c.first .. c.final
          BY <1>18, <5>1
        <5>3. CASE p <= old
          <6>1. p \in DOMAIN buffer[a]
            BY <2>4, <5>3
          <6>2. k < c.first /\ k \in Nat
            BY <1>6, <1>17, <2>7, <5>3, <6>1
          <6>3. QED
            BY <1>4, <5>1, <5>2, <6>2
        <5>4. CASE p > old
          <6>1. p - old \in DOMAIN Pending(c, a) /\ p - old < off + i - old
            BY <2>3, <2>9, <5>4
          <6>2. Pending(c, a)[p - old].update < Pending(c, a)[off + i - old].update
            BY <2>5, <5>1, <6>1 DEF Rising
          <6>3. Pending(c, a)[p - old].update \in c.first .. c.final
            BY <1>18, <6>1
          <6>4. QED
            BY <1>4, <2>7, <5>1, <5>2, <5>4, <6>2, <6>3
        <5>5. QED
          BY <5>3, <5>4
      <4>3. QED
        BY <4>1, <4>2
    <3>3. PICK B : B = {j \in RecordedOf(a)' : j > k}
      OBVIOUS
    <3>4. PICK f : f = [i \in 1 .. len |-> buffer'[a][i].update]
      OBVIOUS
    <3>5. f \in [1 .. len -> B]
      BY <2>6, <3>2, <3>3, <3>4
    <3>6. ASSUME NEW i \in 1 .. len, NEW j \in 1 .. len, f[i] = f[j] PROVE i = j
      <4>1. \A x, y \in 1 .. len : x < y => f[x] < f[y]
        BY <2>2, <2>5, <3>4 DEF Rising
      <4>2. f[i] \in Nat /\ f[j] \in Nat
        <5>1. \A x \in 1 .. len : buffer'[a][x].update \in 1 .. LastUpdate
          BY <1>12, <2>6
        <5>2. \A x \in 1 .. len : buffer'[a][x].update \in Nat
          BY <1>6, <5>1
        <5>3. f[i] = buffer'[a][i].update /\ f[j] = buffer'[a][j].update
          BY <3>4
        <5>4. QED
          BY <5>2, <5>3
      <4>3. ~(i < j) /\ ~(j < i)
        BY <3>6, <4>1, <4>2
      <4>4. QED
        BY <4>3
    <3>7. f \in Injection(1 .. len, B)
      BY <3>5, <3>6 DEF Injection, IsInjective
    <3>8. IsFiniteSet(B) /\ Cardinality(B) \in Nat
      <4>1. B \in SUBSET (1 .. LastUpdate)
        BY <1>12, <3>3
      <4>2. PICK n \in Nat : n = LastUpdate
        BY <1>6
      <4>3. IsFiniteSet(1 .. n)
        BY FS_Interval
      <4>4. IsFiniteSet(B)
        BY <4>1, <4>2, <4>3, FS_Subset
      <4>5. QED
        BY <4>4, FS_CardinalityType
    <3>9. Cardinality(1 .. len) <= Cardinality(B)
      BY <3>7, <3>8, FS_Injection
    <3>10. Cardinality(1 .. len) = len
      <4>1. Cardinality(1 .. len) = IF 1 > len THEN 0 ELSE len - 1 + 1
        BY FS_Interval
      <4>2. QED
        BY <4>1
    <3>11. Cardinality(B) >= MaxBuffer
      BY <3>1, <3>8, <3>9, <3>10, PolymarketBookAssumption
    <3>12. QED
      BY <3>3, <3>11 DEF PushedOut
  <2>10. QED
    BY <2>8, <2>9
<1>27. NothingMissed'
  <2>1. SUFFICES ASSUME NEW a \in Asset
                 PROVE  /\ resets[a] = 0 <=> ~Live(a)
                        /\ \A k \in RecordedOf(a) \union ItemsOf(c, a) :
                             /\ resets[a] = 0 => k \in UpdatesIn(buffer'[a]) \/ PushedOut(a, k)'
                             /\ resets[a] = 1 /\ k \notin holds'[a] =>
                                  updates[k].ms = snapMs[a] \/ PushedOut(a, k)'
    <3>1. \A a : UpdatesIn(buffer[a])' = UpdatesIn(buffer'[a])
      BY DEF UpdatesIn
    <3>2. QED
      BY <1>3, <1>11, <1>12, <3>1 DEF NothingMissed
  <2>2. resets[a] = 0 <=> ~Live(a)
    BY <1>2 DEF NothingMissed
  <2>3. ASSUME NEW k \in RecordedOf(a) \union ItemsOf(c, a), resets[a] = 0
        PROVE  k \in UpdatesIn(buffer'[a]) \/ PushedOut(a, k)'
    <3>1. k \in UpdatesIn(buffer[a]) \/ k \in ItemsOf(c, a) \/ PushedOut(a, k)
      BY <1>2, <2>3 DEF NothingMissed
    <3>2. QED
      BY <1>25, <1>26, <2>2, <2>3, <3>1
  <2>4. ASSUME NEW k \in RecordedOf(a) \union ItemsOf(c, a), resets[a] = 1, k \notin holds'[a]
        PROVE  updates[k].ms = snapMs[a] \/ PushedOut(a, k)'
    <3>1. holds'[a] = holds[a] \union ItemsOf(c, a)
      BY <1>11, <2>2, <2>4
    <3>2. k \in RecordedOf(a) /\ k \notin holds[a]
      BY <2>4, <3>1
    <3>3. updates[k].ms = snapMs[a] \/ PushedOut(a, k)
      BY <1>2, <2>4, <3>2 DEF NothingMissed
    <3>4. QED
      BY <1>25, <3>3
  <2>5. QED
    BY <2>2, <2>3, <2>4
<1>28. SnapshotsBounded'
  BY <1>2, <1>3, <1>11, BoundStays
<1>29. QED
  BY <1>3, <1>20, <1>21, <1>22, <1>23, <1>24, <1>27, <1>28 DEF BookInv

(* Every step keeps the invariant.                                         *)
LEMMA BookStep == BookInv /\ [Next]_vars => BookInv'
<1> SUFFICES ASSUME BookInv, [Next]_vars PROVE BookInv'
  OBVIOUS
<1>1. CASE Read
  <2>1. wire # << >> /\ wire' = Tail(wire) /\ UNCHANGED << venueVars, up, left >>
    BY <1>1 DEF Read
  <2>2. CASE Head(wire).kind = "book" /\ ApplyBook(Head(wire)) /\ recorded' = recorded
    BY <2>1, <2>2, ReadBookKeeps
  <2>3. CASE /\ Head(wire).kind = "change" /\ ApplyChange(Head(wire))
             /\ recorded' = recorded \union (Head(wire).first .. Head(wire).final)
    BY <2>1, <2>3, ReadChangeKeeps
  <2>4. QED
    BY <1>1, <2>2, <2>3 DEF Read
<1>2. CASE UNCHANGED vars
  <2>1. UNCHANGED << updates, ms, streamed, pending, book, snapMs, buffer, holds, resets >>
        /\ UNCHANGED << up, wire, recorded, left >>
    BY <1>2 DEF vars, venueVars, bookVars
  <2>2. TypeOK /\ Stamped /\ FlightSound /\ OneBookEach /\ SnapshotsBounded
    BY DEF BookInv
  <2>3. Stamped' /\ BufferSound' /\ HoldsSound' /\ NothingMissed'
    BY <2>1, <2>2, UpdatesTyped, BooksStay DEF Stamped
  <2>4. \A b : InFlight(b)' = InFlight(b)
    BY <2>1 DEF InFlight, OnWire
  <2>5. FlightSound'
    BY <2>1, <2>2, <2>4 DEF FlightSound, TakenBetween, CoversBuffer, Sent, Ahead
  <2>6. OneBookEach' /\ SnapshotsBounded'
    BY <2>1, <2>2, <2>4, BoundStays DEF OneBookEach
  <2>7. TypeOK'
    BY <2>1, <2>2, TypesStay DEF TypeOK
  <2>8. QED
    BY <2>3, <2>5, <2>6, <2>7 DEF BookInv
<1>3. CASE BoundsSpent
  BY <1>2, <1>3 DEF BoundsSpent
<1>4. QED
  BY <1>1, <1>2, <1>3, UpdateKeeps, TickKeeps, ConnectKeeps, SendBookKeeps, SendChangeKeeps,
     LossKeeps DEF Next

(* The invariant of the book and of all that is on its way to it.          *)
THEOREM BookInvariant == Spec => []BookInv
<1>1. QED
  BY InitBook, BookStep, PTL DEF Spec

(* A live book without a hole is the venue's, for any number of levels and *)
(* updates, any loss and any order of snapshots and changes (apply_book,   *)
(* replay_pending, apply_price_change).                                    *)
THEOREM BookIsFaithful == Spec => []BookFaithful
<1>1. BookInv => BookFaithful
  <2>1. SUFFICES ASSUME BookInv, NEW a \in Asset, Live(a), Missing(a) = {}
                 PROVE  book[a] = BookAt(a, Newest(a))
    BY DEF BookFaithful
  <2>2. TypeOK /\ Stamped /\ HoldsSound
    BY <2>1 DEF BookInv
  <2>3. holds[a] \subseteq Of(a, streamed) /\ book[a] = BookOf(holds[a]) /\ streamed \in Nat
    BY <2>1, <2>2, UpdatesTyped DEF HoldsSound
  <2>4. holds[a] = Of(a, Newest(a))
    <3>1. CASE holds[a] = {}
      BY <3>1 DEF Newest, Of
    <3>2. CASE holds[a] # {}
      <4>1. holds[a] \in SUBSET (1 .. streamed)
        BY <2>3 DEF Of
      <4>2. Newest(a) \in holds[a] /\ \A k \in holds[a] : k <= Newest(a)
        BY <2>3, <3>2, <4>1, MaxIsIn DEF Newest
      <4>3. Newest(a) \in 1 .. streamed
        BY <4>1, <4>2
      <4>4. holds[a] \subseteq Of(a, Newest(a))
        <5>1. \A k \in holds[a] : k \in 1 .. streamed /\ updates[k].asset = a
          BY <2>3 DEF Of
        <5>2. QED
          BY <2>3, <4>2, <4>3, <5>1 DEF Of
      <4>5. Of(a, Newest(a)) \subseteq holds[a]
        BY <2>1 DEF Missing
      <4>6. QED
        BY <4>4, <4>5
    <3>3. QED
      BY <3>1, <3>2
  <2>5. QED
    BY <2>3, <2>4 DEF BookAt, BookOf
<1>2. QED
  BY <1>1, BookInvariant, PTL

(* What a first snapshot costs is what the full buffer dropped and what    *)
(* shares its millisecond, for any MaxBuffer (apply_or_buffer_item,        *)
(* replay_pending).                                                        *)
THEOREM FirstSnapshotIsEnough == Spec => []FirstSnapshotMissesNothing
<1>1. BookInv => FirstSnapshotMissesNothing
  <2>1. SUFFICES ASSUME BookInv, NEW a \in Asset, resets[a] = 1,
                        NEW k \in Missing(a) \intersect recorded
                 PROVE  updates[k].ms = snapMs[a] \/ PushedOut(a, k)
    BY DEF FirstSnapshotMissesNothing, PushedOut, RecordedOf
  <2>2. TypeOK /\ Stamped /\ HoldsSound /\ NothingMissed
    BY <2>1 DEF BookInv
  <2>3. streamed \in Nat /\ LastUpdate \in Nat /\ streamed <= LastUpdate
        /\ recorded \subseteq 1 .. streamed
    BY <2>2, UpdatesTyped DEF Stamped
  <2>4. k \in recorded /\ k \notin holds[a] /\ k \in Of(a, Newest(a))
    BY DEF Missing
  <2>5. k \in 1 .. LastUpdate /\ updates[k].asset = a
    BY <2>3, <2>4 DEF Of
  <2>6. k \in RecordedOf(a)
    BY <2>4, <2>5 DEF RecordedOf, Of
  <2>7. QED
    BY <2>1, <2>2, <2>4, <2>6 DEF NothingMissed
<1>2. QED
  BY <1>1, BookInvariant, PTL
====
