-------------------------- MODULE DepthBookProofs --------------------------
(***************************************************************************)
(* The depth book is faithful, for any number of levels, quantities,       *)
(* updates and connections, any depth of the snapshots, and any number of  *)
(* lost diffs and failed snapshots.                                        *)
(***************************************************************************)
EXTENDS DepthBook, SequenceTheorems, WellFoundedInduction, TLAPS

(* A diff, wherever it is on its way.                                      *)
SentDiff == [first : Nat, final : Nat]

(* What is on its way, or has arrived, speaks of updates the venue made.   *)
Past ==
  /\ venue \in Seq([level : Level, qty : Qty])
  /\ streamed \in Int /\ streamed <= LastId
  /\ streamed # None => streamed \in Nat
  /\ wire \in Seq(SentDiff)
  /\ \A i \in DOMAIN wire : wire[i].final <= LastId
  /\ rest = "answered" => answer \in Nat /\ answer <= LastId
  /\ last \in Int /\ last <= LastId /\ (last # None => last \in Nat)
  /\ last # None => base \in Nat /\ base <= LastId

BookInv == Past /\ BookFaithful

-----------------------------------------------------------------------------
(* The updates of a level that lie between two points.                     *)
LEMMA NoTouch ==
  ASSUME NEW l, NEW m \in Nat, NEW n \in Nat, m <= n,
         \A k \in m + 1 .. n : venue[k].level # l
  PROVE  Touching(l, m) = Touching(l, n)
  BY DEF Touching

(* A diff that does not carry a level, and chains, leaves it as it is.     *)
LEMMA NotCarried ==
  ASSUME NEW d \in SentDiff, NEW l,
         last \in Nat, ~Stale(d), ~Gapped(d), ~Carries(d, l)
  PROVE  Touching(l, last) = Touching(l, d.final)
<1>1. d.first \in Nat /\ d.final \in Nat /\ last <= d.final /\ d.first <= last + 1
  BY DEF Stale, Gapped, SentDiff
<1>2. \A k \in last + 1 .. d.final : venue[k].level # l
  BY <1>1 DEF Carries, Touching
<1>3. QED
  BY <1>1, <1>2, NoTouch

(* A new update changes nothing the venue has said of an earlier one.      *)
LEMMA PastStays ==
  ASSUME NEW v \in Seq([level : Level, qty : Qty]), NEW u \in [level : Level, qty : Qty],
         NEW n \in Nat, n <= Len(v)
  PROVE  \A k \in 1 .. n : Append(v, u)[k] = v[k]
  OBVIOUS

(* A bounded set of numbers has its maximum.                               *)
LEMMA MaxIsIn ==
  ASSUME NEW n \in Nat, NEW S \in SUBSET (1 .. n), S # {}
  PROVE  Max(S) \in S
<1>1. \A k \in S : k \in Int
  BY S \subseteq 1 .. n
<1> DEFINE T == {n - k : k \in S}
<1>2. T \subseteq Nat /\ T # {}
  <2>1. \A k \in S : k \in Nat /\ n - k \in Nat
    OBVIOUS
  <2>2. PICK k \in S : TRUE
    OBVIOUS
  <2>3. n - k \in T
    OBVIOUS
  <2>4. \A t \in T : t \in Nat
    BY <2>1
  <2>5. QED
    BY <2>3, <2>4
<1>3. PICK t \in T : \A u \in T : ~(<<u, t>> \in OpToRel(<, Nat))
  BY <1>2, WFMin, NatLessThanWellFounded, Zenon
<1>4. \A u \in T : ~(u < t)
  BY <1>2, <1>3 DEF OpToRel
<1>5. PICK m \in S : t = n - m
  OBVIOUS
<1>6. \A k \in S : m >= k
  <2>1. TAKE k \in S
  <2>2. ~(n - k < n - m)
    BY <1>4, <1>5
  <2>3. m \in Int /\ k \in Int
    BY <1>1
  <2>4. QED
    BY <2>2, <2>3
<1>7. QED
  BY <1>6 DEF Max

(* A new update leaves the books of all points before it as they were.     *)
LEMMA UpdateKeepsPast ==
  ASSUME Past, Update, NEW n \in Nat, n <= LastId
  PROVE  /\ \A l : Touching(l, n)' = Touching(l, n)
         /\ BookAt(n)' = BookAt(n)
         /\ \A l : Holds(n, l)' = Holds(n, l)
<1>1. PICK l \in Level, q \in Qty : venue' = Append(venue, [level |-> l, qty |-> q])
  BY DEF Update
<1>2. \A k \in 1 .. n : venue'[k] = venue[k]
  BY <1>1, PastStays DEF Past, LastId
<1>3. \A x : Touching(x, n)' = Touching(x, n)
  BY <1>2 DEF Touching
<1>4. \A x : Touching(x, n) # {} => Max(Touching(x, n)) \in 1 .. n
  <2>1. TAKE x
  <2>2. Touching(x, n) \in SUBSET (1 .. n)
    BY DEF Touching
  <2>3. QED
    BY <2>2, MaxIsIn
<1>5. \A x : (IF Touching(x, n) = {} THEN 0 ELSE venue[Max(Touching(x, n))].qty)'
             = IF Touching(x, n) = {} THEN 0 ELSE venue[Max(Touching(x, n))].qty
  <2>1. TAKE x
  <2>2. CASE Touching(x, n) = {}
    BY <1>3, <2>2
  <2>3. CASE Touching(x, n) # {}
    BY <1>2, <1>3, <1>4, <2>3
  <2>4. QED
    BY <2>2, <2>3
<1>6. BookAt(n)' = BookAt(n)
  BY <1>5, Zenon DEF BookAt
<1>7. \A x : Holds(n, x)' = Holds(n, x)
  BY <1>6 DEF Holds
<1>8. QED
  BY <1>3, <1>6, <1>7

-----------------------------------------------------------------------------
(* BookFaithful is about the venue's updates and the book alone.           *)
LEMMA SameBookIsFaithful ==
  ASSUME BookFaithful, UNCHANGED << venue, book, last, base >>
  PROVE  BookFaithful'
<1>1. \A l, n : Touching(l, n)' = Touching(l, n)
  BY DEF Touching
<1>2. \A n : BookAt(n)' = BookAt(n)
  BY DEF BookAt, Touching
<1>3. \A l : Beyond(l)' = Beyond(l)
  BY DEF Beyond, Holds, BookAt, Touching
<1>4. ASSUME last' # None, NEW l \in Level
      PROVE  book'[l] = BookAt(last)'[l] \/ (Beyond(l)' /\ book'[l] = 0)
  <2>1. BookAt(last)' = BookAt(last)
    BY DEF BookAt, Touching
  <2>2. book[l] = BookAt(last)[l] \/ (Beyond(l) /\ book[l] = 0)
    BY <1>4 DEF BookFaithful, None
  <2>3. QED
    BY <1>3, <2>1, <2>2
<1>5. QED
  BY <1>4 DEF BookFaithful, None

(* A new update of the venue's makes no book less faithful.                *)
LEMMA UpdateIsFaithful ==
  ASSUME Past, BookFaithful, Update
  PROVE  BookFaithful'
<1>1. book' = book /\ last' = last /\ base' = base
  BY DEF Update, BookUnchanged
<1>2. SUFFICES ASSUME last # None, NEW l \in Level
               PROVE  book[l] = BookAt(last)'[l] \/ (Beyond(l)' /\ book[l] = 0)
  BY <1>1 DEF BookFaithful, None
<1>3. last \in Nat /\ last <= LastId /\ base \in Nat /\ base <= LastId
  BY <1>2 DEF Past
<1>4. PICK n \in Nat : n = last
  BY <1>3
<1>5. PICK b \in Nat : b = base
  BY <1>3
<1>6. BookAt(n)' = BookAt(n) /\ Touching(l, n)' = Touching(l, n)
  BY <1>3, <1>4, UpdateKeepsPast
<1>7. Holds(b, l)' = Holds(b, l)
  BY <1>3, <1>5, UpdateKeepsPast
<1>8. BookAt(last)' = BookAt(last) /\ Touching(l, last)' = Touching(l, last)
  BY <1>1, <1>4, <1>6 DEF BookAt, Touching
<1>9. Holds(base, l)' = Holds(base, l)
  BY <1>1, <1>5, <1>7 DEF Holds, BookAt, Touching
<1>10. Beyond(l)' = Beyond(l)
  BY <1>1, <1>8, <1>9 DEF Beyond
<1>11. book[l] = BookAt(last)[l] \/ (Beyond(l) /\ book[l] = 0)
  BY <1>2 DEF BookFaithful
<1>12. QED
  BY <1>8, <1>10, <1>11

(* A snapshot puts a faithful book in the place of any other.              *)
LEMMA ResetIsFaithful ==
  ASSUME NEW x \in Nat, ResetWithSnapshot(x), venue' = venue
  PROVE  BookFaithful'
<1>1. book' = SnapshotAt(x) /\ last' = x /\ base' = x
  BY DEF ResetWithSnapshot
<1>2. \A l : Touching(l, x)' = Touching(l, x)
  BY DEF Touching
<1>3. BookAt(last)' = BookAt(x)
  BY <1>1 DEF BookAt, Touching
<1>4. \A l : Holds(base, l)' = Holds(x, l)
  BY <1>1 DEF Holds, BookAt, Touching
<1>5. \A l : \A k \in Touching(l, last)' : k <= base'
  BY <1>1 DEF Touching
<1>6. ASSUME NEW l \in Level
      PROVE  book'[l] = BookAt(last)'[l] \/ (Beyond(l)' /\ book'[l] = 0)
  <2>1. CASE Holds(x, l)
    BY <1>1, <1>3, <2>1 DEF SnapshotAt
  <2>2. CASE ~Holds(x, l)
    BY <1>1, <1>4, <1>5, <2>2 DEF SnapshotAt, Beyond
  <2>3. QED
    BY <2>1, <2>2
<1>7. QED
  BY <1>6 DEF BookFaithful

(* A diff that is applied takes the book to another faithful one.          *)
LEMMA SpliceIsFaithful ==
  ASSUME Past, BookFaithful, NEW d \in SentDiff,
         last # None, ~Stale(d), ~Gapped(d),
         book' = Spliced(d), last' = d.final, UNCHANGED << venue, base >>
  PROVE  BookFaithful'
<1>1. last \in Nat
  BY DEF Past
<1>2. BookAt(last)' = BookAt(d.final)
  BY DEF BookAt, Touching
<1>3. \A l : Holds(base, l)' = Holds(base, l)
  BY DEF Holds, BookAt, Touching
<1>4. \A l : Touching(l, last)' = Touching(l, d.final)
  BY DEF Touching
<1>5. ASSUME NEW l \in Level
      PROVE  book'[l] = BookAt(last)'[l] \/ (Beyond(l)' /\ book'[l] = 0)
  <2>1. CASE Carries(d, l)
    BY <1>2, <2>1 DEF Spliced
  <2>2. CASE ~Carries(d, l)
    <3>1. Touching(l, last) = Touching(l, d.final)
      BY <1>1, <2>2, NotCarried
    <3>2. book'[l] = book[l]
      BY <2>2 DEF Spliced
    <3>3. BookAt(last)[l] = BookAt(d.final)[l]
      BY <3>1 DEF BookAt
    <3>4. Beyond(l)' = Beyond(l)
      BY <1>3, <1>4, <3>1 DEF Beyond
    <3>5. book[l] = BookAt(last)[l] \/ (Beyond(l) /\ book[l] = 0)
      BY DEF BookFaithful
    <3>6. QED
      BY <1>2, <3>2, <3>3, <3>4, <3>5
  <2>3. QED
    BY <2>1, <2>2
<1>6. QED
  BY <1>5 DEF BookFaithful

-----------------------------------------------------------------------------
(* The next diff to be read.                                               *)
LEMMA HeadIsPast ==
  ASSUME Past, wire # << >>
  PROVE  /\ Head(wire) \in SentDiff /\ Head(wire).final <= LastId
         /\ Tail(wire) \in Seq(SentDiff)
         /\ \A i \in DOMAIN Tail(wire) : Tail(wire)[i].final <= LastId
<1>1. wire \in Seq(SentDiff)
  BY DEF Past
<1>2. Head(wire) = wire[1] /\ 1 \in DOMAIN wire
  BY <1>1
<1>3. \A i \in DOMAIN Tail(wire) : Tail(wire)[i] = wire[i + 1] /\ i + 1 \in DOMAIN wire
  BY <1>1
<1>4. Tail(wire) \in Seq(SentDiff)
  BY <1>1
<1>5. \A i \in DOMAIN wire : wire[i].final <= LastId
  BY DEF Past
<1>6. Head(wire) \in SentDiff
  BY <1>1, <1>2, ElementOfSeq
<1>7. QED
  BY <1>2, <1>3, <1>4, <1>5, <1>6

(* Nothing is on its way at first, and no book is live.                    *)
THEOREM InitIsSound == Init => BookInv
  BY DEF Init, BookInv, Past, BookFaithful, None, LastId

(* No update, diff, snapshot, failure or reconnect breaks the invariant.   *)
THEOREM StepIsSound == BookInv /\ [Next]_vars => BookInv'
<1> SUFFICES ASSUME Past, BookFaithful, [Next]_vars
             PROVE  Past' /\ BookFaithful'
  BY DEF BookInv
<1> USE DEF None
<1>1. CASE Update
  <2>1. PICK u \in [level : Level, qty : Qty] : venue' = Append(venue, u)
    BY <1>1 DEF Update
  <2>2. venue' \in Seq([level : Level, qty : Qty]) /\ LastId' = LastId + 1 /\ LastId \in Nat
    BY <2>1 DEF Past, LastId
  <2>3. Past'
    <3>1. UNCHANGED << streamed, wire, rest, answer, book, last, base >>
      BY <1>1 DEF Update, BookUnchanged
    <3>2. wire \in Seq(SentDiff)
      BY DEF Past
    <3>3. \A i \in DOMAIN wire : wire[i].final <= LastId + 1
      <4>1. TAKE i \in DOMAIN wire
      <4>2. wire[i] \in SentDiff
        BY <3>2, ElementOfSeq
      <4>3. wire[i].final \in Nat
        BY <4>2 DEF SentDiff
      <4>4. QED
        BY <2>2, <4>3 DEF Past
    <3>4. QED
      BY <2>2, <3>1, <3>2, <3>3 DEF Past
  <2>4. QED
    BY <1>1, <2>3, UpdateIsFaithful
<1>2. CASE Subscribe
  BY <1>2, SameBookIsFaithful DEF Subscribe, BookUnchanged, Past, LastId
<1>3. CASE SendDiff
  <2>1. BookFaithful'
    BY <1>3, SameBookIsFaithful DEF SendDiff, BookUnchanged
  <2> DEFINE d == [first |-> streamed + 1, final |-> LastId]
  <2>2. LastId \in Nat /\ streamed \in Nat /\ wire \in Seq(SentDiff)
    BY <1>3 DEF SendDiff, Past, LastId
  <2>3. d \in SentDiff /\ d.final <= LastId
    BY <2>2 DEF SentDiff
  <2>4. wire' = Append(wire, d)
    BY <1>3 DEF SendDiff
  <2> HIDE DEF d
  <2>5. wire' \in Seq(SentDiff)
    BY <2>2, <2>3, <2>4
  <2>6. \A i \in DOMAIN wire' : wire'[i] = d \/ (i \in DOMAIN wire /\ wire'[i] = wire[i])
    BY <2>2, <2>3, <2>4
  <2>7. \A i \in DOMAIN wire' : wire'[i].final <= LastId
    BY <2>3, <2>6 DEF Past
  <2>8. QED
    BY <1>3, <2>1, <2>2, <2>5, <2>7 DEF SendDiff, BookUnchanged, Past, LastId
<1>4. CASE SkipDiff
  BY <1>4, SameBookIsFaithful DEF SkipDiff, BookUnchanged, Past, LastId
<1>5. CASE Answer
  BY <1>5, SameBookIsFaithful DEF Answer, BookUnchanged, Past, LastId
<1>6. CASE Connect
  BY <1>6, SameBookIsFaithful DEF Connect, BookUnchanged, Past, LastId
<1>7. CASE Tick
  BY <1>7, SameBookIsFaithful DEF Tick, BookUnchanged, Past, LastId
<1>8. CASE PersistSnapshot
  <2>1. answer \in Nat /\ answer <= LastId /\ ResetWithSnapshot(answer) /\ venue' = venue
    BY <1>8 DEF PersistSnapshot, Past
  <2>2. BookFaithful'
    BY <2>1, ResetIsFaithful
  <2>3. Past'
    BY <1>8, <2>1 DEF PersistSnapshot, ResetWithSnapshot, Past, LastId
  <2>4. QED
    BY <2>2, <2>3
<1>9. CASE SnapshotFails
  BY <1>9, SameBookIsFaithful DEF SnapshotFails, BookUnchanged, Past, LastId
<1>10. CASE ReadDiff
  <2> DEFINE d == Head(wire)
  <2>1. wire # << >> /\ wire' = Tail(wire) /\ ApplyDiff(d) /\ venue' = venue
        /\ streamed' = streamed /\ rest' = rest /\ answer' = answer
    BY <1>10 DEF ReadDiff
  <2>2. d \in SentDiff /\ d.final <= LastId
    BY <2>1, HeadIsPast
  <2>3. /\ Tail(wire) \in Seq(SentDiff)
        /\ \A i \in DOMAIN Tail(wire) : Tail(wire)[i].final <= LastId
    BY <2>1, HeadIsPast
  <2> HIDE DEF d
  <2>4. CASE UNCHANGED << book, last, base >>
    <3>1. BookFaithful'
      BY <2>1, <2>4, SameBookIsFaithful
    <3>2. QED
      BY <2>1, <2>3, <2>4, <3>1 DEF Past, LastId
  <2>5. CASE /\ last # None /\ ~Stale(d) /\ ~Gapped(d)
             /\ book' = Spliced(d) /\ last' = d.final /\ base' = base
    <3>1. BookFaithful'
      BY <2>1, <2>2, <2>5, SpliceIsFaithful
    <3>2. QED
      BY <2>1, <2>2, <2>3, <2>5, <3>1 DEF Past, LastId, SentDiff
  <2>6. QED
    BY <2>1, <2>4, <2>5 DEF ApplyDiff
<1>11. CASE RecordFails
  <2>1. BookFaithful'
    BY <1>11, SameBookIsFaithful DEF RecordFails, BookUnchanged
  <2>2. QED
    BY <1>11, <2>1, HeadIsPast DEF RecordFails, BookUnchanged, Past, LastId
<1>12. CASE Disconnect
  <2>1. BookFaithful'
    BY <1>12, SameBookIsFaithful DEF Disconnect, BookUnchanged
  <2>2. QED
    BY <1>12, <2>1 DEF Disconnect, BookUnchanged, Past, LastId
<1>13. CASE UNCHANGED vars
  BY <1>13, SameBookIsFaithful DEF vars, Past, LastId
<1>14. QED
  BY <1>1, <1>2, <1>3, <1>4, <1>5, <1>6, <1>7, <1>8, <1>9, <1>10, <1>11, <1>12, <1>13
     DEF Next, BoundsSpent

(* A replayed book that is live is the venue's book after last_update_id,  *)
(* but for levels behind the snapshot that were not updated since.         *)
THEOREM ReplayedBookIsFaithful == Spec => []BookFaithful
<1>1. BookInv => BookFaithful
  BY DEF BookInv
<1>2. QED
  BY InitIsSound, StepIsSound, <1>1, PTL DEF Spec

-----------------------------------------------------------------------------
(* Diffs are sent, and so recorded, in the order of the updates, each at   *)
(* most once, whatever is lost and however often the recorder reconnects.  *)
SentInOrder ==
  /\ \A r \in recorded : r \in Nat /\ r <= LastId
  /\ streamed # None => \A r \in recorded : r <= streamed
  /\ wire # << >> => streamed # None
  /\ \A i \in DOMAIN wire :
       /\ wire[i].first <= wire[i].final /\ wire[i].final <= streamed
       /\ \A r \in recorded : r < wire[i].first
  /\ \A i, j \in DOMAIN wire : i < j => wire[i].final < wire[j].first

LeftType == left \in [connects : Nat, ticks : 0 .. MaxTicks, faults : Nat]

(* Until the interval ticks, nothing is read while a snapshot is awaited,  *)
(* so that the update behind the book is never a recorded one.             *)
NextIsUnread ==
  ~Ticked =>
    /\ rest # "idle" => conn = "priming"
    /\ rest = "answered" => \A r \in recorded : r <= answer
    /\ last # None => last + 1 \notin recorded

LossInv == SentInOrder /\ LeftType /\ NextIsUnread /\ GapMeansLossUntilTick

(* A tick is not taken back, and steps that record nothing and apply       *)
(* nothing report no gap.                                                  *)
LEMMA QuietStep ==
  ASSUME LossInv, Ticked => Ticked', UNCHANGED << recorded, outcome >>
  PROVE  GapMeansLossUntilTick'
  BY DEF LossInv, GapMeansLossUntilTick, GapMeansLoss

(* What a step spends of the bounds.                                       *)
LEMMA SpendStep ==
  ASSUME LeftType, NEW b \in {"connects", "ticks", "faults"}, Spend(b)
  PROVE  /\ LeftType' /\ (Ticked => Ticked')
         /\ b = "ticks" => Ticked'
         /\ b # "ticks" => (Ticked' <=> Ticked)
<1>1. left.connects \in Nat /\ left.ticks \in 0 .. MaxTicks /\ left.faults \in Nat
      /\ MaxTicks \in Nat
  BY DepthBookAssumption DEF LeftType
<1>2. left[b] > 0 /\ left' = [left EXCEPT ![b] = @ - 1]
  BY DEF Spend
<1>3. CASE b = "connects"
  BY <1>1, <1>2, <1>3 DEF LeftType, Ticked
<1>4. CASE b = "ticks"
  BY <1>1, <1>2, <1>4 DEF LeftType, Ticked
<1>5. CASE b = "faults"
  BY <1>1, <1>2, <1>5 DEF LeftType, Ticked
<1>6. QED
  BY <1>3, <1>4, <1>5

(* A diff on the wire, with its types.                                     *)
LEMMA WireAt ==
  ASSUME Past, NEW i \in DOMAIN wire
  PROVE  wire[i].first \in Nat /\ wire[i].final \in Nat /\ i \in Nat
<1>1. wire \in Seq(SentDiff)
  BY DEF Past
<1>2. wire[i] \in SentDiff
  BY <1>1, ElementOfSeq
<1>3. QED
  BY <1>1, <1>2 DEF SentDiff

(* Reading takes the first diff off the wire; the others are behind it.    *)
LEMMA HeadIsFirst ==
  ASSUME Past, SentInOrder, wire # << >>
  PROVE  LET d == Head(wire) IN
         /\ d.first \in Nat /\ d.final \in Nat
         /\ d.first <= d.final /\ d.final <= streamed /\ streamed # None
         /\ \A r \in recorded : r < d.first
         /\ Tail(wire) # << >> => streamed # None
         /\ \A i \in DOMAIN Tail(wire) :
              /\ Tail(wire)[i].first \in Nat /\ Tail(wire)[i].final \in Nat
              /\ Tail(wire)[i].first <= Tail(wire)[i].final /\ Tail(wire)[i].final <= streamed
              /\ d.final < Tail(wire)[i].first
              /\ \A r \in recorded : r < Tail(wire)[i].first
         /\ \A i, j \in DOMAIN Tail(wire) :
              i < j => Tail(wire)[i].final < Tail(wire)[j].first
<1>1. wire \in Seq(SentDiff)
  BY DEF Past
<1>2. Head(wire) = wire[1] /\ 1 \in DOMAIN wire
  BY <1>1
<1>3. \A i \in DOMAIN Tail(wire) : /\ Tail(wire)[i] = wire[i + 1] /\ i \in Nat
                                   /\ i + 1 \in DOMAIN wire /\ 1 < i + 1
  BY <1>1
<1>4. ASSUME NEW i \in DOMAIN Tail(wire)
      PROVE  /\ wire[i + 1].first \in Nat /\ wire[i + 1].final \in Nat
             /\ wire[i + 1].first <= wire[i + 1].final /\ wire[i + 1].final <= streamed
             /\ wire[1].final < wire[i + 1].first
             /\ \A r \in recorded : r < wire[i + 1].first
  BY <1>2, <1>3, WireAt DEF SentInOrder
<1>5. ASSUME NEW i \in DOMAIN Tail(wire), NEW j \in DOMAIN Tail(wire), i < j
      PROVE  wire[i + 1].final < wire[j + 1].first
  <2>1. i + 1 < j + 1
    BY <1>3, <1>5
  <2>2. QED
    BY <1>3, <2>1 DEF SentInOrder
<1>6. /\ wire[1].first \in Nat /\ wire[1].final \in Nat
      /\ wire[1].first <= wire[1].final /\ wire[1].final <= streamed /\ streamed # None
      /\ \A r \in recorded : r < wire[1].first
  BY <1>2, WireAt DEF SentInOrder
<1>7. QED
  BY <1>2, <1>3, <1>4, <1>5, <1>6

-----------------------------------------------------------------------------
(* No step of the venue's or the recorder's breaks LossInv.                *)
LEMMA LossStep ==
  ASSUME BookInv, LossInv, [Next]_vars
  PROVE  LossInv'
<1> USE DEF None
<1>1. Past /\ SentInOrder /\ LeftType /\ NextIsUnread /\ GapMeansLossUntilTick
  BY DEF BookInv, LossInv
<1>2. /\ LastId \in Nat /\ (streamed # None => streamed \in Nat) /\ last \in Int
      /\ wire \in Seq(SentDiff) /\ streamed <= LastId
      /\ \A i \in DOMAIN wire : wire[i].first \in Nat /\ wire[i].final \in Nat
      /\ \A r \in recorded : r \in Nat /\ r <= LastId
  BY <1>1, WireAt DEF Past, SentInOrder, LastId
<1>3. CASE Update
  <2>1. LastId' = LastId + 1
    BY <1>1, <1>3 DEF Update, Past, LastId
  <2>2. SentInOrder'
    <3>1. \A r \in recorded : r \in Nat /\ r <= LastId + 1
      BY <1>2
    <3>2. UNCHANGED << streamed, wire, recorded >>
      BY <1>3 DEF Update
    <3>3. QED
      BY <1>1, <2>1, <3>1, <3>2 DEF SentInOrder
  <2>3. LeftType' /\ NextIsUnread' /\ (Ticked' <=> Ticked)
    BY <1>1, <1>3 DEF Update, BookUnchanged, LeftType, NextIsUnread, Ticked
  <2>4. GapMeansLossUntilTick'
    BY <1>3, <2>3, QuietStep DEF Update, BookUnchanged
  <2>5. QED
    BY <2>2, <2>3, <2>4 DEF LossInv
<1>4. CASE Subscribe
  <2>1. streamed = None /\ wire = << >>
    BY <1>1, <1>4 DEF Subscribe, SentInOrder
  <2>2. DOMAIN wire = {}
    BY <2>1
  <2>3. SentInOrder'
    BY <1>2, <1>4, <2>1, <2>2 DEF Subscribe, SentInOrder, LastId
  <2>4. LeftType' /\ NextIsUnread' /\ (Ticked' <=> Ticked)
    BY <1>1, <1>4 DEF Subscribe, BookUnchanged, LeftType, NextIsUnread, Ticked
  <2>5. GapMeansLossUntilTick'
    BY <1>4, <2>4, QuietStep DEF Subscribe, BookUnchanged
  <2>6. QED
    BY <2>3, <2>4, <2>5 DEF LossInv
<1>5. CASE SendDiff
  <2> DEFINE d == [first |-> streamed + 1, final |-> LastId]
  <2>1. /\ streamed \in Nat /\ streamed < LastId /\ wire' = Append(wire, d)
        /\ streamed' = LastId /\ recorded' = recorded /\ LastId' = LastId
    BY <1>2, <1>5 DEF SendDiff, LastId
  <2>2. d.first = streamed + 1 /\ d.final = LastId /\ d \in SentDiff
    BY <1>2, <2>1 DEF SentDiff
  <2> HIDE DEF d
  <2>3. /\ Len(wire) \in Nat /\ DOMAIN wire = 1 .. Len(wire)
        /\ DOMAIN wire' = 1 .. Len(wire) + 1 /\ wire'[Len(wire) + 1] = d
        /\ \A i \in DOMAIN wire : wire'[i] = wire[i]
    BY <1>2, <2>1, <2>2
  <2>4. \A r \in recorded : r <= streamed
    BY <1>1, <2>1 DEF SentInOrder
  <2>5. ASSUME NEW i \in DOMAIN wire'
        PROVE  /\ wire'[i].first <= wire'[i].final /\ wire'[i].final <= LastId
               /\ \A r \in recorded : r < wire'[i].first
    <3>1. CASE i \in DOMAIN wire
      BY <1>1, <1>2, <2>1, <2>3, <3>1 DEF SentInOrder
    <3>2. CASE i = Len(wire) + 1
      BY <1>2, <2>1, <2>2, <2>3, <2>4, <3>2
    <3>3. QED
      BY <2>3, <3>1, <3>2
  <2>6. ASSUME NEW i \in DOMAIN wire', NEW j \in DOMAIN wire', i < j
        PROVE  wire'[i].final < wire'[j].first
    <3>1. i \in DOMAIN wire
      BY <2>3, <2>6
    <3>2. CASE j \in DOMAIN wire
      BY <1>1, <2>3, <2>6, <3>1, <3>2 DEF SentInOrder
    <3>3. CASE j = Len(wire) + 1
      <4>1. wire[i].final <= streamed
        BY <1>1, <3>1 DEF SentInOrder
      <4>2. QED
        BY <1>2, <2>1, <2>2, <2>3, <3>1, <3>3, <4>1
    <3>4. QED
      BY <2>3, <3>2, <3>3
  <2>7. SentInOrder'
    BY <1>2, <2>1, <2>5, <2>6 DEF SentInOrder
  <2>8. LeftType' /\ NextIsUnread' /\ (Ticked' <=> Ticked)
    BY <1>1, <1>5 DEF SendDiff, BookUnchanged, LeftType, NextIsUnread, Ticked
  <2>9. GapMeansLossUntilTick'
    BY <1>5, <2>8, QuietStep DEF SendDiff, BookUnchanged
  <2>10. QED
    BY <2>7, <2>8, <2>9 DEF LossInv
<1>6. CASE SkipDiff
  <2>1. /\ streamed \in Nat /\ streamed < LastId /\ streamed' = LastId
        /\ recorded' = recorded /\ wire' = wire /\ LastId' = LastId /\ Spend("faults")
    BY <1>2, <1>6 DEF SkipDiff, LastId
  <2>2. \A i \in DOMAIN wire : wire[i].final <= LastId
    BY <1>1, <1>2, <2>1 DEF SentInOrder
  <2>3. SentInOrder'
    BY <1>1, <1>2, <2>1, <2>2 DEF SentInOrder
  <2>4. LeftType' /\ (Ticked' <=> Ticked)
    BY <1>1, <2>1, SpendStep
  <2>5. NextIsUnread'
    BY <1>1, <1>6, <2>4 DEF SkipDiff, BookUnchanged, NextIsUnread
  <2>6. GapMeansLossUntilTick'
    BY <1>6, <2>4, QuietStep DEF SkipDiff, BookUnchanged
  <2>7. QED
    BY <2>3, <2>4, <2>5, <2>6 DEF LossInv
<1>7. CASE Answer
  <2>1. SentInOrder' /\ LeftType' /\ (Ticked' <=> Ticked)
    BY <1>1, <1>7 DEF Answer, BookUnchanged, SentInOrder, LeftType, Ticked, LastId
  <2>2. NextIsUnread'
    BY <1>1, <1>2, <1>7, <2>1 DEF Answer, BookUnchanged, NextIsUnread
  <2>3. GapMeansLossUntilTick'
    BY <1>7, <2>1, QuietStep DEF Answer, BookUnchanged
  <2>4. QED
    BY <2>1, <2>2, <2>3 DEF LossInv
<1>8. CASE Connect
  <2>1. SentInOrder'
    BY <1>1, <1>8 DEF Connect, SentInOrder, LastId
  <2>2. LeftType' /\ (Ticked' <=> Ticked)
    BY <1>1, <1>8, SpendStep DEF Connect
  <2>3. NextIsUnread'
    BY <1>1, <1>8, <2>2 DEF Connect, BookUnchanged, NextIsUnread
  <2>4. GapMeansLossUntilTick'
    BY <1>8, <2>2, QuietStep DEF Connect, BookUnchanged
  <2>5. QED
    BY <2>1, <2>2, <2>3, <2>4 DEF LossInv
<1>9. CASE Tick
  <2>1. SentInOrder'
    BY <1>1, <1>9 DEF Tick, SentInOrder, LastId
  <2>2. LeftType' /\ Ticked'
    BY <1>1, <1>9, SpendStep DEF Tick
  <2>3. QED
    BY <2>1, <2>2 DEF LossInv, NextIsUnread, GapMeansLossUntilTick
<1>10. CASE PersistSnapshot
  <2>1. SentInOrder' /\ LeftType' /\ (Ticked' <=> Ticked)
    BY <1>1, <1>10 DEF PersistSnapshot, SentInOrder, LeftType, Ticked, LastId
  <2>2. outcome'.kind = "applied" /\ last' = answer /\ rest' = "idle" /\ recorded' = recorded
    BY <1>10 DEF PersistSnapshot, ResetWithSnapshot, NotApplied
  <2>3. GapMeansLossUntilTick'
    BY <2>2 DEF GapMeansLossUntilTick, GapMeansLoss
  <2>4. answer \in Nat
    BY <1>1, <1>10 DEF PersistSnapshot, Past
  <2>5. ~Ticked => answer + 1 \notin recorded
    <3>1. ~Ticked => \A r \in recorded : r <= answer
      BY <1>1, <1>10 DEF PersistSnapshot, NextIsUnread
    <3>2. QED
      BY <2>4, <3>1
  <2>6. NextIsUnread'
    BY <2>1, <2>2, <2>5 DEF NextIsUnread
  <2>7. QED
    BY <2>1, <2>3, <2>6 DEF LossInv
<1>11. CASE SnapshotFails
  <2>1. SentInOrder'
    BY <1>1, <1>11 DEF SnapshotFails, SentInOrder, LastId
  <2>2. LeftType' /\ (Ticked' <=> Ticked)
    BY <1>1, <1>11, SpendStep DEF SnapshotFails
  <2>3. NextIsUnread'
    BY <1>1, <1>11, <2>2 DEF SnapshotFails, BookUnchanged, NextIsUnread
  <2>4. GapMeansLossUntilTick'
    BY <1>11, <2>2, QuietStep DEF SnapshotFails, BookUnchanged
  <2>5. QED
    BY <2>1, <2>2, <2>3, <2>4 DEF LossInv
<1>12. CASE ReadDiff
  <2> DEFINE d == Head(wire)
  <2>1. /\ wire # << >> /\ wire' = Tail(wire) /\ conn = "reading"
        /\ recorded' = recorded \union (d.first .. d.final) /\ ApplyDiff(d)
        /\ streamed' = streamed /\ rest' = rest /\ answer' = answer /\ left' = left
        /\ conn' = conn /\ LastId' = LastId
    BY <1>12 DEF ReadDiff, LastId
  <2>2. /\ d.first \in Nat /\ d.final \in Nat
        /\ d.first <= d.final /\ d.final <= streamed /\ streamed # None
        /\ \A r \in recorded : r < d.first
    BY <1>1, <2>1, HeadIsFirst
  <2>3. \A i \in DOMAIN wire' :
          /\ wire'[i].first \in Nat /\ wire'[i].final \in Nat
          /\ wire'[i].first <= wire'[i].final /\ wire'[i].final <= streamed
          /\ d.final < wire'[i].first
          /\ \A r \in recorded : r < wire'[i].first
    BY <1>1, <2>1, HeadIsFirst
  <2>4. \A i, j \in DOMAIN wire' : i < j => wire'[i].final < wire'[j].first
    BY <1>1, <2>1, HeadIsFirst
  <2> HIDE DEF d
  <2>5. streamed \in Nat /\ \A r \in recorded' : r \in Nat /\ r <= streamed
    <3>1. \A r \in recorded : r \in Nat /\ r <= streamed
      BY <1>1, <2>2 DEF SentInOrder
    <3>2. \A r \in d.first .. d.final : r \in Nat /\ r <= streamed
      BY <1>2, <2>2
    <3>3. QED
      BY <1>2, <2>1, <2>2, <3>1, <3>2
  <2>6. \A i \in DOMAIN wire' : \A r \in recorded' : r < wire'[i].first
    <3>1. \A i \in DOMAIN wire' : \A r \in d.first .. d.final : r < wire'[i].first
      BY <2>2, <2>3
    <3>2. QED
      BY <2>1, <2>3, <3>1
  <2>7. SentInOrder'
    <3>1. \A r \in recorded' : r \in Nat /\ r <= LastId
      BY <1>2, <2>5
    <3>2. QED
      BY <2>1, <2>2, <2>3, <2>4, <2>5, <2>6, <3>1 DEF SentInOrder
  <2>8. LeftType' /\ (Ticked' <=> Ticked)
    BY <1>1, <2>1 DEF LeftType, Ticked
  <2>9. SUFFICES ASSUME ~Ticked PROVE NextIsUnread' /\ GapMeansLossUntilTick'
    BY <2>7, <2>8 DEF LossInv, NextIsUnread, GapMeansLossUntilTick
  <2>10. /\ rest = "idle" /\ rest' = "idle"
         /\ last # None => last \in Nat /\ last + 1 \notin recorded
    BY <1>1, <2>1, <2>9 DEF NextIsUnread, Past
  <2>11. CASE last = None \/ Stale(d)
    <3>1. outcome'.kind = "skipped" /\ last' = last
      BY <2>1, <2>11 DEF ApplyDiff, NotApplied
    <3>2. last' # None => last + 1 \notin d.first .. d.final
      BY <2>2, <2>10, <2>11, <3>1 DEF Stale
    <3>3. last' # None => last' + 1 \notin recorded'
      BY <2>1, <2>10, <3>1, <3>2
    <3>4. QED
      BY <2>10, <3>1, <3>3 DEF NextIsUnread, GapMeansLossUntilTick, GapMeansLoss
  <2>12. CASE last # None /\ ~Stale(d) /\ Gapped(d)
    <3>1. /\ outcome' = [kind |-> "gap", expected |-> last + 1, got |-> d.first]
          /\ last' = last
      BY <2>1, <2>12 DEF ApplyDiff
    <3>2. /\ last + 1 \notin d.first .. d.final
          /\ last + 1 \in last + 1 .. d.first - 1
      BY <2>2, <2>10, <2>12 DEF Gapped
    <3>3. last + 1 \notin recorded'
      BY <2>1, <2>10, <2>12, <3>2
    <3>4. \E k \in outcome'.expected .. outcome'.got - 1 : k \notin recorded'
      BY <3>1, <3>2, <3>3
    <3>5. QED
      BY <2>10, <3>1, <3>3, <3>4 DEF NextIsUnread, GapMeansLossUntilTick, GapMeansLoss
  <2>13. CASE last # None /\ ~Stale(d) /\ ~Gapped(d)
    <3>1. outcome'.kind = "applied" /\ last' = d.final
      BY <2>1, <2>13 DEF ApplyDiff, NotApplied
    <3>2. d.final + 1 \notin recorded
      BY <2>2
    <3>3. d.final + 1 \notin d.first .. d.final
      BY <2>2
    <3>4. last' + 1 \notin recorded'
      BY <2>1, <3>1, <3>2, <3>3
    <3>5. QED
      BY <2>10, <3>1, <3>4 DEF NextIsUnread, GapMeansLossUntilTick, GapMeansLoss
  <2>14. QED
    BY <2>11, <2>12, <2>13
<1>13. CASE RecordFails
  <2>1. wire # << >> /\ wire' = Tail(wire) /\ streamed' = streamed /\ recorded' = recorded
        /\ LastId' = LastId /\ Spend("faults")
    BY <1>13 DEF RecordFails, LastId
  <2>2. /\ streamed # None
        /\ \A i \in DOMAIN wire' :
             /\ wire'[i].first <= wire'[i].final /\ wire'[i].final <= streamed
             /\ \A r \in recorded : r < wire'[i].first
        /\ \A i, j \in DOMAIN wire' : i < j => wire'[i].final < wire'[j].first
    BY <1>1, <2>1, HeadIsFirst
  <2>3. SentInOrder'
    BY <1>1, <2>1, <2>2 DEF SentInOrder
  <2>4. LeftType' /\ (Ticked' <=> Ticked)
    BY <1>1, <2>1, SpendStep
  <2>5. NextIsUnread'
    BY <1>1, <1>13, <2>4 DEF RecordFails, BookUnchanged, NextIsUnread
  <2>6. GapMeansLossUntilTick'
    BY <1>13, <2>4, QuietStep DEF RecordFails, BookUnchanged
  <2>7. QED
    BY <2>3, <2>4, <2>5, <2>6 DEF LossInv
<1>14. CASE Disconnect
  <2>1. streamed' = None /\ wire' = << >> /\ recorded' = recorded /\ LastId' = LastId
    BY <1>14 DEF Disconnect, LastId
  <2>2. SentInOrder'
    <3>1. DOMAIN wire' = {}
      BY <2>1
    <3>2. QED
      BY <1>2, <2>1, <3>1 DEF SentInOrder
  <2>3. LeftType' /\ NextIsUnread' /\ (Ticked' <=> Ticked)
    BY <1>1, <1>14 DEF Disconnect, BookUnchanged, LeftType, NextIsUnread, Ticked
  <2>4. GapMeansLossUntilTick'
    BY <1>14, <2>3, QuietStep DEF Disconnect, BookUnchanged
  <2>5. QED
    BY <2>2, <2>3, <2>4 DEF LossInv
<1>15. CASE UNCHANGED vars
  <2>1. /\ SentInOrder' /\ LeftType' /\ NextIsUnread' /\ (Ticked' <=> Ticked)
    BY <1>1, <1>15 DEF vars, SentInOrder, LeftType, NextIsUnread, Ticked, LastId
  <2>2. GapMeansLossUntilTick'
    BY <1>15, <2>1, QuietStep DEF vars
  <2>3. QED
    BY <2>1, <2>2 DEF LossInv
<1>16. QED
  BY <1>3, <1>4, <1>5, <1>6, <1>7, <1>8, <1>9, <1>10, <1>11, <1>12, <1>13, <1>14, <1>15
     DEF Next, BoundsSpent

(* Nothing is recorded at first, and no gap reported.                      *)
LEMMA LossInit ==
  ASSUME Init
  PROVE  LossInv
<1>1. SentInOrder
  <2>1. DOMAIN wire = {} /\ wire = << >> /\ recorded = {}
    BY DEF Init
  <2>2. QED
    BY <2>1 DEF SentInOrder
<1>2. LeftType
  BY DepthBookAssumption DEF Init, LeftType
<1>3. NextIsUnread /\ GapMeansLossUntilTick
  BY DEF Init, NextIsUnread, GapMeansLossUntilTick, GapMeansLoss, NotApplied
<1>4. QED
  BY <1>1, <1>2, <1>3 DEF LossInv

(* Until the 600 s interval ticks for the first time, apply_diff reports a *)
(* Gap only over an update that no record has, whatever the venue or the   *)
(* store lost and however the recorder reconnected.                        *)
THEOREM GapsAreLosses == Spec => []GapMeansLossUntilTick
<1>1. Init => BookInv /\ LossInv
  BY InitIsSound, LossInit
<1>2. BookInv /\ LossInv /\ [Next]_vars => BookInv' /\ LossInv'
  BY StepIsSound, LossStep
<1>3. LossInv => GapMeansLossUntilTick
  BY DEF LossInv
<1>4. QED
  BY <1>1, <1>2, <1>3, PTL DEF Spec
=============================================================================
