----------------------------- MODULE SweepProofs -----------------------------
(***************************************************************************)
(* The sweeper records no market twice, and what the sidecar has lost      *)
(* shows, for any number of markets, any page size, and any number of      *)
(* appends that fail or are cut short, wherever the process ends.          *)
(***************************************************************************)
EXTENDS Sweep, SequenceTheorems, FiniteSetTheorems, TLAPS

PieceType == [market : Market, kind : Cut \union {"whole"}]
WholeAt(i) == i \in DOMAIN sidecar /\ sidecar[i].kind = "whole"
Torn       == {i \in DOMAIN sidecar : sidecar[i].kind # "whole"}

(* What is remembered is what was written whole, each once; a record that  *)
(* was cut short behind all others is of a market that is not remembered.  *)
SweepInv ==
  /\ seen \subseteq Market
  /\ sidecar \in Seq(PieceType)
  /\ \A i, j \in DOMAIN sidecar :
       WholeAt(i) /\ WholeAt(j) /\ sidecar[i].market = sidecar[j].market => i = j
  /\ \A i \in DOMAIN sidecar : WholeAt(i) => sidecar[i].market \in seen
  /\ \A m \in seen : \E i \in DOMAIN sidecar : WholeAt(i) /\ sidecar[i].market = m
  /\ \A i \in Torn : i = Len(sidecar) => sidecar[i].market \notin seen
  /\ IsFiniteSet(Torn) /\ Cardinality(Torn) = torn

-----------------------------------------------------------------------------
(* What one more piece makes of the sidecar.                               *)
LEMMA OneMorePiece ==
  ASSUME SweepInv, NEW p \in PieceType, sidecar' = Append(sidecar, p)
  PROVE  /\ Len(sidecar) \in Nat /\ sidecar' \in Seq(PieceType)
         /\ Len(sidecar') = Len(sidecar) + 1
         /\ DOMAIN sidecar = 1 .. Len(sidecar)
         /\ DOMAIN sidecar' = 1 .. Len(sidecar) + 1
         /\ \A i \in DOMAIN sidecar : sidecar'[i] = sidecar[i]
         /\ sidecar'[Len(sidecar) + 1] = p
  BY DEF SweepInv

(* A record that is written whole is the only one of its market.           *)
LEMMA AppendKeepsInv ==
  ASSUME SweepInv, NEW m \in Market, AppendResolution(m)
  PROVE  SweepInv'
<1>0. PICK n \in Nat : n = Len(sidecar)
  BY DEF SweepInv
<1> DEFINE p == Piece(m, "whole")
<1>1. /\ m \notin seen /\ sidecar' = Append(sidecar, p) /\ seen' = seen \union {m}
      /\ torn' = torn
  BY DEF AppendResolution, ToAppend
<1>2. p \in PieceType /\ p.market = m /\ p.kind = "whole"
  BY DEF Piece, PieceType
<1> HIDE DEF p
<1>3. /\ n \in Nat /\ sidecar' \in Seq(PieceType) /\ Len(sidecar') = n + 1
      /\ DOMAIN sidecar = 1 .. n /\ DOMAIN sidecar' = 1 .. n + 1
      /\ \A i \in DOMAIN sidecar : sidecar'[i] = sidecar[i]
      /\ sidecar'[n + 1] = p
  BY <1>0, <1>1, <1>2, OneMorePiece
<1>4. \A i \in DOMAIN sidecar : WholeAt(i)' <=> WholeAt(i)
  BY <1>3 DEF WholeAt
<1>5. WholeAt(n + 1)'
  BY <1>2, <1>3 DEF WholeAt
<1>6. \A i \in DOMAIN sidecar' : i \in DOMAIN sidecar \/ i = n + 1
  BY <1>3
<1>7. Torn' = Torn
  <2>1. \A i : i \in Torn' <=> i \in Torn
    BY <1>2, <1>3, <1>6 DEF Torn
  <2>2. QED
    BY <2>1
<1>8. \A i \in DOMAIN sidecar : WholeAt(i) => sidecar[i].market # m
  BY <1>1 DEF SweepInv
<1>9. ASSUME NEW i \in DOMAIN sidecar', NEW j \in DOMAIN sidecar',
             WholeAt(i)', WholeAt(j)', sidecar'[i].market = sidecar'[j].market
      PROVE  i = j
  <2>1. CASE i \in DOMAIN sidecar /\ j \in DOMAIN sidecar
    BY <1>3, <1>4, <1>9, <2>1 DEF SweepInv
  <2>2. CASE i = n + 1 /\ j \in DOMAIN sidecar
    BY <1>2, <1>3, <1>4, <1>8, <1>9, <2>2
  <2>3. CASE j = n + 1 /\ i \in DOMAIN sidecar
    BY <1>2, <1>3, <1>4, <1>8, <1>9, <2>3
  <2>4. QED
    BY <1>6, <2>1, <2>2, <2>3
<1>10. \A i \in DOMAIN sidecar' : WholeAt(i)' => sidecar'[i].market \in seen'
  BY <1>1, <1>2, <1>3, <1>4, <1>6 DEF SweepInv
<1>11. ASSUME NEW x \in seen'
       PROVE  \E i \in DOMAIN sidecar' : WholeAt(i)' /\ sidecar'[i].market = x
  <2>1. CASE x \in seen
    <3>1. PICK i \in DOMAIN sidecar : WholeAt(i) /\ sidecar[i].market = x
      BY <2>1 DEF SweepInv
    <3>2. i \in DOMAIN sidecar' /\ WholeAt(i)' /\ sidecar'[i].market = x
      BY <1>3, <1>4, <3>1
    <3>3. QED
      BY <3>2
  <2>2. CASE x = m
    BY <1>2, <1>3, <1>5, <2>2
  <2>3. QED
    BY <1>1, <2>1, <2>2
<1>12. \A i \in Torn : i # Len(sidecar')
  BY <1>3 DEF Torn
<1>13. QED
  BY <1>1, <1>3, <1>7, <1>9, <1>10, <1>11, <1>12 DEF SweepInv

(* A record that is cut short is of a market that is not remembered.       *)
LEMMA TearKeepsInv ==
  ASSUME SweepInv, NEW m \in Market, NEW kind \in Cut, ToAppend(m),
         sidecar' = Append(sidecar, Piece(m, kind)), seen' = seen, torn' = torn + 1
  PROVE  SweepInv'
<1>0. PICK n \in Nat : n = Len(sidecar)
  BY DEF SweepInv
<1> DEFINE p == Piece(m, kind)
<1>1. m \notin seen
  BY DEF ToAppend
<1>2. p \in PieceType /\ p.market = m /\ p.kind # "whole"
  BY DEF Piece, PieceType, Cut
<1>3. sidecar' = Append(sidecar, p)
  OBVIOUS
<1> HIDE DEF p
<1>4. /\ n \in Nat /\ sidecar' \in Seq(PieceType) /\ Len(sidecar') = n + 1
      /\ DOMAIN sidecar = 1 .. n /\ DOMAIN sidecar' = 1 .. n + 1
      /\ \A i \in DOMAIN sidecar : sidecar'[i] = sidecar[i]
      /\ sidecar'[n + 1] = p
  BY <1>0, <1>2, <1>3, OneMorePiece
<1>5. \A i : WholeAt(i)' <=> WholeAt(i)
  <2>1. \A i \in DOMAIN sidecar : WholeAt(i)' <=> WholeAt(i)
    BY <1>4 DEF WholeAt
  <2>2. ~WholeAt(n + 1)' /\ ~WholeAt(n + 1)
    BY <1>2, <1>4 DEF WholeAt
  <2>3. \A i : WholeAt(i)' => i \in DOMAIN sidecar \/ i = n + 1
    BY <1>4 DEF WholeAt
  <2>4. QED
    BY <2>1, <2>2, <2>3 DEF WholeAt
<1>6. Torn' = Torn \union {n + 1} /\ n + 1 \notin Torn
  <2>1. \A i : i \in Torn' <=> i \in Torn \/ i = n + 1
    BY <1>2, <1>4 DEF Torn
  <2>2. QED
    BY <1>4, <2>1 DEF Torn
<1>7. IsFiniteSet(Torn') /\ Cardinality(Torn') = torn'
  BY <1>6, FS_AddElement DEF SweepInv
<1>8. \A i : WholeAt(i)' => i \in DOMAIN sidecar /\ i \in DOMAIN sidecar'
                            /\ sidecar'[i].market = sidecar[i].market
  BY <1>4, <1>5 DEF WholeAt
<1>9. \A i, j \in DOMAIN sidecar' :
        WholeAt(i)' /\ WholeAt(j)' /\ sidecar'[i].market = sidecar'[j].market => i = j
  BY <1>5, <1>8 DEF SweepInv
<1>10. \A i \in DOMAIN sidecar' : WholeAt(i)' => sidecar'[i].market \in seen'
  BY <1>5, <1>8 DEF SweepInv
<1>11. \A x \in seen' : \E i \in DOMAIN sidecar' : WholeAt(i)' /\ sidecar'[i].market = x
  BY <1>5, <1>8 DEF SweepInv
<1>12. \A i \in Torn' : i = Len(sidecar') => sidecar'[i].market \notin seen'
  BY <1>1, <1>2, <1>4
<1>13. seen' \subseteq Market
  BY DEF SweepInv
<1>14. QED
  BY <1>4, <1>7, <1>9, <1>10, <1>11, <1>12, <1>13 DEF SweepInv

(* The sidecar and the memory grow by appends alone.                       *)
LEMMA SweepStep ==
  ASSUME SweepInv, [Next]_vars
  PROVE  SweepInv'
<1>1. CASE UNCHANGED << seen, sidecar, torn >>
  BY <1>1 DEF SweepInv, WholeAt, Torn
<1>2. ASSUME NEW m \in Market, AppendResolution(m)
      PROVE  SweepInv'
  BY <1>2, AppendKeepsInv
<1>3. ASSUME NEW m \in Market, NEW kind \in Cut, AppendTears(m, kind)
      PROVE  SweepInv'
  BY <1>3, TearKeepsInv DEF AppendTears
<1>4. CASE Die
  BY <1>1, <1>4, TearKeepsInv DEF Die
<1>5. ASSUME NEW m \in Market,
             \/ Skip(m) \/ BuildFails(m) \/ CloseMarket(m) \/ Settle(m) \/ AppendFails(m)
      PROVE  SweepInv'
  BY <1>1, <1>5 DEF Skip, BuildFails, CloseMarket, Settle, AppendFails
<1>6. CASE Fetch \/ Sleep \/ UNCHANGED vars
  BY <1>1, <1>6 DEF Fetch, Sleep, vars
<1>7. QED
  BY <1>2, <1>3, <1>4, <1>5, <1>6 DEF Next, Progress

(* Nothing is recorded and nothing remembered at first.                    *)
LEMMA SweepStart ==
  ASSUME Init
  PROVE  SweepInv
<1>1. sidecar = << >> /\ DOMAIN sidecar = {} /\ seen = {} /\ torn = 0
  BY DEF Init
<1>2. Torn = {} /\ sidecar \in Seq(PieceType)
  BY <1>1 DEF Torn
<1>3. QED
  BY <1>1, <1>2, FS_EmptySet DEF SweepInv, WholeAt

-----------------------------------------------------------------------------
(* Two readable records of a market would be two pieces written whole, or  *)
(* one behind all others that was not.                                     *)
LEMMA NoneIsRecordedTwice ==
  ASSUME SweepInv
  PROVE  RecordedOnce
<1> SUFFICES ASSUME NEW m \in Market PROVE Cardinality(RecordsOf(m)) <= 1
  BY DEF RecordedOnce
<1>1. ASSUME NEW l \in RecordsOf(m)
      PROVE  /\ l[1] \in DOMAIN sidecar /\ l = << l[1], l[1] >>
             /\ sidecar[l[1]].market = m
             /\ WholeAt(l[1]) \/ (l[1] \in Torn /\ l[1] = Len(sidecar))
  BY <1>1 DEF RecordsOf, Line, Parses, Ends, WholeAt, Torn
<1>2. ASSUME NEW k \in RecordsOf(m), NEW l \in RecordsOf(m)
      PROVE  k = l
  <2>1. CASE WholeAt(k[1]) /\ WholeAt(l[1])
    <3>1. k[1] = l[1]
      BY <1>1, <2>1 DEF SweepInv
    <3>2. QED
      BY <1>1, <3>1
  <2>2. CASE k[1] = Len(sidecar) /\ l[1] = Len(sidecar)
    BY <1>1, <2>2
  <2>3. ASSUME NEW x \in RecordsOf(m), NEW y \in RecordsOf(m), WholeAt(x[1]), y[1] \in Torn,
               y[1] = Len(sidecar)
        PROVE  FALSE
    <3>1. m \in seen
      BY <1>1, <2>3 DEF SweepInv
    <3>2. m \notin seen
      BY <1>1, <2>3 DEF SweepInv
    <3>3. QED
      BY <3>1, <3>2
  <2>4. QED
    BY <1>1, <2>1, <2>2, <2>3
<1>3. CASE RecordsOf(m) = {}
  BY <1>3, FS_EmptySet
<1>4. CASE RecordsOf(m) # {}
  <2>1. PICK l : l \in RecordsOf(m)
    BY <1>4
  <2>2. RecordsOf(m) = {l}
    BY <1>2, <2>1
  <2>3. Cardinality(RecordsOf(m)) = 1
    BY <2>2, FS_Singleton
  <2>4. QED
    BY <2>3
<1>5. QED
  BY <1>3, <1>4

-----------------------------------------------------------------------------
(* A set of numbers that is not empty has a least one.                     *)
LEMMA SmallestOf ==
  ASSUME NEW S \in SUBSET Nat, S # {}
  PROVE  \E x \in S : \A y \in S : x <= y
<1>1. PICK x \in S : \A y \in S : ~(<<y, x>> \in OpToRel(<, Nat))
  BY WFMin, NatLessThanWellFounded, Zenon
<1>2. \A y \in S : ~(y < x)
  BY <1>1 DEF OpToRel
<1>3. QED
  BY <1>2

(* A piece that ends a line is in one that begins at it or before it.      *)
LEMMA LineBegins ==
  ASSUME sidecar \in Seq(PieceType), NEW i \in DOMAIN sidecar
  PROVE  \E a \in 1 .. i : Begins(a) /\ \A k \in a .. i - 1 : ~Ends(k)
<1>1. i \in Nat /\ i \in 1 .. Len(sidecar) /\ Len(sidecar) \in Nat
      /\ DOMAIN sidecar = 1 .. Len(sidecar)
  OBVIOUS
<1> DEFINE S == {j \in 0 .. i - 1 : Begins(i - j)}
<1>2. i - 1 \in S
  BY <1>1 DEF Begins
<1>3. S \in SUBSET Nat
  OBVIOUS
<1>4. PICK j \in S : \A y \in S : j <= y
  BY <1>2, <1>3, SmallestOf
<1>5. i - j \in 1 .. i /\ Begins(i - j)
  BY <1>1, <1>4
<1>6. ASSUME NEW k \in (i - j) .. i - 1, Ends(k)
      PROVE  FALSE
  <2>1. k \in Nat /\ k < Len(sidecar) /\ i - (k + 1) \in 0 .. i - 1 /\ i - (i - (k + 1)) = k + 1
    BY <1>1, <1>4
  <2>2. sidecar[k].kind = "whole"
    BY <1>6, <2>1 DEF Ends
  <2>3. Begins(k + 1)
    BY <2>1, <2>2 DEF Begins
  <2>4. i - (k + 1) \in S
    BY <2>1, <2>3
  <2>5. j <= i - (k + 1)
    BY <1>4, <2>4
  <2>6. QED
    BY <1>1, <1>4, <2>1, <2>5
<1>7. QED
  BY <1>5, <1>6

(* validate reads as far as the first line that it cannot parse.           *)
LEMMA BadLineShows ==
  ASSUME sidecar \in Seq(PieceType), NEW b \in Line, ~Parses(b)
  PROVE  Verdict = "FAIL"
<1> DEFINE Bad == {l \in Line : ~Parses(l)}
           S   == {l[2] : l \in Bad}
<1>1. \A l \in Line : l[1] \in Nat /\ l[2] \in Nat /\ l[1] <= l[2]
  BY DEF Line
<1>2. S \in SUBSET Nat /\ S # {}
  BY <1>1
<1>3. PICK x \in S : \A y \in S : x <= y
  BY <1>2, SmallestOf
<1>4. PICK l \in Line : ~Parses(l) /\ x = l[2]
  BY <1>3
<1>5. ASSUME NEW k \in Line, k[2] < l[1]
      PROVE  Utf8(k)
  <2>1. ~(l[2] <= k[2])
    BY <1>1, <1>5
  <2>2. k[2] \notin S
    BY <1>3, <1>4, <2>1
  <2>3. Parses(k)
    BY <2>2
  <2>4. k[1] = k[2] /\ sidecar[k[1]].kind # "char" /\ k[1] \in Nat
    BY <1>1, <2>3 DEF Parses
  <2>5. QED
    BY <2>4 DEF Utf8
<1>6. l \in ParseErrors
  BY <1>4, <1>5 DEF ParseErrors, Reads
<1>7. ParseErrors # {}
  BY <1>6
<1>8. QED
  BY <1>7 DEF Verdict

(* A remembered record that cannot be read stands behind one cut short.    *)
LEMMA LostIsGlued ==
  ASSUME SweepInv, NEW m \in Lost, NEW i \in DOMAIN sidecar,
         WholeAt(i), sidecar[i].market = m
  PROVE  i \in Nat /\ i # 1 /\ i - 1 \in Torn /\ ~Begins(i) /\ Ends(i)
<1>1. i \in Nat /\ i \in 1 .. Len(sidecar) /\ Len(sidecar) \in Nat
      /\ DOMAIN sidecar = 1 .. Len(sidecar)
  BY DEF SweepInv
<1>2. Ends(i) /\ sidecar[i].kind = "whole"
  BY DEF Ends, WholeAt
<1>3. ~Begins(i)
  <2>1. SUFFICES ASSUME Begins(i) PROVE FALSE
    OBVIOUS
  <2>2. << i, i >> \in Line
    BY <1>1, <1>2, <2>1 DEF Line
  <2>3. Parses(<< i, i >>)
    BY <1>2 DEF Parses
  <2>4. << i, i >> \in RecordsOf(m)
    BY <2>2, <2>3 DEF RecordsOf
  <2>5. QED
    BY <2>4 DEF Lost
<1>4. i # 1 /\ sidecar[i - 1].kind # "whole"
  BY <1>3 DEF Begins
<1>5. i - 1 \in DOMAIN sidecar
  BY <1>1, <1>4
<1>6. QED
  BY <1>1, <1>2, <1>3, <1>4, <1>5 DEF Torn

(* So the line it ends fails the check, and its tear is its own.           *)
LEMMA LossShows ==
  ASSUME SweepInv
  PROVE  LossSurfaces
<1>1. sidecar \in Seq(PieceType)
  BY DEF SweepInv
<1> DEFINE WhereOf(m) == CHOOSE i \in DOMAIN sidecar : WholeAt(i) /\ sidecar[i].market = m
           tear == [m \in Lost |-> WhereOf(m) - 1]
<1>2. ASSUME NEW m \in Lost
      PROVE  /\ WhereOf(m) \in DOMAIN sidecar /\ WholeAt(WhereOf(m)) /\ sidecar[WhereOf(m)].market = m
             /\ WhereOf(m) \in Nat /\ WhereOf(m) # 1 /\ WhereOf(m) - 1 \in Torn
             /\ ~Begins(WhereOf(m)) /\ Ends(WhereOf(m))
  <2>1. m \in seen
    BY DEF Lost
  <2>2. \E i \in DOMAIN sidecar : WholeAt(i) /\ sidecar[i].market = m
    BY <2>1 DEF SweepInv
  <2>3. WhereOf(m) \in DOMAIN sidecar /\ WholeAt(WhereOf(m)) /\ sidecar[WhereOf(m)].market = m
    BY <2>2
  <2>4. QED
    BY <2>3, LostIsGlued
<1> HIDE DEF WhereOf
<1>3. Lost # {} => Verdict = "FAIL"
  <2>1. SUFFICES ASSUME NEW m \in Lost PROVE Verdict = "FAIL"
    OBVIOUS
  <2>2. PICK i \in DOMAIN sidecar : i = WhereOf(m)
    BY <1>2
  <2>3. i \in Nat /\ ~Begins(i) /\ Ends(i)
    BY <1>2, <2>2
  <2>4. PICK a \in 1 .. i : Begins(a) /\ \A k \in a .. i - 1 : ~Ends(k)
    BY <1>1, LineBegins
  <2>5. a \in DOMAIN sidecar /\ a # i
    BY <1>1, <2>3, <2>4
  <2>6. << a, i >> \in Line
    BY <2>3, <2>4, <2>5 DEF Line
  <2>7. ~Parses(<< a, i >>)
    BY <2>5 DEF Parses
  <2>8. QED
    BY <1>1, <2>6, <2>7, BadLineShows
<1>4. tear \in Injection(Lost, Torn)
  <2>1. tear \in [Lost -> Torn]
    BY <1>2
  <2>2. ASSUME NEW x \in Lost, NEW y \in Lost, tear[x] = tear[y]
        PROVE  x = y
    <3>1. WhereOf(x) = WhereOf(y)
      BY <1>2, <2>2
    <3>2. QED
      BY <1>2, <3>1
  <2>3. QED
    BY <2>1, <2>2 DEF Injection, IsInjective
<1>5. Cardinality(Lost) <= torn
  BY <1>4, FS_Injection DEF SweepInv
<1>6. QED
  BY <1>3, <1>5 DEF LossSurfaces

-----------------------------------------------------------------------------
(* SweepInv holds throughout.                                              *)
THEOREM SweepInvariant == Spec => []SweepInv
<1>1. Init => SweepInv
  BY SweepStart
<1>2. SweepInv /\ [Next]_vars => SweepInv'
  BY SweepStep
<1>3. QED
  BY <1>1, <1>2, PTL DEF Spec

(* No market has two records in the sidecar that can be read, however      *)
(* often a sweep lists or retries it (append_resolution, seen).            *)
THEOREM NoMarketTwice == Spec => []RecordedOnce
<1>1. SweepInv => RecordedOnce
  BY NoneIsRecordedTwice
<1>2. QED
  BY <1>1, SweepInvariant, PTL

(* A record that was lost behind a torn one fails validate-resolutions,    *)
(* and each such loss has a torn append of its own.                        *)
THEOREM LossesSurface == Spec => []LossSurfaces
<1>1. SweepInv => LossSurfaces
  BY LossShows
<1>2. QED
  BY <1>1, SweepInvariant, PTL
=============================================================================
