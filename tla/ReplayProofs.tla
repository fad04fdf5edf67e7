----------------------------- MODULE ReplayProofs ----------------------------
(***************************************************************************)
(* The merge is in order, for any number of files of any length and        *)
(* content, sound or damaged.  What the pacer does to the merged stream:   *)
(* nothing is released early and the offsets reorder it by no more than    *)
(* they differ, for any speed, any offsets and any delays.  What the       *)
(* commands print and export is what was recorded, for any of them.        *)
(***************************************************************************)
EXTENDS Replay, SequenceTheorems, FiniteSetTheorems, WellFoundedInduction, TLAPS

(* An entry of the heap is the line its file's reader stands on.           *)
EntrySound(e) ==
  /\ e.file \in File
  /\ e.line = pos[e.file] /\ e.line \in DOMAIN file[e.file]
  /\ file[e.file][e.line].ok /\ e.ts = file[e.file][e.line].ts

HeapSound == heap \in SUBSET Entry /\ \A e \in heap : EntrySound(e)

(* While the files are opened nothing is read of those to come.            *)
OpeningSound ==
  phase = "opening" => out = << >> /\ \A e \in heap : e.file <= primed

(* A delivered event is in front of what its file offers next.             *)
Behind(r, e) == r.file = e.file => r.line < e.line

(* Everything delivered came when file e.file offered something up to e    *)
(* that is not smaller.                                                    *)
Bounded(r, e) ==
  \E k \in 1 .. e.line :
    /\ file[e.file][k].ok
    /\ \/ r.ts < file[e.file][k].ts
       \/ r.ts = file[e.file][k].ts /\ r.file <= e.file

OrderSound ==
  \A i \in DOMAIN out : out[i].ok => \A e \in heap : Behind(out[i], e) /\ Bounded(out[i], e)

MergeInv == TypeOK /\ HeapSound /\ OpeningSound /\ OrderSound /\ MergedInOrder

-----------------------------------------------------------------------------
(* A set of numbers that is not empty has a least one.                     *)
LEMMA LeastIsIn ==
  ASSUME NEW S \in SUBSET Nat, S # {}
  PROVE  \E x \in S : \A y \in S : x <= y
<1>1. PICK R : R = OpToRel(<, Nat)
  OBVIOUS
<1>2. IsWellFoundedOn(R, Nat)
  BY <1>1, NatLessThanWellFounded
<1>3. PICK x \in S : \A y \in S : <<y, x>> \notin R
  BY <1>2, WFMin, Zenon
<1>4. \A y \in S : ~(y < x)
  BY <1>1, <1>3 DEF OpToRel
<1>5. QED
  BY <1>4

(* Where a reader that is not at its end stops.                            *)
LEMMA NextLineIsAhead ==
  ASSUME TypeOK, NEW f \in File, ~AtEnd(f)
  PROVE  /\ NextLine(f) \in Stops(f)
         /\ NextLine(f) \in pos[f] + 1 .. Len(file[f])
         /\ NextLine(f) \in Nat /\ pos[f] < NextLine(f)
<1>1. pos[f] \in Nat /\ file[f] \in Seq(Line)
  BY DEF TypeOK
<1>2. Stops(f) \in SUBSET Nat /\ Stops(f) # {}
  BY <1>1 DEF Stops, AtEnd
<1>3. NextLine(f) \in Stops(f)
  BY <1>2, LeastIsIn DEF NextLine
<1>4. NextLine(f) \in pos[f] + 1 .. Len(file[f])
  BY <1>3 DEF Stops
<1>5. QED
  BY <1>1, <1>3, <1>4

(* A line of a file is an event or broken, with the types of either.      *)
LEMMA LineAt ==
  ASSUME TypeOK, NEW f \in File, NEW j \in DOMAIN file[f]
  PROVE  /\ file[f][j] \in Line
         /\ file[f][j].ts \in Ts /\ file[f][j].ok \in BOOLEAN
         /\ j \in Nat /\ j \in 1 .. Len(file[f])
<1>1. file[f] \in Seq(Line)
  BY DEF TypeOK
<1>2. file[f][j] \in Line
  BY <1>1, ElementOfSeq
<1>3. 0 \in Ts
  BY MergeAssumption DEF Ts
<1>4. ASSUME NEW x \in Line PROVE x.ts \in Ts /\ x.ok \in BOOLEAN
  <2>1. CASE x \in Event
    BY <2>1 DEF Event
  <2>2. CASE x = Broken
    BY <1>3, <2>2 DEF Broken
  <2>3. QED
    BY <2>1, <2>2 DEF Line
<1>5. QED
  BY <1>1, <1>2, <1>4

(* What a file offers when its reader is read on.                          *)
LEMMA OfferedIsSound ==
  ASSUME TypeOK, NEW f \in File, ~Fails(f), NEW o \in Offered(f)
  PROVE  /\ o \in Entry
         /\ o.file = f /\ o.line = ReadTo(f) /\ pos[f] < o.line
         /\ o.line \in DOMAIN file[f]
         /\ file[f][o.line].ok /\ o.ts = file[f][o.line].ts
<1>1. ~AtEnd(f)
  BY DEF Offered
<1>2. o = [ts |-> file[f][NextLine(f)].ts, file |-> f, line |-> NextLine(f)]
  BY <1>1 DEF Offered
<1>3. NextLine(f) \in pos[f] + 1 .. Len(file[f]) /\ NextLine(f) \in Nat /\ pos[f] < NextLine(f)
  BY <1>1, NextLineIsAhead
<1>4. NextLine(f) \in DOMAIN file[f]
  BY <1>3 DEF TypeOK
<1>5. file[f][NextLine(f)].ok /\ file[f][NextLine(f)].ts \in Ts
  BY <1>1, <1>4, LineAt DEF Fails
<1>6. QED
  BY <1>1, <1>2, <1>3, <1>4, <1>5 DEF Entry, ReadTo

(* A reader is read on to a line of its file.                              *)
LEMMA ReadToType ==
  ASSUME TypeOK, NEW f \in File
  PROVE  ReadTo(f) \in Nat /\ ReadTo(f) <= Len(file[f])
<1>1. Len(file[f]) \in Nat
  BY DEF TypeOK
<1>2. QED
  BY <1>1, NextLineIsAhead DEF ReadTo

-----------------------------------------------------------------------------
(* Least entries are not larger than any other.                            *)
LEMMA LeastIsFirst ==
  ASSUME HeapSound, NEW e \in heap, Least(e), NEW d \in heap
  PROVE  e.ts < d.ts \/ (e.ts = d.ts /\ e.file <= d.file)
<1>1. e \in Entry /\ d \in Entry
  BY DEF HeapSound
<1>2. e.file \in Nat /\ d.file \in Nat
  BY <1>1, MergeAssumption DEF Entry, File
<1>3. d = e \/ Less(e, d)
  BY DEF Least
<1>4. CASE d = e
  BY <1>2, <1>4
<1>5. CASE Less(e, d)
  BY <1>2, <1>5 DEF Less
<1>6. QED
  BY <1>3, <1>4, <1>5

(* No two entries are of one file.                                         *)
LEMMA OneEntryPerFile ==
  ASSUME HeapSound, NEW e \in heap, NEW d \in heap, d.file = e.file
  PROVE  d = e
<1>1. e \in Entry /\ d \in Entry
  BY DEF HeapSound
<1>2. d.line = e.line /\ d.ts = e.ts
  BY DEF HeapSound, EntrySound
<1>3. QED
  BY <1>1, <1>2 DEF Entry

(* The types of what next() returns.                                       *)
LEMMA ResultType ==
  ASSUME TypeOK, HeapSound, NEW e \in heap
  PROVE  /\ e \in Entry /\ e.file \in File /\ e.line \in Nat /\ e.ts \in Ts
         /\ Yield(e) \in Result
         /\ Fails(e.file) => Error(e.file) \in Result
<1>1. e \in Entry
  BY DEF HeapSound
<1>2. e.file \in File /\ e.line \in Nat /\ e.ts \in Ts
  BY <1>1 DEF Entry
<1>3. 0 \in Ts
  BY MergeAssumption DEF Ts
<1>4. Fails(e.file) => NextLine(e.file) \in Nat
  BY <1>2, NextLineIsAhead DEF Fails
<1>5. QED
  BY <1>1, <1>2, <1>3, <1>4 DEF Yield, Error, Result

(* What a pull makes of the types, and of the heap.                        *)
LEMMA PullKeepsHeap ==
  ASSUME TypeOK, HeapSound, NEW e \in heap, Pull(e) \/ PullFails(e)
  PROVE  /\ pos' = [pos EXCEPT ![e.file] = ReadTo(e.file)] /\ file' = file
         /\ pos' \in [File -> Nat] /\ \A f \in File : pos'[f] <= Len(file[f])
         /\ heap' \in SUBSET Entry
         /\ \A d \in heap' : \/ d \in heap /\ d # e /\ d.file # e.file
                             \/ Pull(e) /\ d \in Offered(e.file)
         /\ HeapSound'
<1>1. e.file \in File
  BY ResultType
<1>2. pos' = [pos EXCEPT ![e.file] = ReadTo(e.file)] /\ file' = file
  BY DEF Pull, PullFails
<1>3. pos' \in [File -> Nat] /\ \A f \in File : pos'[f] <= Len(file[f])
  BY <1>1, <1>2, ReadToType DEF TypeOK
<1>4. \A d \in heap' : \/ d \in heap /\ d # e
                       \/ Pull(e) /\ ~Fails(e.file) /\ d \in Offered(e.file)
  BY DEF Pull, PullFails
<1>5. \A d \in heap' : \/ d \in heap /\ d # e /\ d.file # e.file
                       \/ Pull(e) /\ ~Fails(e.file) /\ d \in Offered(e.file)
  BY <1>4, OneEntryPerFile
<1>6. ASSUME NEW d \in heap' PROVE d \in Entry /\ EntrySound(d)'
  <2>1. CASE d \in heap /\ d.file # e.file
    <3>1. d \in Entry /\ EntrySound(d)
      BY <2>1 DEF HeapSound
    <3>2. pos'[d.file] = pos[d.file]
      BY <1>2, <2>1, <3>1 DEF EntrySound, TypeOK
    <3>3. QED
      BY <1>2, <3>1, <3>2 DEF EntrySound
  <2>2. CASE ~Fails(e.file) /\ d \in Offered(e.file)
    <3>1. /\ d \in Entry /\ d.file = e.file /\ d.line = ReadTo(e.file)
          /\ d.line \in DOMAIN file[e.file]
          /\ file[e.file][d.line].ok /\ d.ts = file[e.file][d.line].ts
      BY <1>1, <2>2, OfferedIsSound
    <3>2. pos'[d.file] = d.line
      BY <1>1, <1>2, <3>1 DEF TypeOK
    <3>3. QED
      BY <1>1, <1>2, <3>1, <3>2 DEF EntrySound
  <2>3. QED
    BY <1>5, <2>1, <2>2
<1>7. QED
  BY <1>2, <1>3, <1>5, <1>6 DEF HeapSound

-----------------------------------------------------------------------------
(* What the result of a pull is, and what a pull leaves of the others.     *)
LEMMA PullAppends ==
  ASSUME TypeOK, HeapSound, NEW e \in heap, Pull(e) \/ PullFails(e)
  PROVE  /\ out' \in Seq(Result) /\ Len(out) \in Nat
         /\ DOMAIN out' = 1 .. Len(out) + 1 /\ DOMAIN out = 1 .. Len(out)
         /\ \A i \in DOMAIN out : out'[i] = out[i]
         /\ out'[Len(out) + 1].ok => Pull(e) /\ out'[Len(out) + 1] = Yield(e)
<1>1. out \in Seq(Result)
  BY DEF TypeOK
<1>2. CASE Pull(e)
  <2>1. out' = Append(out, Yield(e)) /\ Yield(e) \in Result
    BY <1>2, ResultType DEF Pull
  <2>2. QED
    BY <1>1, <1>2, <2>1
<1>3. CASE PullFails(e)
  <2>1. out' = Append(out, Error(e.file)) /\ Error(e.file) \in Result
    BY <1>3, ResultType DEF PullFails
  <2>2. ~Error(e.file).ok
    BY DEF Error
  <2>3. QED
    BY <1>1, <2>1, <2>2
<1>4. QED
  BY <1>2, <1>3

(* Behind and Bounded, for what a pull puts on the heap.                   *)
LEMMA OfferedIsAhead ==
  ASSUME TypeOK, HeapSound, NEW e \in heap, ~Fails(e.file), NEW o \in Offered(e.file)
  PROVE  /\ o.file = e.file /\ e.line < o.line
         /\ e.line \in Nat /\ o.line \in Nat
         /\ \A r : Behind(r, e) /\ r.line \in Nat => Behind(r, o)
         /\ \A r : Bounded(r, e) => Bounded(r, o)
<1>1. /\ e.file \in File /\ e.line = pos[e.file] /\ e.line \in Nat
  BY ResultType DEF HeapSound, EntrySound
<1>2. o \in Entry /\ o.file = e.file /\ pos[e.file] < o.line
  BY <1>1, OfferedIsSound
<1>3. o.line \in Nat
  BY <1>2 DEF Entry
<1>4. e.line < o.line
  BY <1>1, <1>2
<1>5. \A r : Behind(r, e) /\ r.line \in Nat => Behind(r, o)
  BY <1>1, <1>2, <1>3, <1>4 DEF Behind
<1>6. \A k \in 1 .. e.line : k \in 1 .. o.line
  BY <1>1, <1>3, <1>4
<1>7. \A r : Bounded(r, e) => Bounded(r, o)
  BY <1>2, <1>6 DEF Bounded
<1>8. QED
  BY <1>1, <1>2, <1>3, <1>4, <1>5, <1>7

(* The event that is yielded is bounded by every entry left.               *)
LEMMA YieldIsBounded ==
  ASSUME TypeOK, HeapSound, NEW e \in heap, Least(e), NEW d \in heap
  PROVE  Bounded(Yield(e), d)
<1>1. d.line \in Nat /\ d.line \in DOMAIN file[d.file] /\ d.file \in File
      /\ file[d.file][d.line].ok /\ d.ts = file[d.file][d.line].ts
  BY ResultType DEF HeapSound, EntrySound
<1>2. d.line \in 1 .. d.line
  BY <1>1, LineAt
<1>3. e.ts < d.ts \/ (e.ts = d.ts /\ e.file <= d.file)
  BY LeastIsFirst
<1>4. QED
  BY <1>1, <1>2, <1>3 DEF Bounded, Yield

(* What was delivered, the event of this pull included, stays bounded by   *)
(* everything left on the heap.                                            *)
LEMMA PullKeepsOrder ==
  ASSUME TypeOK, HeapSound, OrderSound, NEW e \in heap, Pull(e) \/ PullFails(e)
  PROVE  OrderSound'
<1>1. file' = file
  BY DEF Pull, PullFails
<1>2. SUFFICES ASSUME NEW i \in DOMAIN out', out'[i].ok, NEW d \in heap'
               PROVE  Behind(out'[i], d) /\ Bounded(out'[i], d)
  BY <1>1 DEF OrderSound, Behind, Bounded
<1>3. \/ d \in heap /\ d # e /\ d.file # e.file
      \/ Pull(e) /\ ~Fails(e.file) /\ d \in Offered(e.file)
  BY PullKeepsHeap DEF Pull
<1>4. i \in DOMAIN out \/ i = Len(out) + 1
  BY PullAppends
<1>5. CASE i \in DOMAIN out
  <2>1. out'[i] = out[i] /\ out[i].line \in Nat
    <3>1. out[i] \in Result
      BY <1>5, ElementOfSeq DEF TypeOK
    <3>2. QED
      BY <1>5, <3>1, PullAppends DEF Result
  <2>2. \A x \in heap : Behind(out[i], x) /\ Bounded(out[i], x)
    BY <1>2, <1>5, <2>1 DEF OrderSound
  <2>3. QED
    BY <1>3, <2>1, <2>2, OfferedIsAhead
<1>6. CASE i = Len(out) + 1
  <2>1. Pull(e) /\ out'[i] = Yield(e) /\ Least(e)
    BY <1>2, <1>6, PullAppends DEF Pull
  <2>2. CASE d \in heap /\ d.file # e.file
    <3>1. Behind(Yield(e), d)
      BY <2>2 DEF Behind, Yield
    <3>2. QED
      BY <2>1, <2>2, <3>1, YieldIsBounded
  <2>3. CASE ~Fails(e.file) /\ d \in Offered(e.file)
    <3>1. e.line < d.line
      BY <2>3, OfferedIsAhead
    <3>2. Behind(Yield(e), d)
      BY <3>1 DEF Behind, Yield
    <3>3. QED
      BY <2>1, <2>3, <3>2, YieldIsBounded, OfferedIsAhead
  <2>4. QED
    BY <1>3, <2>2, <2>3
<1>7. QED
  BY <1>4, <1>5, <1>6

(* The result of a pull is in order behind all results before it.          *)
LEMMA PullIsInOrder ==
  ASSUME TypeOK, HeapSound, OrderSound, MergedInOrder, NEW e \in heap,
         Pull(e) \/ PullFails(e)
  PROVE  MergedInOrder'
<1>1. file' = file
  BY DEF Pull, PullFails
<1>2. SUFFICES ASSUME NEW i \in DOMAIN out', NEW j \in DOMAIN out',
                      i < j, out'[i].ok, out'[j].ok
               PROVE  /\ out'[i].file = out'[j].file => out'[i].line < out'[j].line
                      /\ ~WentBack(out'[j].file, out'[j].line) =>
                           /\ out'[i].ts <= out'[j].ts
                           /\ out'[i].ts = out'[j].ts => out'[i].file <= out'[j].file
  BY <1>1 DEF MergedInOrder, WentBack
<1>3. /\ Len(out) \in Nat /\ DOMAIN out' = 1 .. Len(out) + 1 /\ DOMAIN out = 1 .. Len(out)
      /\ \A k \in DOMAIN out : out'[k] = out[k]
      /\ out'[Len(out) + 1].ok => Pull(e) /\ out'[Len(out) + 1] = Yield(e)
  BY PullAppends
<1>4. i \in DOMAIN out
  BY <1>2, <1>3
<1>5. CASE j \in DOMAIN out
  BY <1>2, <1>3, <1>4, <1>5 DEF MergedInOrder
<1>6. CASE j = Len(out) + 1
  <2>1. out'[j] = Yield(e) /\ out'[i] = out[i]
    BY <1>2, <1>3, <1>4, <1>6
  <2>2. Behind(out[i], e) /\ Bounded(out[i], e)
    BY <1>2, <1>4, <2>1 DEF OrderSound
  <2>3. out[i].file = e.file => out[i].line < e.line
    BY <2>2 DEF Behind
  <2>4. ASSUME ~WentBack(e.file, e.line)
        PROVE  out[i].ts <= e.ts /\ (out[i].ts = e.ts => out[i].file <= e.file)
    <3>1. PICK k \in 1 .. e.line :
            /\ file[e.file][k].ok
            /\ \/ out[i].ts < file[e.file][k].ts
               \/ out[i].ts = file[e.file][k].ts /\ out[i].file <= e.file
      BY <2>2 DEF Bounded
    <3>2. e.line \in Nat /\ e.ts \in Ts /\ e.file \in File /\ e.line \in DOMAIN file[e.file]
          /\ e.ts = file[e.file][e.line].ts
      BY ResultType DEF HeapSound, EntrySound
    <3>3. k \in DOMAIN file[e.file] /\ k \in Nat /\ file[e.file][k].ts \in Ts
      <4>1. e.line \in 1 .. Len(file[e.file]) /\ Len(file[e.file]) \in Nat
        BY <3>2, LineAt DEF TypeOK
      <4>2. k \in DOMAIN file[e.file]
        BY <3>2, <4>1 DEF TypeOK
      <4>3. QED
        BY <3>2, <4>2, LineAt
    <3>4. file[e.file][k].ts <= e.ts
      <4>1. CASE k = e.line
        BY <3>2, <4>1, MergeAssumption DEF Ts
      <4>2. CASE k \in 1 .. e.line - 1
        <5>1. ~(file[e.file][k].ts > file[e.file][e.line].ts)
          BY <2>4, <3>1, <4>2 DEF WentBack
        <5>2. QED
          BY <3>2, <3>3, <5>1, MergeAssumption DEF Ts
      <4>3. QED
        BY <3>2, <4>1, <4>2
    <3>5. out[i].ts \in Ts
      <4>1. out[i] \in Result
        BY <1>4, ElementOfSeq DEF TypeOK
      <4>2. QED
        BY <4>1 DEF Result
    <3>6. QED
      BY <3>1, <3>2, <3>3, <3>4, <3>5, MergeAssumption DEF Ts
  <2>5. QED
    BY <2>1, <2>3, <2>4 DEF Yield
<1>7. QED
  BY <1>2, <1>3, <1>5, <1>6

-----------------------------------------------------------------------------
(* Opening one more file leaves the entries of those opened before alone,  *)
(* and nothing was delivered yet.                                          *)
LEMMA PrimeKeepsInv ==
  ASSUME MergeInv, Prime
  PROVE  MergeInv'
<1> DEFINE f == primed + 1
<1>1. TypeOK /\ HeapSound /\ OpeningSound /\ MergedInOrder
  BY DEF MergeInv
<1>2. primed \in Nat /\ f \in File /\ f \in Nat /\ ~(f <= primed) /\ f \in 0 .. NumFiles
  BY <1>1, MergeAssumption DEF Prime, File, TypeOK
<1>3. /\ ~Fails(f) /\ file' = file /\ out' = out /\ out = << >> /\ phase' = phase
      /\ primed' = f /\ pos' = [pos EXCEPT ![f] = ReadTo(f)]
      /\ heap' = heap \union Offered(f)
      /\ \A e \in heap : e.file <= primed
  BY <1>1 DEF Prime, OpeningSound
<1>4. pos' \in [File -> Nat] /\ \A g \in File : pos'[g] <= Len(file[g])
  BY <1>1, <1>2, <1>3, ReadToType DEF TypeOK
<1>5. ASSUME NEW d \in heap' PROVE d \in Entry /\ EntrySound(d)' /\ d.file <= f
  <2>1. CASE d \in heap
    <3>1. d \in Entry /\ EntrySound(d) /\ d.file <= primed
      BY <1>1, <1>3, <2>1 DEF HeapSound
    <3>2. d.file \in File /\ d.file # f
      BY <1>2, <3>1 DEF EntrySound
    <3>3. pos'[d.file] = pos[d.file]
      BY <1>1, <1>3, <3>2 DEF TypeOK
    <3>4. d.file <= f
      <4>1. d.file \in Nat
        BY <3>2, MergeAssumption DEF File
      <4>2. QED
        BY <1>2, <3>1, <4>1
    <3>5. QED
      BY <1>3, <3>1, <3>3, <3>4 DEF EntrySound
  <2>2. CASE d \in Offered(f)
    <3>1. /\ d \in Entry /\ d.file = f /\ d.line = ReadTo(f)
          /\ d.line \in DOMAIN file[f]
          /\ file[f][d.line].ok /\ d.ts = file[f][d.line].ts
      BY <1>1, <1>2, <1>3, <2>2, OfferedIsSound
    <3>2. pos'[d.file] = d.line
      BY <1>1, <1>2, <1>3, <3>1 DEF TypeOK
    <3>3. d.file <= f
      BY <1>2, <3>1
    <3>4. QED
      BY <1>2, <1>3, <3>1, <3>2, <3>3 DEF EntrySound
  <2>3. QED
    BY <1>3, <2>1, <2>2
<1>6. TypeOK'
  BY <1>1, <1>2, <1>3, <1>4, <1>5 DEF TypeOK
<1>7. HeapSound' /\ OpeningSound'
  BY <1>3, <1>5 DEF HeapSound, OpeningSound
<1>8. OrderSound' /\ MergedInOrder'
  BY <1>3 DEF OrderSound, MergedInOrder
<1>9. QED
  BY <1>6, <1>7, <1>8 DEF MergeInv

(* A pull, whether it delivers an event or the error behind it, keeps the  *)
(* types, the heap and the order.                                          *)
LEMMA PullKeepsInv ==
  ASSUME MergeInv, NEW e \in heap, Pull(e) \/ PullFails(e)
  PROVE  MergeInv'
<1>1. TypeOK /\ HeapSound /\ OrderSound /\ MergedInOrder
  BY DEF MergeInv
<1>2. phase = "merging" /\ phase' = phase /\ primed' = primed /\ file' = file
  BY DEF Pull, PullFails
<1>3. out' \in Seq(Result)
  BY <1>1, PullAppends
<1>4. TypeOK' /\ HeapSound'
  BY <1>1, <1>2, <1>3, PullKeepsHeap DEF TypeOK
<1>5. OpeningSound'
  BY <1>2 DEF OpeningSound
<1>6. OrderSound' /\ MergedInOrder'
  BY <1>1, PullKeepsOrder, PullIsInOrder
<1>7. QED
  BY <1>4, <1>5, <1>6 DEF MergeInv

(* The merge starts with nothing read and nothing delivered.               *)
THEOREM MergeInit == Init => MergeInv
<1> SUFFICES ASSUME Init PROVE MergeInv
  OBVIOUS
<1>1. file \in [File -> Seq(Line)]
  BY DEF Init
<1>2. TypeOK
  <2>1. \A f \in File : Len(file[f]) \in Nat
    BY <1>1
  <2>2. QED
    BY <1>1, <2>1, MergeAssumption DEF Init, TypeOK
<1>3. HeapSound /\ OpeningSound /\ OrderSound /\ MergedInOrder
  BY DEF Init, HeapSound, OpeningSound, OrderSound, MergedInOrder
<1>4. QED
  BY <1>2, <1>3 DEF MergeInv

(* No step of from_files or of next() breaks the invariant.                *)
THEOREM MergeStep == MergeInv /\ [Next]_vars => MergeInv'
<1> SUFFICES ASSUME MergeInv, [Next]_vars PROVE MergeInv'
  OBVIOUS
<1> DEFINE Rest == << file, pos, heap, primed, out >>
<1>1. ASSUME UNCHANGED Rest, phase' \in {phase, "refused", "merging", "exhausted"}
      PROVE  MergeInv'
  BY <1>1 DEF MergeInv, TypeOK, HeapSound, EntrySound, OpeningSound, OrderSound,
              Behind, Bounded, MergedInOrder, WentBack
<1>2. CASE Prime
  BY <1>2, PrimeKeepsInv
<1>3. CASE PrimeFails
  BY <1>1, <1>3 DEF PrimeFails
<1>4. CASE OpenFails
  BY <1>1, <1>4 DEF OpenFails
<1>5. CASE Primed
  BY <1>1, <1>5 DEF Primed
<1>6. ASSUME NEW e \in heap, Pull(e) \/ PullFails(e) PROVE MergeInv'
  BY <1>6, PullKeepsInv
<1>7. CASE Exhaust
  BY <1>1, <1>7 DEF Exhaust
<1>8. CASE Finished
  BY <1>1, <1>8 DEF Finished, vars
<1>9. CASE UNCHANGED vars
  BY <1>1, <1>9 DEF vars
<1>10. QED
  BY <1>2, <1>3, <1>4, <1>5, <1>6, <1>7, <1>8, <1>9 DEF Next

(* Every run of the merge keeps the invariant.                             *)
THEOREM MergeInvariant == Spec => []MergeInv
<1>1. QED
  BY MergeInit, MergeStep, PTL DEF Spec

(* The state of the merge has its types, and no reader is behind the end   *)
(* of its file.                                                            *)
THEOREM MergeTypes == Spec => []TypeOK
<1>1. MergeInv => TypeOK
  BY DEF MergeInv
<1>2. QED
  BY <1>1, MergeInvariant, PTL

(* next() yields the events of any files in time-stamp order, those of one *)
(* file in the order of their lines and none twice, whatever is damaged;   *)
(* only an event that is older than one before it in its own file is late. *)
THEOREM MergeIsInOrder == Spec => []MergedInOrder
<1>1. MergeInv => MergedInOrder
  BY DEF MergeInv
<1>2. QED
  BY <1>1, MergeInvariant, PTL

-----------------------------------------------------------------------------
(* What a damaged file costs.                                              *)

OutOfHeap(f) == \A e \in heap : e.file # f
WantedTo(f, n) == {j \in Wanted(f) : j < n}
SoundTo(f, n)  == \A j \in BrokenIn(f) : n <= j

(* A file was not opened yet; or it offers its next wanted event, with all *)
(* before it delivered; or it was read to its end and was sound; or it was *)
(* given up at its first broken line, with the event before it lost.       *)
Unread(f)   == f > primed /\ pos[f] = 0 /\ Delivered(f) = {}
Offering(f) ==
  /\ f <= primed /\ \E e \in heap : e.file = f
  /\ pos[f] \in Wanted(f)
  /\ SoundTo(f, pos[f]) /\ Delivered(f) = WantedTo(f, pos[f])
Done(f) == f <= primed /\ OutOfHeap(f) /\ BrokenIn(f) = {} /\ Delivered(f) = Wanted(f)
GivenUp(f) ==
  /\ f <= primed /\ OutOfHeap(f) /\ Reported(f)
  /\ pos[f] \in BrokenIn(f) /\ SoundTo(f, pos[f])
  /\ \E lost \in WantedTo(f, pos[f]) : Delivered(f) = WantedTo(f, pos[f]) \ {lost}

DamageInv ==
  /\ MergeInv
  /\ \A f \in File : Unread(f) \/ Offering(f) \/ Done(f) \/ GivenUp(f)
  /\ phase \in {"merging", "exhausted"} => primed = NumFiles
  /\ phase = "exhausted" => heap = {}

(* No wanted event and no broken line is skipped when a reader is read on. *)
LEMMA NextLineIsNext ==
  ASSUME TypeOK, NEW f \in File
  PROVE  /\ ~AtEnd(f) => \A k \in Stops(f) : NextLine(f) <= k
         /\ AtEnd(f) => \A k \in DOMAIN file[f] : k > pos[f] =>
                          k \notin Wanted(f) /\ k \notin BrokenIn(f)
         /\ ~AtEnd(f) => \A k \in DOMAIN file[f] : k > pos[f] /\ k < NextLine(f) =>
                           k \notin Wanted(f) /\ k \notin BrokenIn(f)
         /\ ~AtEnd(f) /\ Fails(f) => NextLine(f) \in BrokenIn(f)
         /\ ~AtEnd(f) /\ ~Fails(f) => NextLine(f) \in Wanted(f)
<1>1. pos[f] \in Nat /\ file[f] \in Seq(Line) /\ DOMAIN file[f] = 1 .. Len(file[f])
      /\ Len(file[f]) \in Nat
  BY DEF TypeOK
<1>2. Stops(f) \in SUBSET Nat
  BY <1>1 DEF Stops
<1>3. ~AtEnd(f) => \A k \in Stops(f) : NextLine(f) <= k
  BY <1>2, LeastIsIn DEF NextLine, AtEnd
<1>4. ASSUME NEW k \in DOMAIN file[f], k > pos[f], k \in Wanted(f) \/ k \in BrokenIn(f)
      PROVE  k \in Stops(f)
  BY <1>1, <1>4 DEF Wanted, BrokenIn, Stops
<1>5. AtEnd(f) => \A k \in DOMAIN file[f] : k > pos[f] =>
                    k \notin Wanted(f) /\ k \notin BrokenIn(f)
  BY <1>4 DEF AtEnd
<1>6. ~AtEnd(f) => \A k \in DOMAIN file[f] : k > pos[f] /\ k < NextLine(f) =>
                     k \notin Wanted(f) /\ k \notin BrokenIn(f)
  <2>1. SUFFICES ASSUME ~AtEnd(f), NEW k \in DOMAIN file[f], k > pos[f], k < NextLine(f),
                        k \in Wanted(f) \/ k \in BrokenIn(f)
                 PROVE  FALSE
    OBVIOUS
  <2>2. NextLine(f) <= k
    BY <1>3, <1>4, <2>1
  <2>3. NextLine(f) \in Nat /\ k \in Nat
    BY <1>1, <2>1, NextLineIsAhead
  <2>4. QED
    BY <2>1, <2>2, <2>3
<1>7. ~AtEnd(f) => /\ NextLine(f) \in DOMAIN file[f]
                   /\ ~file[f][NextLine(f)].ok \/ file[f][NextLine(f)].wanted
  BY <1>1, NextLineIsAhead DEF Stops
<1>8. QED
  BY <1>3, <1>5, <1>6, <1>7 DEF Fails, Wanted, BrokenIn

(* What was delivered is an event its file wants.                          *)
LEMMA SetsTyped ==
  ASSUME TypeOK, NEW f \in File
  PROVE  /\ Wanted(f) \subseteq Nat /\ BrokenIn(f) \subseteq Nat
         /\ Wanted(f) \subseteq DOMAIN file[f] /\ BrokenIn(f) \subseteq DOMAIN file[f]
         /\ Wanted(f) \cap BrokenIn(f) = {}
  BY DEF TypeOK, Wanted, BrokenIn

(* A reader read on from line n, itself wanted, has nothing else between.  *)
LEMMA ReadOnSound ==
  ASSUME TypeOK, NEW f \in File, SoundTo(f, pos[f]), pos[f] \notin BrokenIn(f)
  PROVE  /\ AtEnd(f) =>
              /\ BrokenIn(f) = {}
              /\ \A k \in Wanted(f) : k <= pos[f]
         /\ ~AtEnd(f) =>
              /\ SoundTo(f, NextLine(f))
              /\ \A k \in Wanted(f) : k < NextLine(f) => k <= pos[f]
<1>1. Wanted(f) \subseteq Nat /\ BrokenIn(f) \subseteq Nat /\ pos[f] \in Nat
      /\ Wanted(f) \subseteq DOMAIN file[f] /\ BrokenIn(f) \subseteq DOMAIN file[f]
  BY SetsTyped DEF TypeOK
<1>2. \A k \in BrokenIn(f) : k > pos[f]
  BY <1>1 DEF SoundTo
<1>3. ~AtEnd(f) => NextLine(f) \in Nat
  BY NextLineIsAhead
<1>4. QED
  BY <1>1, <1>2, <1>3, NextLineIsNext DEF SoundTo

(* What a pull delivers and reports.                                       *)
LEMMA PullDelivers ==
  ASSUME TypeOK, HeapSound, NEW e \in heap, Pull(e) \/ PullFails(e)
  PROVE  /\ \A f \in File : Delivered(f)' =
              IF Pull(e) /\ f = e.file THEN Delivered(f) \union {e.line} ELSE Delivered(f)
         /\ \A f \in File : Reported(f) => Reported(f)'
         /\ PullFails(e) => Reported(e.file)'
<1>1. /\ Len(out) \in Nat /\ DOMAIN out' = 1 .. Len(out) + 1 /\ DOMAIN out = 1 .. Len(out)
      /\ \A i \in DOMAIN out : out'[i] = out[i]
      /\ out'[Len(out) + 1].ok => Pull(e) /\ out'[Len(out) + 1] = Yield(e)
  BY PullAppends
<1>2. file' = file /\ e.file \in File
  BY ResultType DEF Pull, PullFails
<1>3. Pull(e) => out'[Len(out) + 1] = Yield(e)
  BY ResultType DEF Pull, TypeOK
<1>4. PullFails(e) => out'[Len(out) + 1] = Error(e.file)
  BY ResultType DEF PullFails, TypeOK
<1>5. e.line \in DOMAIN file[e.file]
  BY DEF HeapSound, EntrySound
<1>6. ASSUME NEW f \in File, NEW j \in DOMAIN file[f]
      PROVE  (\E i \in DOMAIN out' : out'[i].ok /\ out'[i].file = f /\ out'[i].line = j)
               <=> (j \in Delivered(f) \/ (Pull(e) /\ f = e.file /\ j = e.line))
  <2>1. ASSUME NEW i \in DOMAIN out', out'[i].ok, out'[i].file = f, out'[i].line = j
        PROVE  j \in Delivered(f) \/ (Pull(e) /\ f = e.file /\ j = e.line)
    <3>1. CASE i \in DOMAIN out
      BY <1>1, <2>1, <3>1 DEF Delivered
    <3>2. CASE i = Len(out) + 1
      BY <1>1, <2>1, <3>2 DEF Yield
    <3>3. QED
      BY <1>1, <2>1, <3>1, <3>2
  <2>2. ASSUME j \in Delivered(f)
        PROVE  \E i \in DOMAIN out' : out'[i].ok /\ out'[i].file = f /\ out'[i].line = j
    BY <1>1, <2>2 DEF Delivered
  <2>3. ASSUME Pull(e), f = e.file, j = e.line
        PROVE  \E i \in DOMAIN out' : out'[i].ok /\ out'[i].file = f /\ out'[i].line = j
    <3>1. Len(out) + 1 \in DOMAIN out'
      BY <1>1
    <3>2. QED
      BY <1>3, <2>3, <3>1 DEF Yield
  <2>4. QED
    BY <2>1, <2>2, <2>3
<1>7. ASSUME NEW f \in File
      PROVE  Delivered(f)' =
               IF Pull(e) /\ f = e.file THEN Delivered(f) \union {e.line} ELSE Delivered(f)
  <2>1. \A j : j \in Delivered(f)' <=>
                 /\ j \in DOMAIN file[f]
                 /\ \E i \in DOMAIN out' : out'[i].ok /\ out'[i].file = f /\ out'[i].line = j
    BY <1>2 DEF Delivered
  <2>2. Delivered(f) \subseteq DOMAIN file[f]
    BY DEF Delivered
  <2>3. \A j : j \in Delivered(f)' <=> j \in Delivered(f) \/ (Pull(e) /\ f = e.file /\ j = e.line)
    BY <1>5, <1>6, <2>1, <2>2
  <2>4. QED
    BY <2>3
<1>8. \A f \in File : Reported(f) => Reported(f)'
  BY <1>1 DEF Reported
<1>9. PullFails(e) => Reported(e.file)'
  <2>1. Len(out) + 1 \in DOMAIN out'
    BY <1>1
  <2>2. QED
    BY <1>4, <2>1 DEF Error, Reported
<1>10. QED
  BY <1>7, <1>8, <1>9

(* A pull leaves every other file as it is.                                *)
LEMMA PullSparesOthers ==
  ASSUME DamageInv, NEW e \in heap, Pull(e) \/ PullFails(e),
         NEW f \in File, f # e.file
  PROVE  (Unread(f) \/ Offering(f) \/ Done(f) \/ GivenUp(f))'
<1> USE DEF DamageInv, MergeInv
<1>1. /\ file' = file /\ primed' = primed /\ pos'[f] = pos[f]
      /\ Delivered(f)' = Delivered(f)
      /\ Reported(f) => Reported(f)'
  BY PullDelivers, PullKeepsHeap DEF Pull, PullFails, TypeOK
<1>2. \A d : d.file = f => (d \in heap' <=> d \in heap)
  <2>1. \A d \in heap : d.file = f => d \in heap'
    BY DEF Pull, PullFails
  <2>2. \A d \in heap' : d.file = f => d \in heap
    <3>1. \A d \in Offered(e.file) : d.file = e.file
      BY DEF Offered
    <3>2. QED
      BY <3>1, PullKeepsHeap
  <2>3. QED
    BY <2>1, <2>2
<1>3. OutOfHeap(f)' <=> OutOfHeap(f)
  BY <1>2 DEF OutOfHeap
<1>4. Wanted(f)' = Wanted(f) /\ BrokenIn(f)' = BrokenIn(f)
  BY <1>1 DEF Wanted, BrokenIn
<1>5. CASE Unread(f)
  BY <1>1, <1>5 DEF Unread
<1>6. CASE Offering(f)
  <2>1. \E d \in heap' : d.file = f
    BY <1>2, <1>6 DEF Offering
  <2>2. SoundTo(f, pos[f])' /\ WantedTo(f, pos[f])' = WantedTo(f, pos[f])
    BY <1>1, <1>4, <1>6 DEF Offering, SoundTo, WantedTo
  <2>3. QED
    BY <1>1, <1>4, <1>6, <2>1, <2>2 DEF Offering
<1>7. CASE Done(f)
  BY <1>1, <1>3, <1>4, <1>7 DEF Done
<1>8. CASE GivenUp(f)
  <2>1. SoundTo(f, pos[f])' /\ WantedTo(f, pos[f])' = WantedTo(f, pos[f])
    BY <1>1, <1>4, <1>8 DEF GivenUp, SoundTo, WantedTo
  <2>2. QED
    BY <1>1, <1>3, <1>4, <1>8, <2>1 DEF GivenUp
<1>9. QED
  BY <1>5, <1>6, <1>7, <1>8

(* The file pulled from offers its next event, is done, or is given up.    *)
LEMMA PullAdvances ==
  ASSUME DamageInv, NEW e \in heap, Pull(e) \/ PullFails(e)
  PROVE  (Offering(e.file) \/ Done(e.file) \/ GivenUp(e.file))'
<1> USE DEF DamageInv, MergeInv
<1>1. PICK f \in File : f = e.file
  BY ResultType
<1>2. /\ file' = file /\ primed' = primed /\ pos'[f] = ReadTo(f)
      /\ primed = NumFiles /\ e.line = pos[f] /\ phase = "merging"
  BY <1>1, PullKeepsHeap DEF Pull, PullFails, TypeOK, HeapSound, EntrySound
<1>3. f <= primed /\ f \in Nat /\ primed \in Nat
  BY <1>2, MergeAssumption DEF File
<1>4. Offering(f)
  BY <1>1, <1>3 DEF Unread, Done, GivenUp, OutOfHeap
<1>5. /\ pos[f] \in Wanted(f) /\ pos[f] \in Nat /\ pos[f] \notin BrokenIn(f)
      /\ SoundTo(f, pos[f]) /\ Delivered(f) = WantedTo(f, pos[f])
  BY <1>4, SetsTyped DEF Offering
<1>6. Wanted(f)' = Wanted(f) /\ BrokenIn(f)' = BrokenIn(f)
  BY <1>2 DEF Wanted, BrokenIn
<1>7. \A d \in heap' : d.file = f => Pull(e) /\ d \in Offered(f)
  BY <1>1, PullKeepsHeap
<1>8. Wanted(f) \subseteq Nat
  BY SetsTyped
<1>9. CASE Pull(e)
  <2>1. ~Fails(f) /\ Delivered(f)' = WantedTo(f, pos[f]) \union {pos[f]}
    BY <1>1, <1>2, <1>5, <1>9, PullDelivers DEF Pull
  <2>2. CASE AtEnd(f)
    <3>1. OutOfHeap(f)'
      BY <1>7, <2>2 DEF OutOfHeap, Offered
    <3>2. BrokenIn(f) = {} /\ \A k \in Wanted(f) : k <= pos[f]
      BY <1>5, <2>2, ReadOnSound
    <3>3. Wanted(f) = WantedTo(f, pos[f]) \union {pos[f]}
      BY <1>5, <1>8, <3>2 DEF WantedTo
    <3>4. QED
      BY <1>1, <1>2, <1>3, <1>6, <2>1, <3>1, <3>2, <3>3 DEF Done
  <2>3. CASE ~AtEnd(f)
    <3>1. /\ SoundTo(f, NextLine(f)) /\ NextLine(f) \in Wanted(f)
          /\ \A k \in Wanted(f) : k < NextLine(f) => k <= pos[f]
          /\ pos[f] < NextLine(f) /\ NextLine(f) \in Nat
      BY <1>5, <2>1, <2>3, ReadOnSound, NextLineIsNext, NextLineIsAhead
    <3>2. WantedTo(f, NextLine(f)) = WantedTo(f, pos[f]) \union {pos[f]}
      <4>1. ASSUME NEW k \in Wanted(f)
            PROVE  k < NextLine(f) <=> k < pos[f] \/ k = pos[f]
        BY <1>5, <1>8, <3>1, <4>1
      <4>2. QED
        BY <1>5, <4>1 DEF WantedTo
    <3>3. pos'[f] = NextLine(f)
      BY <1>2, <2>3 DEF ReadTo
    <3>4. \E d \in heap' : d.file = f
      <4>1. \E d \in Offered(f) : d.file = f
        BY <2>3 DEF Offered
      <4>2. Offered(f) \subseteq heap'
        BY <1>1, <1>9 DEF Pull
      <4>3. QED
        BY <4>1, <4>2
    <3>5. SoundTo(f, pos[f])' /\ WantedTo(f, pos[f])' = WantedTo(f, NextLine(f))
      BY <1>6, <3>1, <3>3 DEF SoundTo, WantedTo
    <3>6. Offering(f)'
      BY <1>2, <1>3, <1>6, <2>1, <3>1, <3>2, <3>3, <3>4, <3>5 DEF Offering
    <3>7. QED
      BY <1>1, <3>6
  <2>4. QED
    BY <2>2, <2>3
<1>10. CASE PullFails(e)
  <2>1. /\ Fails(f) /\ ~AtEnd(f) /\ ~Pull(e) /\ Reported(f)'
        /\ Delivered(f)' = WantedTo(f, pos[f])
    BY <1>1, <1>5, <1>10, PullDelivers DEF PullFails, Pull, Fails
  <2>2. /\ SoundTo(f, NextLine(f)) /\ NextLine(f) \in BrokenIn(f)
        /\ \A k \in Wanted(f) : k < NextLine(f) => k <= pos[f]
        /\ pos[f] < NextLine(f) /\ NextLine(f) \in Nat
    BY <1>5, <2>1, ReadOnSound, NextLineIsNext, NextLineIsAhead
  <2>3. pos'[f] = NextLine(f)
    BY <1>2, <2>1 DEF ReadTo
  <2>4. WantedTo(f, pos[f]) = WantedTo(f, NextLine(f)) \ {pos[f]}
    <3>1. ASSUME NEW k \in Wanted(f)
          PROVE  k < pos[f] <=> k < NextLine(f) /\ k # pos[f]
      BY <1>5, <1>8, <2>2, <3>1
    <3>2. QED
      BY <3>1 DEF WantedTo
  <2>5. pos[f] \in WantedTo(f, NextLine(f))
    BY <1>5, <2>2 DEF WantedTo
  <2>6. OutOfHeap(f)'
    BY <1>7, <2>1 DEF OutOfHeap
  <2>7. /\ SoundTo(f, pos[f])' /\ WantedTo(f, pos[f])' = WantedTo(f, NextLine(f))
        /\ (pos[f] \in BrokenIn(f))'
    BY <1>6, <2>2, <2>3 DEF SoundTo, WantedTo
  <2>8. \E lost \in WantedTo(f, pos[f])' : Delivered(f)' = WantedTo(f, pos[f])' \ {lost}
    BY <2>1, <2>4, <2>5, <2>7
  <2>9. GivenUp(f)'
    BY <1>2, <1>3, <2>1, <2>6, <2>7, <2>8 DEF GivenUp
  <2>10. QED
    BY <1>1, <2>9
<1>11. QED
  BY <1>9, <1>10

(* Opening a file reads it on to its first event, if it has one.           *)
LEMMA PrimeAdvances ==
  ASSUME DamageInv, Prime, NEW f \in File
  PROVE  (Unread(f) \/ Offering(f) \/ Done(f) \/ GivenUp(f))'
<1> USE DEF DamageInv, MergeInv
<1>1. PICK g \in File : g = primed + 1
  BY MergeAssumption DEF Prime, File, TypeOK
<1>2. /\ ~Fails(g) /\ file' = file /\ out' = out /\ phase = "opening" /\ primed' = g
      /\ pos' = [pos EXCEPT ![g] = ReadTo(g)] /\ heap' = heap \union Offered(g)
      /\ \A e \in heap : e.file <= primed
  BY <1>1 DEF Prime, OpeningSound
<1>3. /\ f \in Nat /\ g \in Nat /\ primed \in Nat /\ pos[f] \in Nat
      /\ \A e \in heap : e.file \in Nat
  BY MergeAssumption DEF File, TypeOK, HeapSound, EntrySound
<1>4. /\ Wanted(f)' = Wanted(f) /\ BrokenIn(f)' = BrokenIn(f)
      /\ Delivered(f)' = Delivered(f) /\ Reported(f)' = Reported(f)
  BY <1>2 DEF Wanted, BrokenIn, Delivered, Reported
<1>5. \A d \in Offered(g) : d.file = g
  BY DEF Offered
<1>6. CASE f # g
  <2>1. pos'[f] = pos[f]
    BY <1>2, <1>6 DEF TypeOK
  <2>2. /\ (\E d \in heap' : d.file = f) <=> (\E d \in heap : d.file = f)
        /\ OutOfHeap(f)' <=> OutOfHeap(f)
    BY <1>2, <1>5, <1>6 DEF OutOfHeap
  <2>3. f > primed <=> f > primed'
    BY <1>1, <1>2, <1>3, <1>6
  <2>4. f <= primed => f <= primed'
    BY <1>1, <1>2, <1>3
  <2>5. SoundTo(f, pos[f])' = SoundTo(f, pos[f]) /\ WantedTo(f, pos[f])' = WantedTo(f, pos[f])
    BY <1>4, <2>1 DEF SoundTo, WantedTo
  <2>6. CASE Unread(f)
    BY <1>4, <2>1, <2>3, <2>6 DEF Unread
  <2>7. CASE Offering(f)
    BY <1>4, <2>1, <2>2, <2>4, <2>5, <2>7 DEF Offering
  <2>8. CASE Done(f)
    BY <1>4, <2>2, <2>4, <2>8 DEF Done
  <2>9. CASE GivenUp(f)
    BY <1>4, <2>1, <2>2, <2>4, <2>5, <2>9 DEF GivenUp
  <2>10. QED
    BY <2>6, <2>7, <2>8, <2>9
<1>7. CASE f = g
  <2>1. pos[f] = 0 /\ Delivered(f) = {} /\ pos'[f] = ReadTo(f)
    <3>1. ~(f <= primed)
      BY <1>1, <1>3, <1>7
    <3>2. QED
      BY <1>2, <1>7, <3>1 DEF Unread, Offering, Done, GivenUp, TypeOK
  <2>2. f <= primed'
    BY <1>2, <1>3, <1>7
  <2>3. \A k \in Wanted(f) \union BrokenIn(f) : k \in Nat /\ k > 0
    BY DEF Wanted, BrokenIn, TypeOK
  <2>4. SoundTo(f, pos[f]) /\ pos[f] \notin BrokenIn(f)
    BY <2>1, <2>3 DEF SoundTo
  <2>5. CASE AtEnd(f)
    <3>1. BrokenIn(f) = {} /\ Wanted(f) = {}
      BY <2>1, <2>3, <2>4, <2>5, ReadOnSound
    <3>2. heap' = heap
      BY <1>2, <1>7, <2>5 DEF Offered
    <3>3. OutOfHeap(f)'
      BY <1>1, <1>2, <1>3, <1>7, <3>2 DEF OutOfHeap
    <3>4. QED
      BY <1>4, <2>1, <2>2, <3>1, <3>3 DEF Done
  <2>6. CASE ~AtEnd(f)
    <3>1. /\ SoundTo(f, NextLine(f)) /\ NextLine(f) \in Wanted(f)
          /\ \A k \in Wanted(f) : k < NextLine(f) => k <= 0
          /\ NextLine(f) \in Nat
      BY <1>2, <1>7, <2>1, <2>4, <2>6, ReadOnSound, NextLineIsNext, NextLineIsAhead
    <3>2. WantedTo(f, NextLine(f)) = {}
      BY <2>3, <3>1 DEF WantedTo
    <3>3. pos'[f] = NextLine(f)
      BY <2>1, <2>6 DEF ReadTo
    <3>4. \E d \in heap' : d.file = f
      <4>1. \E d \in Offered(f) : d.file = f
        BY <2>6 DEF Offered
      <4>2. QED
        BY <1>2, <1>7, <4>1
    <3>5. SoundTo(f, pos[f])' /\ WantedTo(f, pos[f])' = {}
      BY <1>4, <3>1, <3>2, <3>3 DEF SoundTo, WantedTo
    <3>6. QED
      BY <1>4, <2>1, <2>2, <3>1, <3>3, <3>4, <3>5 DEF Offering
  <2>7. QED
    BY <2>5, <2>6
<1>8. QED
  BY <1>6, <1>7

(* The merge starts with every file unread.                                *)
LEMMA DamageInit == Init => DamageInv
<1>1. SUFFICES ASSUME Init PROVE DamageInv
  OBVIOUS
<1>2. MergeInv
  BY <1>1, MergeInit
<1>3. \A f \in File : Unread(f)
  BY <1>1, MergeAssumption DEF Init, Unread, Delivered, File
<1>4. QED
  BY <1>1, <1>2, <1>3 DEF DamageInv, Init

(* No step of from_files or of next() breaks the invariant.                *)
LEMMA DamageStep == DamageInv /\ [Next]_vars => DamageInv'
<1> SUFFICES ASSUME DamageInv, [Next]_vars PROVE DamageInv'
  OBVIOUS
<1>0. MergeInv'
  BY MergeStep DEF DamageInv
<1>00. primed \in Nat /\ NumFiles \in Nat /\ primed <= NumFiles
  BY MergeAssumption DEF DamageInv, MergeInv, TypeOK
<1>1. ASSUME UNCHANGED << file, pos, heap, primed, out >>,
             phase' \in {"merging", "exhausted"} => primed = NumFiles,
             phase' = "exhausted" => heap = {}
      PROVE  DamageInv'
  <2>1. \A f \in File : (Unread(f) \/ Offering(f) \/ Done(f) \/ GivenUp(f))'
    BY <1>1 DEF DamageInv, Unread, Offering, Done, GivenUp, OutOfHeap, Delivered, Wanted,
            BrokenIn, SoundTo, WantedTo, Reported
  <2>2. QED
    BY <1>0, <1>1, <2>1 DEF DamageInv
<1>2. CASE Prime
  <2>1. phase' = "opening"
    BY <1>2 DEF Prime
  <2>2. QED
    BY <1>0, <1>2, <2>1, PrimeAdvances DEF DamageInv
<1>3. ASSUME NEW e \in heap, Pull(e) \/ PullFails(e) PROVE DamageInv'
  <2>1. /\ \A f \in File : f # e.file => (Unread(f) \/ Offering(f) \/ Done(f) \/ GivenUp(f))'
        /\ (Offering(e.file) \/ Done(e.file) \/ GivenUp(e.file))'
    BY <1>3, PullSparesOthers, PullAdvances
  <2>2. phase' = "merging" /\ primed' = primed /\ phase = "merging"
    BY <1>3 DEF Pull, PullFails
  <2>3. \A f \in File : (Unread(f) \/ Offering(f) \/ Done(f) \/ GivenUp(f))'
    BY <2>1
  <2>4. QED
    BY <1>0, <2>2, <2>3 DEF DamageInv
<1>4. CASE PrimeFails \/ OpenFails \/ Primed
  BY <1>1, <1>4 DEF PrimeFails, OpenFails, Primed
<1>5. CASE Exhaust
  BY <1>1, <1>5 DEF Exhaust, DamageInv
<1>6. CASE Finished \/ UNCHANGED vars
  BY <1>1, <1>6 DEF Finished, vars, DamageInv
<1>7. QED
  BY <1>2, <1>3, <1>4, <1>5, <1>6 DEF Next

(* Every run of the merge keeps account of what damage has cost.           *)
THEOREM DamageInvariant == Spec => []DamageInv
<1>1. QED
  BY DamageInit, DamageStep, PTL DEF Spec

(* When the merge ends, an undamaged file has been delivered entirely, and *)
(* of a damaged one an error was reported and at most one wanted event in  *)
(* front of the damage is missing: from_files and next(), for any number   *)
(* of files of any length, with broken lines anywhere.                     *)
LEMMA DamageIsContained == DamageInv => DamageContained
<1> SUFFICES ASSUME DamageInv, phase = "exhausted", NEW f \in File
             PROVE  IF BrokenIn(f) = {} THEN Delivered(f) = Wanted(f)
                    ELSE LET first == CHOOSE j \in BrokenIn(f) : \A k \in BrokenIn(f) : j <= k
                             before == {j \in Wanted(f) : j < first}
                         IN  /\ Reported(f)
                             /\ Delivered(f) \subseteq before
                             /\ Cardinality(before \ Delivered(f)) <= 1
  BY DEF DamageContained
<1> USE DEF DamageInv, MergeInv
<1>1. Done(f) \/ GivenUp(f)
  <2>1. f <= primed /\ f \in Nat /\ primed \in Nat /\ heap = {}
    BY MergeAssumption DEF File
  <2>2. QED
    BY <2>1 DEF Unread, Offering
<1>2. CASE Done(f)
  BY <1>2 DEF Done
<1>3. CASE GivenUp(f)
  <2> DEFINE first == CHOOSE j \in BrokenIn(f) : \A k \in BrokenIn(f) : j <= k
  <2>1. /\ BrokenIn(f) \subseteq Nat /\ pos[f] \in BrokenIn(f)
        /\ \A k \in BrokenIn(f) : pos[f] <= k
    BY <1>3, SetsTyped DEF GivenUp, SoundTo
  <2>2. first \in BrokenIn(f) /\ \A k \in BrokenIn(f) : first <= k
    BY <2>1
  <2>3. first = pos[f]
    BY <2>1, <2>2
  <2>4. PICK lost \in WantedTo(f, pos[f]) : Delivered(f) = WantedTo(f, pos[f]) \ {lost}
    BY <1>3 DEF GivenUp
  <2>5. WantedTo(f, pos[f]) \ Delivered(f) = {lost}
    BY <2>4
  <2>6. Cardinality({lost}) = 1
    BY FS_Singleton
  <2>7. /\ {j \in Wanted(f) : j < first} = WantedTo(f, pos[f])
        /\ BrokenIn(f) # {} /\ Reported(f)
    BY <1>3, <2>1, <2>3 DEF WantedTo, GivenUp
  <2>8. QED
    BY <2>4, <2>5, <2>6, <2>7
<1>4. QED
  BY <1>1, <1>2, <1>3

(* The same, of every run.                                                 *)
THEOREM MergeContainsDamage == Spec => []DamageContained
<1>1. QED
  BY DamageIsContained, DamageInvariant, PTL

-----------------------------------------------------------------------------
(* What has been returned is what the merge gave, with the shifted stamp,  *)
(* and none of it lies in the future.                                      *)
PassedOn ==
  /\ Len(paced) <= Len(out)
  /\ \A i \in DOMAIN paced :
       /\ paced[i].ok = out[i].ok
       /\ paced[i].file = out[i].file /\ paced[i].line = out[i].line
       /\ paced[i].ok => paced[i].ts = Shifted(out[i])

(* Item a is the first event, and the anchor.                              *)
Anchors(a) ==
  /\ a \in DOMAIN paced /\ paced[a].ok
  /\ \A i \in DOMAIN paced : i < a => ~paced[i].ok
  /\ anchor.wall = paced[a].at /\ anchor.ts = paced[a].ts

(* The anchor is the first event, and no later one is early against it.    *)
AnchorSound ==
  speed > 0 =>
    /\ anchor.set => anchor.wall <= wall /\ \E a \in DOMAIN paced : Anchors(a)
    /\ ~anchor.set => \A i \in DOMAIN paced : ~paced[i].ok
    /\ \A a, j \in DOMAIN paced : anchor.set /\ Anchors(a) /\ a < j /\ paced[j].ok =>
         (paced[j].at - anchor.wall) * speed + speed > paced[j].ts - anchor.ts

PacerInv == MergeInv /\ PacedType /\ PassedOn /\ AnchorSound

-----------------------------------------------------------------------------
(* Whole division loses less than one divisor.                             *)
LEMMA DivisionLoses ==
  ASSUME NEW x \in Nat, NEW s \in Nat, s > 0
  PROVE  x \div s \in Nat /\ (x \div s) * s + s > x
  OBVIOUS

(* Multiplying keeps the order.                                            *)
LEMMA TimesKeepsOrder ==
  ASSUME NEW a \in Int, NEW b \in Int, NEW s \in Nat, a <= b
  PROVE  a * s <= b * s
  OBVIOUS

(* What is released when the sleep has ended is not early.                 *)
LEMMA HeldLongEnough ==
  ASSUME NEW x \in Nat, NEW s \in Nat, s > 0, NEW d \in Int, x \div s <= d
  PROVE  d * s + s > x
<1>1. x \div s \in Nat /\ (x \div s) * s + s > x
  BY DivisionLoses
<1>2. PICK q \in Nat : q = x \div s
  BY <1>1
<1>3. q * s <= d * s
  BY <1>2, TimesKeepsOrder
<1>4. q * s + s > x
  BY <1>1, <1>2
<1>5. q * s \in Int /\ d * s \in Int
  OBVIOUS
<1>6. QED
  BY <1>3, <1>4, <1>5

-----------------------------------------------------------------------------
(* The steps of a replay, as far as the merge and the pacer see them.      *)
LEMMA ReplayCases ==
  ASSUME [ReplayNext]_replayVars
  PROVE  \/ [Next]_vars /\ UNCHANGED pacerVars
         \/ Pace /\ UNCHANGED vars
         \/ TimePasses /\ UNCHANGED vars
<1>1. CASE Open \/ Ask
  BY <1>1 DEF Open, Ask, Next
<1>2. CASE Emit \/ Wait
  BY <1>2 DEF Emit, Wait
<1>3. CASE \/ Refuse \/ CountTakes \/ DrainTakes \/ StopAtError \/ Finish
           \/ HeadTakes \/ HeadFull \/ HeadFails \/ TailTakes
           \/ CreateSink \/ CreateSinkFails \/ AppendRow
           \/ FlushBatch \/ FlushBatchFails \/ CloseSink \/ CloseSinkFails
  BY <1>3 DEF Refuse, CountTakes, DrainTakes, StopAtError, Finish, HeadTakes, HeadFull,
         HeadFails, TailTakes, CreateSink, CreateSinkFails, AppendRow, FlushBatch,
         FlushBatchFails, CloseSink, CloseSinkFails, ReturnError
<1>4. CASE HasReturned \/ UNCHANGED replayVars
  BY <1>4 DEF HasReturned, replayVars
<1>5. QED
  BY <1>1, <1>2, <1>3, <1>4 DEF ReplayNext

(* What the merge has returned it does not take back.                      *)
LEMMA OutGrows ==
  ASSUME MergeInv, [Next]_vars
  PROVE  /\ Len(out) \in Nat /\ Len(out') \in Nat /\ Len(out) <= Len(out')
         /\ \A i \in 1 .. Len(out) : out'[i] = out[i]
<1>1. out \in Seq(Result)
  BY DEF MergeInv, TypeOK
<1>2. ASSUME NEW e \in heap, Pull(e) \/ PullFails(e)
      PROVE  Len(out') = Len(out) + 1 /\ \A i \in 1 .. Len(out) : out'[i] = out[i]
  <2>1. /\ out' \in Seq(Result) /\ Len(out) \in Nat
        /\ DOMAIN out' = 1 .. Len(out) + 1 /\ DOMAIN out = 1 .. Len(out)
        /\ \A i \in DOMAIN out : out'[i] = out[i]
    BY <1>2, PullAppends DEF MergeInv
  <2>2. DOMAIN out' = 1 .. Len(out') /\ Len(out') \in Nat
    BY <2>1
  <2>3. Len(out') = Len(out) + 1
    BY <2>1, <2>2
  <2>4. QED
    BY <2>1, <2>3
<1>3. CASE Prime \/ PrimeFails \/ OpenFails \/ Primed \/ Exhaust \/ Finished \/ UNCHANGED vars
  BY <1>1, <1>3 DEF Prime, PrimeFails, OpenFails, Primed, Exhaust, Finished, vars
<1>4. QED
  BY <1>1, <1>2, <1>3 DEF Next

(* The type of what is returned.                                           *)
LEMMA ItemType ==
  ASSUME MergeInv, PacedType, PassedOn, ~Starved
  PROVE  /\ Len(paced) \in Nat /\ Len(paced) + 1 \in 1 .. Len(out)
         /\ Item.ok \in BOOLEAN /\ Item.file \in File /\ Item.line \in Nat
         /\ Item.ts \in Nat /\ Shifted(Item) \in Nat
<1>1. /\ out \in Seq(Result) /\ Len(out) \in Nat /\ Len(paced) \in Nat
      /\ Len(paced) <= Len(out) /\ Len(paced) # Len(out)
  BY DEF MergeInv, TypeOK, PacedType, PassedOn, Starved
<1>2. Len(paced) + 1 \in 1 .. Len(out)
  BY <1>1
<1>3. Item \in Result
  BY <1>1, <1>2 DEF Item
<1>4. Item.ok \in BOOLEAN /\ Item.file \in File /\ Item.line \in Nat /\ Item.ts \in Nat
  BY <1>3, MergeAssumption DEF Result, Ts
<1>5. offset[Item.file] \in Int
  BY <1>4, PacerAssumption DEF PacedType
<1>6. Shifted(Item) \in Nat
  BY <1>4, <1>5 DEF Shifted, Later
<1>7. QED
  BY <1>1, <1>2, <1>4, <1>6

(* What one more item makes of what was returned.                          *)
PacedItem == [ok : BOOLEAN, ts : Nat, file : File, line : Nat, at : Nat]
(* What the pacer hands on is one item more.                               *)
LEMMA ReturnAppends ==
  ASSUME MergeInv, PacedType, PassedOn, ~Starved,
         NEW ts \in Nat, NEW at \in Nat, Item.ok => ts = Shifted(Item),
         paced' = Append(paced, Returned(ts, at)), out' = out, offset' = offset
  PROVE  /\ paced' \in Seq(PacedItem) /\ Len(paced) \in Nat
         /\ DOMAIN paced = 1 .. Len(paced) /\ DOMAIN paced' = 1 .. Len(paced) + 1
         /\ \A i \in DOMAIN paced : paced'[i] = paced[i]
         /\ paced'[Len(paced) + 1].ok = Item.ok
         /\ paced'[Len(paced) + 1].ts = ts /\ paced'[Len(paced) + 1].at = at
         /\ PassedOn'
<1>1. paced \in Seq(PacedItem)
  BY DEF PacedType, PacedItem
<1>2. Returned(ts, at) \in PacedItem
  BY ItemType DEF Returned, PacedItem
<1>3. /\ paced' \in Seq(PacedItem) /\ Len(paced) \in Nat /\ Len(paced') = Len(paced) + 1
      /\ DOMAIN paced = 1 .. Len(paced) /\ DOMAIN paced' = 1 .. Len(paced) + 1
      /\ \A i \in DOMAIN paced : paced'[i] = paced[i]
      /\ paced'[Len(paced) + 1] = Returned(ts, at)
  BY <1>1, <1>2
<1>4. /\ paced'[Len(paced) + 1].ok = Item.ok
      /\ paced'[Len(paced) + 1].file = Item.file /\ paced'[Len(paced) + 1].line = Item.line
      /\ paced'[Len(paced) + 1].ts = ts /\ paced'[Len(paced) + 1].at = at
  BY <1>3 DEF Returned
<1>5. PassedOn'
  <2>1. Len(paced') <= Len(out')
    BY <1>3, ItemType
  <2>2. ASSUME NEW i \in DOMAIN paced'
        PROVE  /\ paced'[i].ok = out'[i].ok
               /\ paced'[i].file = out'[i].file /\ paced'[i].line = out'[i].line
               /\ paced'[i].ok => paced'[i].ts = Shifted(out[i])
    <3>1. CASE i \in DOMAIN paced
      BY <1>3, <3>1 DEF PassedOn
    <3>2. CASE i = Len(paced) + 1
      BY <1>4, <3>2 DEF Item
    <3>3. QED
      BY <1>3, <3>1, <3>2
  <2>3. \A i : Shifted(out[i])' = Shifted(out[i])
    BY DEF Shifted
  <2>4. QED
    BY <2>1, <2>2, <2>3 DEF PassedOn
<1>6. QED
  BY <1>3, <1>4, <1>5

-----------------------------------------------------------------------------
(* One more item leaves the anchor what it was.                            *)
LEMMA AnchorStays ==
  ASSUME PacedType, AnchorSound, NEW n \in Nat,
         DOMAIN paced = 1 .. n, DOMAIN paced' = 1 .. n + 1,
         \A i \in DOMAIN paced : paced'[i] = paced[i],
         speed' = speed, anchor' = anchor, wall' \in Nat, wall <= wall',
         speed > 0 /\ paced'[n + 1].ok =>
           /\ anchor.set
           /\ (paced'[n + 1].at - anchor.wall) * speed + speed
                > paced'[n + 1].ts - anchor.ts
  PROVE  AnchorSound'
<1>1. SUFFICES ASSUME speed > 0 PROVE AnchorSound'
  BY DEF AnchorSound
<1>2. ASSUME NEW a \in DOMAIN paced PROVE Anchors(a)' <=> Anchors(a)
  <2>1. a \in 1 .. n /\ a \in DOMAIN paced'
    OBVIOUS
  <2>2. \A i \in DOMAIN paced' : i < a => i \in DOMAIN paced
    BY <2>1
  <2>3. \A i \in DOMAIN paced : i \in DOMAIN paced'
    OBVIOUS
  <2>4. (\A i \in DOMAIN paced' : i < a => ~paced'[i].ok)
          <=> (\A i \in DOMAIN paced : i < a => ~paced[i].ok)
    BY <2>2, <2>3
  <2>5. QED
    BY <2>1, <2>4 DEF Anchors
<1>3. anchor.set => anchor.wall <= wall'
  BY <1>1 DEF AnchorSound, PacedType
<1>4. anchor.set => \E a \in DOMAIN paced' : Anchors(a)'
  <2>1. SUFFICES ASSUME anchor.set PROVE \E a \in DOMAIN paced' : Anchors(a)'
    OBVIOUS
  <2>2. PICK a \in DOMAIN paced : Anchors(a)
    BY <1>1, <2>1 DEF AnchorSound
  <2>3. a \in DOMAIN paced' /\ Anchors(a)'
    BY <1>2, <2>2
  <2>4. QED
    BY <2>3
<1>5. ~anchor.set => \A i \in DOMAIN paced' : ~paced'[i].ok
  <2>1. SUFFICES ASSUME ~anchor.set, NEW i \in DOMAIN paced' PROVE ~paced'[i].ok
    OBVIOUS
  <2>2. CASE i \in DOMAIN paced
    BY <1>1, <2>1, <2>2 DEF AnchorSound
  <2>3. CASE i = n + 1
    BY <1>1, <2>1, <2>3
  <2>4. QED
    BY <2>2, <2>3
<1>6. ASSUME NEW a \in DOMAIN paced', NEW j \in DOMAIN paced',
             anchor.set, Anchors(a)', a < j, paced'[j].ok
      PROVE  (paced'[j].at - anchor.wall) * speed + speed > paced'[j].ts - anchor.ts
  <2>1. a \in DOMAIN paced /\ Anchors(a)
    <3>1. a \in DOMAIN paced
      BY <1>6
    <3>2. QED
      BY <1>2, <1>6, <3>1
  <2>2. CASE j \in DOMAIN paced
    <3>1. paced'[j] = paced[j]
      BY <2>2
    <3>2. (paced[j].at - anchor.wall) * speed + speed > paced[j].ts - anchor.ts
      BY <1>1, <1>6, <2>1, <2>2, <3>1 DEF AnchorSound
    <3>3. QED
      BY <3>1, <3>2
  <2>3. CASE j = n + 1
    BY <1>1, <1>6, <2>3
  <2>4. QED
    BY <2>2, <2>3
<1>7. QED
  BY <1>3, <1>4, <1>5, <1>6 DEF AnchorSound

(* The first event becomes the anchor.                                     *)
LEMMA AnchorIsSet ==
  ASSUME PacedType, AnchorSound, NEW n \in Nat,
         DOMAIN paced = 1 .. n, DOMAIN paced' = 1 .. n + 1,
         \A i \in DOMAIN paced : paced'[i] = paced[i],
         speed' = speed, wall' = wall, speed > 0, ~anchor.set, anchor'.set,
         paced'[n + 1].ok, anchor'.wall = wall,
         paced'[n + 1].at = anchor'.wall, paced'[n + 1].ts = anchor'.ts
  PROVE  AnchorSound'
<1>1. \A i \in DOMAIN paced : ~paced'[i].ok
  BY DEF AnchorSound
<1>2. n + 1 \in DOMAIN paced' /\ \A i \in DOMAIN paced' : i < n + 1 => i \in DOMAIN paced
  OBVIOUS
<1>3. Anchors(n + 1)'
  BY <1>1, <1>2 DEF Anchors
<1>4. \A a, j \in DOMAIN paced' : a < j => ~Anchors(a)'
  <2>1. \A a, j \in DOMAIN paced' : a < j => a \in DOMAIN paced
    OBVIOUS
  <2>2. \A a \in DOMAIN paced : ~Anchors(a)'
    BY <1>1 DEF Anchors
  <2>3. QED
    BY <2>1, <2>2
<1>5. anchor'.wall <= wall'
  BY DEF PacedType
<1>6. QED
  BY <1>2, <1>3, <1>4, <1>5 DEF AnchorSound

-----------------------------------------------------------------------------
(* A step of the merge leaves the pacer what it has passed on.             *)
LEMMA MergeKeepsPaced ==
  ASSUME PacerInv, [Next]_vars, UNCHANGED pacerVars
  PROVE  PacerInv'
<1>1. MergeInv /\ PacedType /\ PassedOn /\ AnchorSound
  BY DEF PacerInv
<1>2. MergeInv'
  BY <1>1, MergeStep
<1>3. PacedType'
  BY <1>1 DEF PacedType, pacerVars
<1>4. AnchorSound'
  BY <1>1 DEF AnchorSound, Anchors, pacerVars
<1>5. /\ Len(out) \in Nat /\ Len(out') \in Nat /\ Len(out) <= Len(out')
      /\ \A i \in 1 .. Len(out) : out'[i] = out[i]
  BY <1>1, OutGrows
<1>6. Len(paced) \in Nat /\ DOMAIN paced = 1 .. Len(paced) /\ Len(paced) <= Len(out)
  BY <1>1 DEF PacedType, PassedOn
<1>7. \A i \in DOMAIN paced : out'[i] = out[i]
  BY <1>5, <1>6
<1>8. paced' = paced /\ offset' = offset
  BY DEF pacerVars
<1>9. PassedOn'
  <2>1. Len(paced') <= Len(out')
    BY <1>5, <1>6, <1>8
  <2>2. \A e : Shifted(e)' = Shifted(e)
    BY <1>8 DEF Shifted
  <2>3. ASSUME NEW i \in DOMAIN paced
        PROVE  /\ paced[i].ok = out'[i].ok
               /\ paced[i].file = out'[i].file /\ paced[i].line = out'[i].line
               /\ paced[i].ok => paced[i].ts = Shifted(out[i]) /\ out'[i] = out[i]
    BY <1>1, <1>7 DEF PassedOn
  <2>4. \A i \in DOMAIN paced : Shifted(out[i])' = Shifted(out[i])
    BY <1>7, <1>8 DEF Shifted
  <2>5. QED
    BY <1>8, <2>1, <2>3, <2>4 DEF PassedOn
<1>10. QED
  BY <1>2, <1>3, <1>4, <1>9 DEF PacerInv

(* A step of the pacer, which the merge does not see.                      *)
LEMMA PaceKeepsInv ==
  ASSUME PacerInv, Pace, UNCHANGED vars
  PROVE  PacerInv'
<1> DEFINE n == Len(paced)
<1>1. MergeInv /\ PacedType /\ PassedOn /\ AnchorSound
  BY DEF PacerInv
<1>2. MergeInv'
  <2>1. [Next]_vars
    OBVIOUS
  <2>2. QED
    BY <1>1, <2>1, MergeStep
<1>3. /\ speed \in Nat /\ wall \in Nat /\ anchor.wall \in Nat /\ anchor.ts \in Nat
      /\ anchor.set \in BOOLEAN
      /\ anchor \in [set : BOOLEAN, wall : Nat, ts : Nat]
  BY <1>1, PacerAssumption DEF PacedType
<1>4. ~Starved
  BY DEF Pace, PassError, PassEvent, SetAnchor, HoldBack
<1>5. /\ n \in Nat /\ Item.ok \in BOOLEAN /\ Shifted(Item) \in Nat
  BY <1>1, <1>4, ItemType
<1>6. speed' = speed /\ offset' = offset /\ out' = out
  BY DEF Pace, PassError, PassEvent, SetAnchor, HoldBack, vars
<1>7. ASSUME NEW ts \in Nat, NEW at \in Nat, Item.ok => ts = Shifted(Item),
             paced' = Append(paced, Returned(ts, at)), wall' \in Nat,
             anchor' \in [set : BOOLEAN, wall : Nat, ts : Nat]
      PROVE  /\ PassedOn' /\ PacedType'
             /\ DOMAIN paced = 1 .. n /\ DOMAIN paced' = 1 .. n + 1
             /\ \A i \in DOMAIN paced : paced'[i] = paced[i]
             /\ paced'[n + 1].ok = Item.ok
             /\ paced'[n + 1].ts = ts /\ paced'[n + 1].at = at
  <2>1. /\ paced' \in Seq(PacedItem) /\ PassedOn'
        /\ DOMAIN paced = 1 .. n /\ DOMAIN paced' = 1 .. n + 1
        /\ \A i \in DOMAIN paced : paced'[i] = paced[i]
        /\ paced'[n + 1].ok = Item.ok
        /\ paced'[n + 1].ts = ts /\ paced'[n + 1].at = at
    BY <1>1, <1>4, <1>6, <1>7, ReturnAppends
  <2>2. PacedType'
    BY <1>1, <1>6, <1>7, <2>1 DEF PacedType, PacedItem
  <2>3. QED
    BY <2>1, <2>2
<1>8. CASE PassError
  <2>1. /\ ~Item.ok /\ wall' = wall /\ anchor' = anchor
        /\ paced' = Append(paced, Returned(0, wall))
    BY <1>8 DEF PassError
  <2>2. /\ PassedOn' /\ PacedType'
        /\ DOMAIN paced = 1 .. n /\ DOMAIN paced' = 1 .. n + 1
        /\ \A i \in DOMAIN paced : paced'[i] = paced[i]
        /\ paced'[n + 1].ok = Item.ok
    BY <1>3, <1>7, <2>1
  <2>3. ~paced'[n + 1].ok
    BY <2>1, <2>2, Zenon
  <2>4. wall' \in Nat /\ wall <= wall'
    BY <1>3, <2>1
  <2>5. AnchorSound'
    BY <1>1, <1>5, <1>6, <2>1, <2>2, <2>3, <2>4, AnchorStays
  <2>6. QED
    BY <1>2, <2>2, <2>5 DEF PacerInv
<1>9. CASE PassEvent
  <2>1. /\ speed = 0 /\ wall' = wall /\ anchor' = anchor
        /\ paced' = Append(paced, Returned(Shifted(Item), wall))
    BY <1>9 DEF PassEvent
  <2>2. PassedOn' /\ PacedType'
    BY <1>3, <1>5, <1>7, <2>1
  <2>3. AnchorSound'
    BY <1>6, <2>1 DEF AnchorSound
  <2>4. QED
    BY <1>2, <2>2, <2>3 DEF PacerInv
<1>10. CASE SetAnchor
  <2>1. /\ Item.ok /\ speed > 0 /\ ~anchor.set /\ wall' = wall
        /\ anchor' = [set |-> TRUE, wall |-> wall, ts |-> Shifted(Item)]
        /\ paced' = Append(paced, Returned(Shifted(Item), wall))
    BY <1>10 DEF SetAnchor
  <2>2. anchor' \in [set : BOOLEAN, wall : Nat, ts : Nat]
    BY <1>3, <1>5, <2>1
  <2>3. /\ PassedOn' /\ PacedType'
        /\ DOMAIN paced = 1 .. n /\ DOMAIN paced' = 1 .. n + 1
        /\ \A i \in DOMAIN paced : paced'[i] = paced[i]
        /\ paced'[n + 1].ok = Item.ok
        /\ paced'[n + 1].ts = Shifted(Item) /\ paced'[n + 1].at = wall
    BY <1>3, <1>5, <1>7, <2>1, <2>2
  <2>4. /\ anchor'.set /\ paced'[n + 1].ok /\ anchor'.wall = wall
        /\ paced'[n + 1].at = anchor'.wall /\ paced'[n + 1].ts = anchor'.ts
    BY <2>1, <2>3
  <2>5. AnchorSound'
    BY <1>1, <1>5, <1>6, <2>1, <2>3, <2>4, AnchorIsSet
  <2>6. QED
    BY <1>2, <2>3, <2>5 DEF PacerInv
<1>11. CASE HoldBack
  <2> DEFINE ts == Shifted(Item)
             x == Later(0, ts - anchor.ts)
  <2>1. /\ speed > 0 /\ anchor.set /\ wall' = Later(wall, Release(ts))
        /\ paced' = Append(paced, Returned(ts, wall')) /\ anchor' = anchor
    BY <1>11 DEF HoldBack
  <2>2. x \in Nat /\ ts - anchor.ts <= x
    BY <1>3, <1>5 DEF Later
  <2>3. x \div speed \in Nat /\ Release(ts) = anchor.wall + (x \div speed)
    BY <1>3, <2>1, <2>2, DivisionLoses DEF Release
  <2>4. /\ wall' \in Nat /\ wall <= wall' /\ x \div speed <= wall' - anchor.wall
        /\ wall' - anchor.wall \in Int
    <3>1. PICK q \in Nat : q = x \div speed
      BY <2>3
    <3>2. wall' = IF wall < anchor.wall + q THEN anchor.wall + q ELSE wall
      BY <2>1, <2>3, <3>1 DEF Later
    <3>3. wall' \in Nat /\ wall <= wall' /\ q <= wall' - anchor.wall
      BY <1>3, <3>1, <3>2
    <3>4. QED
      BY <1>3, <3>1, <3>3
  <2>5. (wall' - anchor.wall) * speed + speed > x
    BY <1>3, <2>1, <2>2, <2>4, HeldLongEnough
  <2>6. (wall' - anchor.wall) * speed + speed > ts - anchor.ts
    <3>1. PICK m \in Int : m = (wall' - anchor.wall) * speed
      BY <1>3, <2>4
    <3>2. QED
      BY <1>3, <1>5, <2>2, <2>5, <3>1
  <2>7. /\ PassedOn' /\ PacedType'
        /\ DOMAIN paced = 1 .. n /\ DOMAIN paced' = 1 .. n + 1
        /\ \A i \in DOMAIN paced : paced'[i] = paced[i]
        /\ paced'[n + 1].ok = Item.ok
        /\ paced'[n + 1].ts = ts /\ paced'[n + 1].at = wall'
    BY <1>3, <1>5, <1>7, <2>1, <2>4
  <2>8. AnchorSound'
    BY <1>1, <1>5, <1>6, <2>1, <2>4, <2>6, <2>7, AnchorStays
  <2>9. QED
    BY <1>2, <2>7, <2>8 DEF PacerInv
<1>12. QED
  BY <1>8, <1>9, <1>10, <1>11 DEF Pace

(* Time passes.                                                            *)
LEMMA TimeKeepsInv ==
  ASSUME PacerInv, TimePasses, UNCHANGED vars
  PROVE  PacerInv'
<1>1. MergeInv /\ PacedType /\ PassedOn /\ AnchorSound
  BY DEF PacerInv
<1>2. MergeInv'
  <2>1. [Next]_vars
    OBVIOUS
  <2>2. QED
    BY <1>1, <2>1, MergeStep
<1>3. /\ wall' = wall + 1 /\ speed' = speed /\ offset' = offset /\ anchor' = anchor
      /\ paced' = paced /\ out' = out
  BY DEF TimePasses, vars
<1>4. PacedType'
  BY <1>1, <1>3 DEF PacedType
<1>5. PassedOn'
  BY <1>1, <1>3 DEF PassedOn, Shifted
<1>6. AnchorSound'
  <2>1. anchor.wall <= wall => anchor.wall <= wall'
    BY <1>1, <1>3 DEF PacedType
  <2>2. QED
    BY <1>1, <1>3, <2>1 DEF AnchorSound, Anchors
<1>7. QED
  BY <1>2, <1>4, <1>5, <1>6 DEF PacerInv

(* PacerInv holds of the first state of a replay.                          *)
LEMMA PacerStart ==
  ASSUME ReplayInit
  PROVE  PacerInv
<1>1. Init /\ PacerInit
  BY DEF ReplayInit
<1>2. MergeInv
  BY <1>1, MergeInit
<1>3. PacedType
  BY <1>1 DEF PacerInit, PacedType, NoAnchor
<1>4. paced = << >> /\ out = << >> /\ ~anchor.set
  BY <1>1 DEF PacerInit, Init, NoAnchor
<1>5. PassedOn
  BY <1>4 DEF PassedOn
<1>6. AnchorSound
  BY <1>4 DEF AnchorSound
<1>7. QED
  BY <1>2, <1>3, <1>5, <1>6 DEF PacerInv

-----------------------------------------------------------------------------
(* What has been returned, with its types.                                 *)
LEMMA PacedAt ==
  ASSUME PacedType, NEW i \in DOMAIN paced
  PROVE  /\ paced[i].ok \in BOOLEAN /\ paced[i].ts \in Nat /\ paced[i].file \in File
         /\ paced[i].line \in Nat /\ paced[i].at \in Nat /\ i \in Nat
         /\ i \in 1 .. Len(paced) /\ Len(paced) \in Nat
         /\ offset[paced[i].file] \in Int
<1>1. paced \in Seq(PacedItem)
  BY DEF PacedType, PacedItem
<1>2. paced[i] \in PacedItem
  BY <1>1, ElementOfSeq
<1>3. paced[i].file \in File
  BY <1>2 DEF PacedItem
<1>4. offset[paced[i].file] \in Int
  BY <1>3, PacerAssumption DEF PacedType
<1>5. QED
  BY <1>1, <1>2, <1>4 DEF PacedItem

(* Nothing is released early: the anchor is the first event.               *)
LEMMA PacerIsNeverEarly ==
  ASSUME PacerInv
  PROVE  NeverEarly
<1>1. PacedType /\ AnchorSound
  BY DEF PacerInv
<1>2. SUFFICES ASSUME speed > 0, NEW i \in DOMAIN paced, NEW j \in DOMAIN paced,
                      i < j, paced[i].ok, paced[j].ok,
                      \A k \in 1 .. i - 1 : ~paced[k].ok
               PROVE  (paced[j].at - paced[i].at) * speed + speed > paced[j].ts - paced[i].ts
  BY DEF NeverEarly
<1>3. anchor.set /\ \E a \in DOMAIN paced : Anchors(a)
  BY <1>1, <1>2 DEF AnchorSound
<1>4. PICK a \in DOMAIN paced : Anchors(a)
  BY <1>3
<1>5. a = i
  <2>1. a \in Nat /\ i \in Nat /\ a \in 1 .. Len(paced)
    BY <1>1, PacedAt
  <2>2. ~(i < a)
    BY <1>2, <1>4 DEF Anchors
  <2>3. ~(a < i)
    <3>1. ASSUME a < i PROVE FALSE
      <4>1. a \in 1 .. i - 1
        BY <2>1, <3>1
      <4>2. QED
        BY <1>2, <1>4, <4>1 DEF Anchors
    <3>2. QED
      BY <3>1
  <2>4. QED
    BY <2>1, <2>2, <2>3
<1>6. anchor.wall = paced[i].at /\ anchor.ts = paced[i].ts
  BY <1>4, <1>5 DEF Anchors
<1>7. (paced[j].at - anchor.wall) * speed + speed > paced[j].ts - anchor.ts
  BY <1>1, <1>2, <1>3, <1>4, <1>5 DEF AnchorSound
<1>8. QED
  BY <1>6, <1>7

(* Shifting keeps the order up to what the offsets differ.                 *)
LEMMA OffsetsReorderBy ==
  ASSUME NEW s \in Nat, NEW t \in Nat, s <= t, NEW o \in Int, NEW p \in Int
  PROVE  Later(0, s + o) - Later(0, t + p) <= Later(0, o - p)
  BY DEF Later

(* The merge has the events in order; the offsets alone reorder them.      *)
LEMMA PacerIsInBudget ==
  ASSUME PacerInv
  PROVE  GlitchWithinBudget
<1>1. PacedType /\ PassedOn /\ TypeOK /\ MergedInOrder
  BY DEF PacerInv, MergeInv
<1>2. SUFFICES ASSUME NEW i \in DOMAIN paced, NEW j \in DOMAIN paced,
                      i < j, paced[i].ok, paced[j].ok,
                      ~WentBack(paced[j].file, paced[j].line)
               PROVE  paced[i].ts - paced[j].ts
                        <= Later(0, offset[paced[i].file] - offset[paced[j].file])
  BY DEF GlitchWithinBudget
<1>3. ASSUME NEW k \in {i, j}
      PROVE  /\ k \in DOMAIN out /\ out[k].ok /\ out[k].ts \in Nat
             /\ out[k].file = paced[k].file /\ out[k].line = paced[k].line
             /\ paced[k].ts = Later(0, out[k].ts + offset[paced[k].file])
             /\ offset[paced[k].file] \in Int
  <2>1. k \in DOMAIN paced /\ k \in 1 .. Len(paced) /\ Len(paced) \in Nat
        /\ offset[paced[k].file] \in Int
    BY <1>1, PacedAt
  <2>2. out \in Seq(Result) /\ Len(paced) <= Len(out)
    BY <1>1 DEF TypeOK, PassedOn
  <2>3. k \in DOMAIN out
    BY <2>1, <2>2
  <2>4. out[k] \in Result
    BY <2>2, <2>3, ElementOfSeq
  <2>5. out[k].ts \in Nat
    BY <2>4, MergeAssumption DEF Result, Ts
  <2>6. /\ paced[k].ok = out[k].ok
        /\ paced[k].file = out[k].file /\ paced[k].line = out[k].line
        /\ paced[k].ok => paced[k].ts = Shifted(out[k])
    BY <1>1, <2>1 DEF PassedOn
  <2>7. paced[k].ok
    BY <1>2
  <2>8. QED
    BY <2>1, <2>3, <2>5, <2>6, <2>7 DEF Shifted
<1>4. out[i].ts <= out[j].ts
  <2>1. ~WentBack(out[j].file, out[j].line)
    BY <1>2, <1>3
  <2>2. QED
    BY <1>1, <1>2, <1>3, <2>1 DEF MergedInOrder
<1>5. QED
  BY <1>3, <1>4, OffsetsReorderBy

-----------------------------------------------------------------------------
(* PacerInv holds throughout a replay.                                     *)
THEOREM PacerInvariant == ReplaySpec => []PacerInv
<1>1. ReplayInit => PacerInv
  BY PacerStart
<1>2. PacerInv /\ [ReplayNext]_replayVars => PacerInv'
  BY ReplayCases, MergeKeepsPaced, PaceKeepsInv, TimeKeepsInv
<1>3. QED
  BY <1>1, <1>2, PTL DEF ReplaySpec

(* In realtime mode no event is released earlier after the first one than  *)
(* its shifted stamp says, whatever was read, at any speed (pace_to).      *)
THEOREM NothingEarly == ReplaySpec => []NeverEarly
<1>1. PacerInv => NeverEarly
  BY PacerIsNeverEarly
<1>2. QED
  BY <1>1, PacerInvariant, PTL

(* Latency offsets reorder the stream by no more than they differ          *)
(* (shift_ts behind the merge).                                            *)
THEOREM GlitchesWithinBudget == ReplaySpec => []GlitchWithinBudget
<1>1. PacerInv => GlitchWithinBudget
  BY PacerIsInBudget
<1>2. QED
  BY <1>1, PacerInvariant, PTL

(* What is proved of the merge holds of a merge that a command reads.      *)
THEOREM ReplayMerges == ReplaySpec => Spec
<1>1. ReplayInit => Init
  BY DEF ReplayInit
<1>2. [ReplayNext]_replayVars => [Next]_vars
  BY ReplayCases
<1>3. QED
  BY <1>1, <1>2, PTL DEF ReplaySpec, Spec

(* So a replay loses of a damaged file what the merge loses, and no more.  *)
THEOREM ReplayContainsDamage == ReplaySpec => []DamageContained
  BY ReplayMerges, MergeContainsDamage, PTL

(* The events as records, and what was delivered.                          *)
EventAt(f, j) == [ts |-> file[f][j].ts, file |-> f, line |-> j]
OutRow(i)     == [ts |-> out[i].ts, file |-> out[i].file, line |-> out[i].line]
NoErrorIn(n)  == \A k \in 1 .. n : out[k].ok

(* What is delivered is a wanted event.                                    *)
DeliveredWanted ==
  \A i \in DOMAIN out : out[i].ok =>
    out[i].line \in Wanted(out[i].file) /\ OutRow(i) = EventAt(out[i].file, out[i].line)

(* Before an error everything smaller than what is delivered came earlier. *)
NoneSkipped ==
  ClockSteady => \A i \in DOMAIN out : NoErrorIn(i) =>
    \A f \in File : \A j \in Wanted(f) :
      Before(EventAt(f, j), OutRow(i)) => \E k \in 1 .. i - 1 : OutRow(k) = EventAt(f, j)

FrontInv == DamageInv /\ DeliveredWanted /\ NoneSkipped

-----------------------------------------------------------------------------
(* An event that a pull could deliver is one its file offers.              *)
LEMMA EntryIsOffered ==
  ASSUME DamageInv, NEW e \in heap
  PROVE  e.file \in File /\ Offering(e.file) /\ e.line = pos[e.file]
         /\ e = EventAt(e.file, e.line)
<1> USE DEF DamageInv, MergeInv
<1>1. /\ e \in Entry /\ e.file \in File /\ e.line = pos[e.file]
      /\ e.line \in DOMAIN file[e.file] /\ e.ts = file[e.file][e.line].ts
  BY DEF HeapSound, EntrySound
<1>2. DOMAIN file[e.file] = 1 .. Len(file[e.file])
  BY <1>1 DEF TypeOK
<1>3. pos[e.file] # 0
  BY <1>1, <1>2
<1>4. ~Unread(e.file) /\ ~Done(e.file) /\ ~GivenUp(e.file)
  BY <1>1, <1>3 DEF Unread, Done, GivenUp, OutOfHeap
<1>5. e = EventAt(e.file, e.line)
  BY <1>1 DEF Entry, EventAt
<1>6. QED
  BY <1>1, <1>4, <1>5

(* While no error was returned, what was not delivered is not smaller than *)
(* any least entry of the heap.                                            *)
LEMMA LeastIsNext ==
  ASSUME DamageInv, ClockSteady, phase = "merging", NoErrorIn(Len(out)),
         NEW e \in heap, Least(e),
         NEW f \in File, NEW j \in Wanted(f), Before(EventAt(f, j), EventAt(e.file, e.line))
  PROVE  j \in Delivered(f)
<1> USE DEF DamageInv, MergeInv
<1>1. SUFFICES ASSUME j \notin Delivered(f) PROVE FALSE
  OBVIOUS
<1>2. /\ f \in Nat /\ e.file \in Nat /\ e.file \in File
      /\ f <= primed
  BY MergeAssumption, ResultType DEF File
<1>3. ~Unread(f)
  BY <1>2 DEF Unread, TypeOK
<1>4. ~GivenUp(f)
  <2>1. DOMAIN out = 1 .. Len(out)
    BY DEF TypeOK
  <2>2. QED
    BY <2>1 DEF GivenUp, Reported, NoErrorIn
<1>5. ~Done(f)
  BY <1>1 DEF Done
<1>6. Offering(f)
  BY <1>3, <1>4, <1>5
<1>7. PICK d \in heap : d.file = f
  BY <1>6 DEF Offering
<1>8. d.line = pos[f] /\ d = EventAt(f, d.line) /\ d.ts = file[f][d.line].ts
      /\ d.line \in DOMAIN file[f] /\ file[f][d.line].ok
  BY <1>7, EntryIsOffered DEF HeapSound, EntrySound
<1>9. j \in DOMAIN file[f] /\ file[f][j].ok /\ j \in Nat /\ d.line \in Nat
      /\ file[f][j].ts \in Nat /\ file[f][d.line].ts \in Nat
  BY <1>8, LineAt, SetsTyped, MergeAssumption DEF Wanted, Ts
<1>10. d.line <= j
  BY <1>1, <1>6, <1>8, <1>9 DEF Offering, WantedTo
<1>11. file[f][d.line].ts <= file[f][j].ts
  <2>1. CASE d.line = j
    BY <1>9, <2>1
  <2>2. CASE d.line < j
    <3>1. d.line \in 1 .. j - 1
      BY <1>8, <1>9, <2>2, LineAt
    <3>2. ~WentBack(f, j)
      BY <1>9 DEF ClockSteady
    <3>3. QED
      BY <1>8, <1>9, <3>1, <3>2 DEF WentBack
  <2>3. QED
    BY <1>9, <1>10, <2>1, <2>2
<1>12. e = EventAt(e.file, e.line) /\ e.ts \in Nat /\ e.line \in Nat
  BY EntryIsOffered, ResultType, MergeAssumption DEF Ts
<1>13. d = e \/ Less(e, d)
  BY DEF Least
<1>14. EventAt(f, j).ts = file[f][j].ts /\ EventAt(f, j).file = f /\ EventAt(f, j).line = j
  BY DEF EventAt
<1>15. QED
  BY <1>2, <1>7, <1>8, <1>9, <1>10, <1>11, <1>12, <1>13, <1>14 DEF Less, Before

(* A step that delivers nothing keeps what is known of what was delivered. *)
LEMMA FrontUnchanged ==
  ASSUME FrontInv, DamageInv', file' = file, out' = out
  PROVE  FrontInv'
<1>1. \A f : Wanted(f)' = Wanted(f)
  BY DEF Wanted
<1>2. /\ \A f, j : EventAt(f, j)' = EventAt(f, j)
      /\ \A i : OutRow(i)' = OutRow(i)
      /\ \A i : NoErrorIn(i)' = NoErrorIn(i)
      /\ ClockSteady' = ClockSteady
  BY DEF EventAt, OutRow, NoErrorIn, ClockSteady, WentBack
<1>3. DeliveredWanted'
  BY <1>1, <1>2 DEF FrontInv, DeliveredWanted
<1>4. NoneSkipped'
  BY <1>1, <1>2 DEF FrontInv, NoneSkipped
<1>5. QED
  BY <1>3, <1>4 DEF FrontInv

(* A pull delivers the smallest event that was not delivered.              *)
LEMMA PullKeepsFront ==
  ASSUME FrontInv, DamageInv', NEW e \in heap, Pull(e) \/ PullFails(e)
  PROVE  FrontInv'
<1> USE DEF FrontInv, DamageInv, MergeInv
<1>0. PICK n \in Nat : n = Len(out)
  BY DEF TypeOK
<1>1. /\ DOMAIN out' = 1 .. n + 1 /\ DOMAIN out = 1 .. n
      /\ \A i \in DOMAIN out : out'[i] = out[i]
      /\ out'[n + 1].ok => Pull(e) /\ out'[n + 1] = Yield(e)
  BY <1>0, PullAppends
<1>2. file' = file /\ phase = "merging" /\ Least(e)
  BY DEF Pull, PullFails
<1>3. /\ e.file \in File /\ Offering(e.file) /\ e.line = pos[e.file]
      /\ e = EventAt(e.file, e.line)
  BY EntryIsOffered
<1>4. \A f : Wanted(f)' = Wanted(f)
  BY <1>2 DEF Wanted
<1>5. \A f, j : EventAt(f, j)' = EventAt(f, j)
  BY <1>2 DEF EventAt
<1>6. ClockSteady' = ClockSteady
  BY <1>2 DEF ClockSteady, WentBack
<1>7. \A i \in DOMAIN out : OutRow(i)' = OutRow(i)
  BY <1>1 DEF OutRow
<1>8. out'[n + 1].ok => /\ out'[n + 1].file = e.file /\ out'[n + 1].line = e.line
                        /\ OutRow(n + 1)' = EventAt(e.file, e.line)
  BY <1>1, <1>3, EntryIsOffered DEF Yield, OutRow, EventAt, HeapSound, EntrySound
<1>9. DeliveredWanted'
  <2>1. SUFFICES ASSUME NEW i \in DOMAIN out', out'[i].ok
                 PROVE  /\ out'[i].line \in Wanted(out'[i].file)
                        /\ OutRow(i)' = EventAt(out'[i].file, out'[i].line)
    BY <1>4, <1>5 DEF DeliveredWanted
  <2>2. CASE i \in DOMAIN out
    BY <1>1, <1>7, <2>1, <2>2 DEF DeliveredWanted
  <2>3. CASE i = n + 1
    <3>1. out'[i].file = e.file /\ out'[i].line = e.line
      BY <1>8, <2>1, <2>3
    <3>2. OutRow(i)' = EventAt(e.file, e.line)
      BY <1>8, <2>1, <2>3 DEF OutRow
    <3>3. QED
      BY <1>3, <3>1, <3>2 DEF Offering
  <2>4. QED
    BY <1>1, <2>2, <2>3
<1>10. ASSUME NEW i \in DOMAIN out', ClockSteady, NoErrorIn(i)',
              NEW f \in File, NEW j \in Wanted(f), Before(EventAt(f, j), OutRow(i)')
       PROVE  \E k \in 1 .. i - 1 : OutRow(k)' = EventAt(f, j)
  <2>1. CASE i \in DOMAIN out
    <3>1. \A k \in 1 .. i : k \in DOMAIN out
      BY <1>1, <2>1
    <3>2. NoErrorIn(i)
      BY <1>1, <1>10, <3>1 DEF NoErrorIn
    <3>3. PICK k \in 1 .. i - 1 : OutRow(k) = EventAt(f, j)
      BY <1>7, <1>10, <2>1, <3>2 DEF NoneSkipped
    <3>4. k \in DOMAIN out
      BY <1>1, <2>1
    <3>5. QED
      BY <1>7, <3>3, <3>4
  <2>2. CASE i = n + 1
    <3>1. \A k \in 1 .. n + 1 : out'[k].ok
      BY <1>10, <2>2 DEF NoErrorIn
    <3>2. NoErrorIn(n)
      BY <1>1, <3>1 DEF NoErrorIn
    <3>3. OutRow(i)' = EventAt(e.file, e.line)
      BY <1>1, <1>8, <2>2, <3>1 DEF OutRow
    <3>4. j \in Delivered(f)
      BY <1>0, <1>2, <1>10, <3>2, <3>3, LeastIsNext
    <3>5. PICK k \in DOMAIN out : out[k].ok /\ out[k].file = f /\ out[k].line = j
      BY <3>4 DEF Delivered
    <3>6. OutRow(k) = EventAt(f, j)
      BY <3>5 DEF DeliveredWanted
    <3>7. k \in 1 .. i - 1
      BY <1>1, <2>2
    <3>8. QED
      BY <1>7, <3>5, <3>6, <3>7
  <2>3. QED
    BY <1>1, <2>1, <2>2
<1>11. NoneSkipped'
  BY <1>4, <1>5, <1>6, <1>10 DEF NoneSkipped
<1>12. QED
  BY <1>9, <1>11

(* No file has been read when the merge starts.                            *)
LEMMA FrontInit == Init => FrontInv
<1>1. SUFFICES ASSUME Init PROVE FrontInv
  OBVIOUS
<1>2. DOMAIN out = {}
  BY <1>1 DEF Init
<1>3. QED
  BY <1>1, <1>2, DamageInit DEF FrontInv, DeliveredWanted, NoneSkipped

(* Every step of the merge delivers the wanted event in front, or none.    *)
LEMMA FrontStep == FrontInv /\ [Next]_vars => FrontInv'
<1> SUFFICES ASSUME FrontInv, [Next]_vars PROVE FrontInv'
  OBVIOUS
<1>1. DamageInv'
  BY DamageStep DEF FrontInv
<1>2. ASSUME NEW e \in heap, Pull(e) \/ PullFails(e) PROVE FrontInv'
  BY <1>1, <1>2, PullKeepsFront
<1>3. CASE Prime \/ PrimeFails \/ OpenFails \/ Primed \/ Exhaust \/ Finished \/ UNCHANGED vars
  <2>1. file' = file /\ out' = out
    BY <1>3 DEF Prime, PrimeFails, OpenFails, Primed, Exhaust, Finished, vars
  <2>2. QED
    BY <1>1, <2>1, FrontUnchanged
<1>4. QED
  BY <1>2, <1>3 DEF Next

-----------------------------------------------------------------------------
(* The events of the files, and their order.                               *)
LEMMA EventsAre ==
  ASSUME TypeOK
  PROVE  /\ \A r : r \in Events <=> \E f \in File : \E j \in Wanted(f) : r = EventAt(f, j)
         /\ IsFiniteSet(Events) /\ Cardinality(Events) \in Nat
<1> DEFINE Of(f) == {EventAt(f, j) : j \in Wanted(f)}
<1>1. Events = UNION {Of(f) : f \in File}
  BY DEF Events, EventAt
<1>2. \A r : r \in Events <=> \E f \in File : \E j \in Wanted(f) : r = EventAt(f, j)
  BY <1>1
<1>3. ASSUME NEW f \in File PROVE IsFiniteSet(Of(f))
  <2>1. Wanted(f) \subseteq 1 .. Len(file[f]) /\ Len(file[f]) \in Nat
    BY DEF Wanted, TypeOK
  <2>2. IsFiniteSet(1 .. Len(file[f]))
    BY <2>1, FS_Interval
  <2>3. IsFiniteSet(Wanted(f))
    BY <2>1, <2>2, FS_Subset
  <2>4. [j \in Wanted(f) |-> EventAt(f, j)] \in Surjection(Wanted(f), Of(f))
    BY DEF Surjection
  <2>5. QED
    BY <2>3, <2>4, FS_Surjection
<1>4. IsFiniteSet({Of(f) : f \in File})
  <2>1. IsFiniteSet(File)
    BY FS_Interval, MergeAssumption DEF File
  <2>2. [f \in File |-> Of(f)] \in Surjection(File, {Of(f) : f \in File})
    BY DEF Surjection
  <2>3. QED
    BY <2>1, <2>2, FS_Surjection
<1>5. IsFiniteSet(UNION {Of(f) : f \in File})
  <2>1. \A T \in {Of(f) : f \in File} : IsFiniteSet(T)
    BY <1>3
  <2>2. QED
    BY <1>4, <2>1, FS_UNION
<1>6. QED
  BY <1>1, <1>2, <1>5, FS_CardinalityType

(* An event is a wanted line of its file.                                  *)
LEMMA EventType ==
  ASSUME TypeOK, NEW r \in Events
  PROVE  /\ r.ts \in Nat /\ r.file \in Nat /\ r.line \in Nat
         /\ r.file \in File /\ r.line \in Wanted(r.file) /\ r = EventAt(r.file, r.line)
<1>0. PICK f \in File : \E j \in Wanted(f) : r = EventAt(f, j)
  BY EventsAre
<1>1. PICK j \in Wanted(f) : r = EventAt(f, j)
  BY <1>0
<1>2. r.ts = file[f][j].ts /\ r.file = f /\ r.line = j
  BY <1>1 DEF EventAt
<1>3. j \in DOMAIN file[f]
  BY SetsTyped
<1>4. file[f][j].ts \in Nat /\ j \in Nat
  BY <1>3, LineAt, MergeAssumption DEF Ts
<1>5. f \in Nat
  BY MergeAssumption DEF File
<1>6. QED
  BY <1>1, <1>2, <1>4, <1>5

(* Before is a strict order in which any two events are compared.          *)
LEMMA BeforeIsOrder ==
  ASSUME TypeOK
  PROVE  /\ \A r \in Events : ~Before(r, r)
         /\ \A p, q, r \in Events : Before(p, q) /\ Before(q, r) => Before(p, r)
         /\ \A p, q \in Events : p = q \/ Before(p, q) \/ Before(q, p)
<1>1. \A r \in Events : r.ts \in Nat /\ r.file \in Nat /\ r.line \in Nat
  BY EventType
<1>2. \A p, q \in Events : p.file = q.file /\ p.line = q.line => p = q
  BY EventType
<1>3. \A r \in Events : ~Before(r, r)
  BY <1>1 DEF Before
<1>4. \A p, q, r \in Events : Before(p, q) /\ Before(q, r) => Before(p, r)
  BY <1>1 DEF Before
<1>5. \A p, q \in Events : p = q \/ Before(p, q) \/ Before(q, p)
  BY <1>1, <1>2 DEF Before
<1>6. QED
  BY <1>3, <1>4, <1>5

(* The events below r.                                                     *)
Below(r) == {q \in Events : Before(q, r)}

(* A larger event has a larger rank, and no rank reaches the number of     *)
(* events.                                                                 *)
LEMMA RankGrows ==
  ASSUME TypeOK, NEW p \in Events, NEW q \in Events, Before(p, q)
  PROVE  Rank(p) \in Nat /\ Rank(q) \in Nat /\ Rank(p) < Rank(q)
<1>1. IsFiniteSet(Events) /\ Below(p) \subseteq Events /\ Below(q) \subseteq Events
  BY EventsAre DEF Below
<1>2. IsFiniteSet(Below(p)) /\ IsFiniteSet(Below(q))
  BY <1>1, FS_Subset
<1>3. Cardinality(Below(p)) \in Nat /\ Cardinality(Below(q)) \in Nat
  BY <1>2, FS_CardinalityType
<1>4. Below(p) \subseteq Below(q)
  BY BeforeIsOrder DEF Below
<1>5. p \in Below(q) /\ p \notin Below(p)
  BY BeforeIsOrder DEF Below
<1>6. Cardinality(Below(p)) <= Cardinality(Below(q)) /\ Cardinality(Below(p)) # Cardinality(Below(q))
  BY <1>2, <1>4, <1>5, FS_Subset
<1>7. Rank(p) = Cardinality(Below(p)) /\ Rank(q) = Cardinality(Below(q))
  BY DEF Rank, Below
<1>8. QED
  BY <1>3, <1>6, <1>7

(* The rank of an event is below their number.                             *)
LEMMA RankInRange ==
  ASSUME TypeOK, NEW r \in Events
  PROVE  Rank(r) \in Nat /\ Rank(r) < Cardinality(Events)
<1>1. IsFiniteSet(Events) /\ Below(r) \subseteq Events /\ Cardinality(Events) \in Nat
  BY EventsAre DEF Below
<1>2. IsFiniteSet(Below(r))
  BY <1>1, FS_Subset
<1>3. r \notin Below(r)
  BY BeforeIsOrder DEF Below
<1>4. /\ Cardinality(Below(r)) \in Nat /\ Cardinality(Below(r)) <= Cardinality(Events)
      /\ Cardinality(Below(r)) # Cardinality(Events)
  BY <1>1, <1>2, <1>3, FS_Subset, FS_CardinalityType
<1>5. Rank(r) = Cardinality(Below(r))
  BY DEF Rank, Below
<1>6. QED
  BY <1>1, <1>4, <1>5

(* The reference has an event at the place that its rank says.             *)
LEMMA RecordedAtRank ==
  ASSUME TypeOK, NEW r \in Events
  PROVE  /\ Rank(r) + 1 \in 1 .. Cardinality(Events)
         /\ Recorded[Rank(r) + 1] = r
<1>1. Rank(r) \in Nat /\ Rank(r) < Cardinality(Events) /\ Cardinality(Events) \in Nat
  BY RankInRange, EventsAre
<1>2. PICK i \in 1 .. Cardinality(Events) : i = Rank(r) + 1 /\ i - 1 = Rank(r)
  BY <1>1
<1>3. Recorded[i] = CHOOSE q \in Events : Rank(q) = i - 1
  BY DEF Recorded
<1>4. \A q \in Events : Rank(q) = Rank(r) => q = r
  <2>1. SUFFICES ASSUME NEW q \in Events, Rank(q) = Rank(r), q # r PROVE FALSE
    OBVIOUS
  <2>2. Before(q, r) \/ Before(r, q)
    BY <2>1, BeforeIsOrder
  <2>3. QED
    BY <2>1, <2>2, RankGrows
<1>5. QED
  BY <1>2, <1>3, <1>4

-----------------------------------------------------------------------------
(* What the merge returns before an error is the beginning of the events,  *)
(* in their order.                                                         *)
LEMMA RowIsEvent ==
  ASSUME FrontInv, NEW i \in DOMAIN out, out[i].ok
  PROVE  OutRow(i) \in Events
<1> USE DEF FrontInv, DamageInv, MergeInv
<1>1. out[i].line \in Wanted(out[i].file) /\ OutRow(i) = EventAt(out[i].file, out[i].line)
  BY DEF DeliveredWanted
<1>2. out[i].file \in File
  <2>1. out[i] \in Result
    BY ElementOfSeq DEF TypeOK
  <2>2. QED
    BY <2>1 DEF Result
<1>3. QED
  BY <1>1, <1>2, EventsAre

(* Earlier items are earlier events, while no file goes back in time.      *)
LEMMA RowsInOrder ==
  ASSUME FrontInv, ClockSteady, NEW i \in DOMAIN out, NEW j \in DOMAIN out, i < j,
         out[i].ok, out[j].ok
  PROVE  Before(OutRow(i), OutRow(j))
<1> USE DEF FrontInv, DamageInv, MergeInv
<1>1. OutRow(i) \in Events /\ OutRow(j) \in Events
  BY RowIsEvent
<1>2. /\ OutRow(j).file \in File /\ OutRow(j).line \in Wanted(OutRow(j).file)
      /\ OutRow(i).ts \in Nat /\ OutRow(j).ts \in Nat
      /\ OutRow(i).file \in Nat /\ OutRow(j).file \in Nat
  BY <1>1, EventType
<1>3. /\ OutRow(i).ts = out[i].ts /\ OutRow(i).file = out[i].file /\ OutRow(i).line = out[i].line
      /\ OutRow(j).ts = out[j].ts /\ OutRow(j).file = out[j].file /\ OutRow(j).line = out[j].line
  BY DEF OutRow
<1>4. ~WentBack(out[j].file, out[j].line)
  BY <1>2, <1>3 DEF ClockSteady, Wanted
<1>5. /\ out[i].file = out[j].file => out[i].line < out[j].line
      /\ out[i].ts <= out[j].ts
      /\ out[i].ts = out[j].ts => out[i].file <= out[j].file
  BY <1>4 DEF MergedInOrder
<1>6. QED
  BY <1>2, <1>3, <1>5 DEF Before

(* The events in front of a delivered one are those delivered before it.   *)
LEMMA RankOfRow ==
  ASSUME FrontInv, ClockSteady, NEW n \in DOMAIN out, NoErrorIn(n)
  PROVE  Rank(OutRow(n)) = n - 1
<1> USE DEF FrontInv, DamageInv, MergeInv
<1>1. n \in Nat /\ n \in 1 .. Len(out) /\ Len(out) \in Nat /\ DOMAIN out = 1 .. Len(out)
  BY DEF TypeOK
<1>2. \A k \in 1 .. n : k \in DOMAIN out /\ out[k].ok /\ OutRow(k) \in Events
  BY <1>1, RowIsEvent DEF NoErrorIn
<1>3. \A k, l \in 1 .. n : k < l => Before(OutRow(k), OutRow(l))
  BY <1>2, RowsInOrder
<1> DEFINE g == [k \in 1 .. n - 1 |-> OutRow(k)]
<1>4. \A k \in 1 .. n - 1 : k \in 1 .. n /\ k < n /\ n \in 1 .. n
  BY <1>1
<1>5. g \in [1 .. n - 1 -> Below(OutRow(n))]
  BY <1>2, <1>3, <1>4 DEF Below
<1>6. ASSUME NEW k \in 1 .. n - 1, NEW l \in 1 .. n - 1, g[k] = g[l] PROVE k = l
  <2>1. OutRow(k) = OutRow(l) /\ k \in Int /\ l \in Int
    BY <1>6
  <2>2. ~Before(OutRow(k), OutRow(k))
    BY <1>2, <1>4, BeforeIsOrder
  <2>3. ~(k < l) /\ ~(l < k)
    BY <1>3, <1>4, <2>1, <2>2
  <2>4. QED
    BY <2>1, <2>3
<1>7. \A q \in Below(OutRow(n)) : \E k \in 1 .. n - 1 : g[k] = q
  <2>1. SUFFICES ASSUME NEW q \in Events, Before(q, OutRow(n))
                 PROVE  \E k \in 1 .. n - 1 : OutRow(k) = q
    BY DEF Below
  <2>2. PICK f \in File : \E j \in Wanted(f) : q = EventAt(f, j)
    BY EventsAre
  <2>3. QED
    BY <2>1, <2>2 DEF NoneSkipped
<1>8. g \in Bijection(1 .. n - 1, Below(OutRow(n)))
  BY <1>5, <1>6, <1>7 DEF Bijection, Injection, Surjection, IsInjective
<1>9. Cardinality(Below(OutRow(n))) = n - 1
  <2>1. n - 1 \in Nat
    BY <1>1
  <2>2. QED
    BY <1>8, <2>1, FS_CountingElements DEF ExistsBijection
<1>10. QED
  BY <1>9 DEF Rank, Below

(* The stream, before its first error, is the start of the reference.      *)
LEMMA OutIsRecorded ==
  ASSUME FrontInv, ClockSteady, NEW n \in DOMAIN out, NoErrorIn(n)
  PROVE  n \in DOMAIN Recorded /\ Recorded[n] = OutRow(n)
<1> USE DEF FrontInv, DamageInv, MergeInv
<1>1. n \in Nat /\ n \in 1 .. n
  BY DEF TypeOK
<1>2. OutRow(n) \in Events
  BY <1>1, RowIsEvent DEF NoErrorIn
<1>3. Rank(OutRow(n)) + 1 = n
  BY <1>1, RankOfRow
<1>4. QED
  BY <1>2, <1>3, RecordedAtRank DEF Recorded

(* A merge that ends without an error has returned every event, and no     *)
(* file is damaged.                                                        *)
LEMMA AllRecorded ==
  ASSUME FrontInv, phase = "exhausted", NoErrorIn(Len(out))
  PROVE  /\ \A f \in File : BrokenIn(f) = {}
         /\ ClockSteady => Len(Recorded) = Len(out)
<1> USE DEF FrontInv, DamageInv, MergeInv
<1>1. Len(out) \in Nat /\ DOMAIN out = 1 .. Len(out)
  BY DEF TypeOK
<1>2. \A f \in File : Done(f)
  <2>1. SUFFICES ASSUME NEW f \in File PROVE Done(f)
    OBVIOUS
  <2>2. f <= primed /\ f \in Nat /\ primed \in Nat /\ heap = {}
    BY MergeAssumption DEF File
  <2>3. ~Unread(f) /\ ~Offering(f)
    BY <2>2 DEF Unread, Offering
  <2>4. ~GivenUp(f)
    BY <1>1 DEF GivenUp, Reported, NoErrorIn
  <2>5. QED
    BY <2>3, <2>4
<1>3. \A f \in File : BrokenIn(f) = {}
  BY <1>2 DEF Done
<1>4. ASSUME ClockSteady PROVE Len(Recorded) = Len(out)
  <2>1. IsFiniteSet(Events) /\ Cardinality(Events) \in Nat /\ DOMAIN Recorded = 1 .. Cardinality(Events)
    BY EventsAre DEF Recorded
  <2>2. \A i \in DOMAIN out : out[i].ok
    BY <1>1 DEF NoErrorIn
  <2>3. \A i \in DOMAIN out : OutRow(i) \in Events
    BY <2>2, RowIsEvent
  <2>4. ASSUME NEW q \in Events PROVE \E i \in DOMAIN out : OutRow(i) = q
    <3>1. PICK f \in File : \E j \in Wanted(f) : q = EventAt(f, j)
      BY EventsAre
    <3>2. PICK j \in Wanted(f) : q = EventAt(f, j)
      BY <3>1
    <3>3. j \in Delivered(f)
      BY <1>2 DEF Done
    <3>4. PICK i \in DOMAIN out : out[i].ok /\ out[i].file = f /\ out[i].line = j
      BY <3>3 DEF Delivered
    <3>5. QED
      BY <3>2, <3>4 DEF DeliveredWanted
  <2>5. [i \in 1 .. Len(out) |-> OutRow(i)] \in Surjection(1 .. Len(out), Events)
    BY <1>1, <2>3, <2>4 DEF Surjection
  <2>6. Cardinality(Events) <= Len(out)
    <3>1. PICK n \in Nat : n = Len(out)
      BY <1>1
    <3>2. IsFiniteSet(1 .. n) /\ Cardinality(1 .. n) = IF 1 > n THEN 0 ELSE n - 1 + 1
      BY FS_Interval
    <3>3. Cardinality(1 .. n) = n
      BY <3>2
    <3>4. QED
      BY <2>5, <3>1, <3>2, <3>3, FS_Surjection
  <2>7. Len(out) <= Cardinality(Events)
    <3>1. CASE Len(out) = 0
      BY <2>1, <3>1
    <3>2. CASE Len(out) \in DOMAIN out
      BY <1>4, <2>1, <3>2, OutIsRecorded
    <3>3. QED
      BY <1>1, <3>1, <3>2
  <2>8. Cardinality(Events) = Len(out)
    BY <1>1, <2>1, <2>6, <2>7
  <2>9. Recorded \in Seq(Events)
    <3>1. \A i \in 1 .. Len(out) : Recorded[i] = OutRow(i)
      <4>1. \A i \in 1 .. Len(out) : NoErrorIn(i)
        BY <1>1 DEF NoErrorIn
      <4>2. QED
        BY <1>1, <1>4, <4>1, OutIsRecorded
    <3>2. Recorded = [i \in 1 .. Len(out) |-> Recorded[i]]
      BY <2>8 DEF Recorded
    <3>3. QED
      BY <1>1, <2>3, <3>1, <3>2
  <2>10. QED
    BY <1>1, <2>1, <2>8, <2>9
<1>5. QED
  BY <1>3, <1>4

-----------------------------------------------------------------------------
(* What the command has taken so far.                                      *)
PacedRow(i) == [ts |-> paced[i].ts, file |-> paced[i].file, line |-> paced[i].line]
Taken == [i \in 1 .. taken |-> PacedRow(i)]

AllTaken == phase = "exhausted" /\ taken = Len(paced) /\ Len(paced) = Len(out)

(* A command takes no error, and the commands that print do not pace.      *)
TakenSound ==
  /\ cmd \in Command
  /\ taken \in Nat /\ taken <= Len(paced)
  /\ cmd.kind # "drain" => \A i \in 1 .. taken : paced[i].ok
  /\ cmd.kind \in {"count", "head", "tail"} => \A f \in File : offset[f] = 0
  /\ result = "ok" => AllTaken \/ (cmd.kind = "head" /\ taken = cmd.n)

(* What the command holds and prints is what it was to make of that.       *)
AnswerSound ==
  /\ cmd.kind = "count" => kept = Taken
  /\ cmd.kind = "head" => output = Taken /\ taken <= cmd.n
  /\ cmd.kind = "tail" => kept = IF cmd.n = 0 THEN Taken ELSE LastOf(Taken, cmd.n)
  /\ cmd.kind \in {"count", "tail"} /\ result = "ok" => output = kept

(* The file and the open batch of a dump are what was taken, and nobody    *)
(* can read the file before all of it is there.                            *)
ExportSound ==
  /\ kept \in Seq(RowType) /\ export.rows \in Seq(RowType)
  /\ export \in [fresh : BOOLEAN, footer : BOOLEAN, rows : Seq(RowType)]
  /\ ~export.fresh => export = EarlierExport
  /\ phase \in {"opening", "refused"} => sink = "none"
  /\ sink = "none" => /\ cmd.kind = "dump" => out = << >> /\ kept = << >> /\ result # "ok"
                      /\ export \in {EarlierExport, Blank}
                      /\ result = "running" \/ phase = "refused" => export = EarlierExport
  /\ cmd.kind # "dump" => sink = "none" /\ export = EarlierExport
  /\ sink = "open" /\ result = "running" => 
       export.fresh /\ ~export.footer /\ export.rows \o kept = Taken
  /\ sink = "consumed" => result # "running"
  /\ export.fresh /\ export.footer => result = "ok" /\ export.rows = Taken
  /\ cmd.kind = "dump" /\ result = "ok" => export.fresh /\ export.footer

SinkType == sink \in {"none", "open", "consumed"}

CmdInv == PacerInv /\ FrontInv /\ TakenSound /\ AnswerSound /\ SinkType /\ ExportSound

(* What was taken, as a sequence.                                          *)
LEMMA TakenType ==
  ASSUME PacedType, taken \in Nat, taken <= Len(paced)
  PROVE  /\ Taken \in Seq(RowType) /\ Len(Taken) = taken
         /\ \A i \in 1 .. taken : Taken[i] = PacedRow(i)
<1>1. \A i \in 1 .. taken : PacedRow(i) \in RowType
  <2>1. SUFFICES ASSUME NEW i \in 1 .. taken PROVE PacedRow(i) \in RowType
    OBVIOUS
  <2>2. i \in DOMAIN paced
    BY DEF PacedType
  <2>3. QED
    BY <2>2, PacedAt DEF PacedRow, RowType
<1>2. QED
  BY <1>1 DEF Taken

(* Taking an item puts its row behind the others.                          *)
LEMMA TakeAppends ==
  ASSUME CmdInv, Given, taken' = taken + 1, paced' = paced
  PROVE  /\ Row \in RowType
         /\ Taken' = Append(Taken, Row)
         /\ taken' \in Nat /\ taken' <= Len(paced)
<1> USE DEF CmdInv, PacerInv, TakenSound
<1>1. taken \in Nat /\ Len(paced) \in Nat /\ taken + 1 <= Len(paced)
  BY DEF Given, PacedType
<1>2. taken + 1 \in DOMAIN paced
  BY <1>1 DEF PacedType
<1>3. Row = PacedRow(taken + 1)
  BY DEF Row, Offer, PacedRow
<1>4. Row \in RowType
  BY <1>2, <1>3, PacedAt DEF PacedRow, RowType
<1>5. Taken \in Seq(RowType) /\ Len(Taken) = taken /\ \A i \in 1 .. taken : Taken[i] = PacedRow(i)
  BY TakenType
<1>6. Taken' = [i \in 1 .. taken + 1 |-> PacedRow(i)]
  BY DEF Taken, PacedRow
<1>7. /\ Append(Taken, Row) \in Seq(RowType) /\ Len(Append(Taken, Row)) = taken + 1
      /\ \A i \in 1 .. taken : Append(Taken, Row)[i] = Taken[i]
      /\ Append(Taken, Row)[taken + 1] = Row
  BY <1>4, <1>5, AppendProperties
<1>8. \A i \in 1 .. taken + 1 : Append(Taken, Row)[i] = PacedRow(i)
  BY <1>1, <1>3, <1>5, <1>7
<1>9. PICK t \in Seq(RowType) : t = Append(Taken, Row) /\ Len(t) = taken + 1
  BY <1>7
<1>10. t = [i \in 1 .. Len(t) |-> t[i]]
  OBVIOUS
<1>11. QED
  BY <1>1, <1>4, <1>6, <1>8, <1>9, <1>10

(* A ring that drops its front when it is full holds the last n.           *)
LEMMA RingIsLast ==
  ASSUME NEW S, NEW s \in Seq(S), NEW r \in S, NEW n \in Nat, n > 0
  PROVE  LET ring == LastOf(s, n)
         IN  LastOf(Append(s, r), n) =
               Append(IF Len(ring) = n THEN SubSeq(ring, 2, Len(ring)) ELSE ring, r)
<1> DEFINE ring == LastOf(s, n)
           t == Append(s, r)
           rest == IF Len(ring) = n THEN SubSeq(ring, 2, Len(ring)) ELSE ring
<1>1. /\ Len(s) \in Nat /\ t \in Seq(S) /\ Len(t) = Len(s) + 1
      /\ \A i \in 1 .. Len(s) : t[i] = s[i]
      /\ t[Len(s) + 1] = r
  OBVIOUS
<1>2. CASE n > Len(s)
  <2>1. ring = s /\ rest = s
    BY <1>1, <1>2 DEF LastOf
  <2>2. n >= Len(t) /\ LastOf(t, n) = t
    BY <1>1, <1>2 DEF LastOf
  <2>3. QED
    BY <2>1, <2>2
<1>3. CASE n <= Len(s)
  <2>1. /\ ring \in Seq(S) /\ Len(ring) = n
        /\ \A i \in 1 .. n : ring[i] = s[Len(s) - n + i]
    <3>1. CASE n = Len(s)
      BY <1>1, <3>1 DEF LastOf
    <3>2. CASE n < Len(s)
      BY <1>1, <3>2 DEF LastOf
    <3>3. QED
      BY <1>1, <1>3, <3>1, <3>2
  <2>2. /\ rest \in Seq(S) /\ Len(rest) = n - 1
        /\ \A i \in 1 .. n - 1 : rest[i] = ring[i + 1]
    BY <2>1
  <2>3. /\ LastOf(t, n) \in Seq(S) /\ Len(LastOf(t, n)) = n
        /\ \A i \in 1 .. n : LastOf(t, n)[i] = t[Len(s) + 1 - n + i]
    <3>1. LastOf(t, n) = SubSeq(t, Len(t) - n + 1, Len(t))
      BY <1>1, <1>3 DEF LastOf
    <3>2. PICK a \in 1 .. Len(t) : a = Len(t) - n + 1 /\ a = Len(s) + 1 - n + 1
      BY <1>1, <1>3
    <3>3. /\ SubSeq(t, a, Len(t)) \in Seq(S) /\ Len(SubSeq(t, a, Len(t))) = Len(t) - a + 1
          /\ \A i \in 1 .. Len(t) - a + 1 : SubSeq(t, a, Len(t))[i] = t[a + i - 1]
      BY <1>1, <3>2, SubSeqProperties
    <3>4. Len(t) - a + 1 = n /\ \A i \in 1 .. n : a + i - 1 = Len(s) + 1 - n + i
      BY <1>1, <3>2
    <3>5. QED
      BY <3>1, <3>2, <3>3, <3>4
  <2>4. /\ Append(rest, r) \in Seq(S) /\ Len(Append(rest, r)) = n
        /\ \A i \in 1 .. n : Append(rest, r)[i] = IF i = n THEN r ELSE rest[i]
    BY <2>2
  <2>5. ASSUME NEW i \in 1 .. n PROVE LastOf(t, n)[i] = Append(rest, r)[i]
    <3>1. CASE i = n
      BY <1>1, <2>3, <2>4, <3>1
    <3>2. CASE i < n
      <4>1. i \in 1 .. n - 1 /\ i + 1 \in 1 .. n /\ Len(s) - n + (i + 1) = Len(s) + 1 - n + i
            /\ Len(s) + 1 - n + i \in 1 .. Len(s)
        BY <1>1, <1>3, <3>2
      <4>2. Append(rest, r)[i] = s[Len(s) - n + (i + 1)]
        BY <2>1, <2>2, <2>4, <4>1, <3>2
      <4>3. LastOf(t, n)[i] = s[Len(s) + 1 - n + i]
        BY <1>1, <2>3, <4>1
      <4>4. QED
        BY <4>1, <4>2, <4>3
    <3>3. i = n \/ i < n
      OBVIOUS
    <3>4. QED
      BY <3>1, <3>2, <3>3
  <2>6. QED
    BY <2>3, <2>4, <2>5, SeqEqual
<1>4. QED
  BY <1>1, <1>2, <1>3

(* Rows that wait behind those in the file.                                *)
LEMMA AppendBehind ==
  ASSUME NEW S, NEW a \in Seq(S), NEW b \in Seq(S), NEW r \in S
  PROVE  /\ a \o Append(b, r) = Append(a \o b, r)
         /\ Append(b, r) \in Seq(S) /\ a \o Append(b, r) \in Seq(S)
         /\ a \o Append(b, r) \o << >> = a \o Append(b, r)
  OBVIOUS

-----------------------------------------------------------------------------
(* A step of the stream leaves the command what it has.                    *)
LEMMA StreamKeepsCmd ==
  ASSUME CmdInv, PacerInv', FrontInv', Open \/ Ask \/ Emit \/ Wait
  PROVE  CmdInv'
<1>1. /\ result = "running" /\ result' = result /\ cmd' = cmd /\ taken' = taken
      /\ kept' = kept /\ output' = output /\ sink' = sink /\ export' = export
  BY DEF Open, Ask, Emit, Wait, cmdVars
<1>2. PacerInv /\ MergeInv /\ PacedType /\ TakenSound /\ AnswerSound /\ ExportSound
  BY DEF CmdInv, PacerInv
<1>3. /\ Len(paced) \in Nat /\ Len(paced') \in Nat /\ Len(paced) <= Len(paced')
      /\ \A i \in 1 .. Len(paced) : paced'[i] = paced[i]
      /\ offset' = offset
  <2>1. CASE Open \/ Ask
    <3>1. paced' = paced /\ offset' = offset
      BY <2>1 DEF Open, Ask, pacerVars
    <3>2. QED
      BY <1>2, <3>1 DEF PacedType
  <2>2. CASE Wait
    <3>1. paced' = paced /\ offset' = offset
      BY <2>2 DEF Wait, TimePasses
    <3>2. QED
      BY <1>2, <3>1 DEF PacedType
  <2>3. CASE Emit
    <3>1. \E x : paced' = Append(paced, x)
      BY <2>3 DEF Emit, Pace, PassError, PassEvent, SetAnchor, HoldBack
    <3>2. offset' = offset
      BY <2>3 DEF Emit, Pace, PassError, PassEvent, SetAnchor, HoldBack
    <3>3. QED
      BY <1>2, <3>1, <3>2, AppendProperties DEF PacedType
  <2>4. QED
    BY <2>1, <2>2, <2>3
<1>4. taken \in Nat /\ taken <= Len(paced)
  BY <1>2 DEF TakenSound
<1>5. \A i \in 1 .. taken : paced'[i] = paced[i] /\ PacedRow(i)' = PacedRow(i)
  BY <1>3, <1>4 DEF PacedRow
<1>6. Taken' = Taken
  BY <1>1, <1>5 DEF Taken
<1>7. TakenSound'
  BY <1>1, <1>2, <1>3, <1>4, <1>5 DEF TakenSound
<1>8. AnswerSound'
  BY <1>1, <1>2, <1>6 DEF AnswerSound
<1>9. /\ phase' \in {"opening", "refused"} => phase = "opening" \/ phase' = phase
      /\ phase # "refused" \/ phase' = "refused"
      /\ cmd.kind = "dump" /\ sink = "none" => out' = out
  <2>1. CASE Open
    BY <2>1 DEF Open, Prime, PrimeFails, OpenFails, Primed
  <2>2. CASE Ask
    BY <2>2 DEF Ask, Hungry, Pull, PullFails, Exhaust
  <2>3. CASE Emit \/ Wait
    BY <2>3 DEF Emit, Wait, vars
  <2>4. QED
    BY <2>1, <2>2, <2>3
<1>10. ExportSound'
  BY <1>1, <1>2, <1>6, <1>9 DEF ExportSound
<1>11. QED
  BY <1>1, <1>7, <1>8, <1>10 DEF CmdInv, SinkType

(* Taking one more item, of a command that may take it.                    *)
LEMMA TakeKeepsSound ==
  ASSUME CmdInv, Given, cmd.kind # "drain" => Offer.ok,
         taken' = taken + 1, cmd' = cmd, result = "running", result' = "running",
         UNCHANGED << vars, pacerVars >>
  PROVE  /\ PacerInv' /\ FrontInv' /\ TakenSound'
         /\ Taken \in Seq(RowType) /\ Len(Taken) = taken /\ taken \in Nat
         /\ Row \in RowType /\ Taken' = Append(Taken, Row)
         /\ file' = file /\ out' = out /\ phase' = phase
<1>1. PacerInv /\ FrontInv /\ TakenSound /\ PacedType
  BY DEF CmdInv, PacerInv
<1>2. PacerInv' /\ FrontInv'
  <2>1. UNCHANGED vars /\ UNCHANGED pacerVars
    OBVIOUS
  <2>2. [Next]_vars
    BY <2>1
  <2>3. QED
    BY <1>1, <2>1, <2>2, MergeKeepsPaced, FrontStep
<1>3. paced' = paced /\ offset' = offset /\ speed' = speed
  BY DEF pacerVars
<1>4. /\ Row \in RowType /\ Taken' = Append(Taken, Row)
      /\ taken' \in Nat /\ taken' <= Len(paced)
  BY <1>3, TakeAppends
<1>5. Taken \in Seq(RowType) /\ Len(Taken) = taken
  BY <1>1, TakenType DEF TakenSound
<1>6. taken \in Nat
  BY <1>1 DEF TakenSound
<1>7. cmd.kind # "drain" => \A i \in 1 .. taken + 1 : paced[i].ok
  BY <1>1, <1>6 DEF TakenSound, Offer
<1>8. TakenSound'
  BY <1>1, <1>3, <1>4, <1>7 DEF TakenSound
<1>9. QED
  BY <1>2, <1>4, <1>5, <1>6, <1>8 DEF vars

(* count and drain take an item.                                           *)
LEMMA CountKeepsCmd ==
  ASSUME CmdInv, CountTakes \/ DrainTakes
  PROVE  CmdInv'
<1>1. /\ PacerInv' /\ FrontInv' /\ TakenSound'
      /\ Taken' = Append(Taken, Row) /\ Row \in RowType /\ out' = out /\ phase' = phase
  BY TakeKeepsSound DEF CountTakes, DrainTakes, Running
<1>2. AnswerSound /\ ExportSound
  BY DEF CmdInv
<1>3. AnswerSound'
  BY <1>1, <1>2 DEF AnswerSound, CountTakes, DrainTakes, Running
<1>4. kept' \in Seq(RowType)
  <2>1. kept \in Seq(RowType) /\ Append(kept, Row) \in Seq(RowType)
    BY <1>1, <1>2, AppendProperties DEF ExportSound
  <2>2. QED
    BY <2>1 DEF CountTakes, DrainTakes
<1>5. ExportSound'
  BY <1>1, <1>2, <1>4 DEF ExportSound, CountTakes, DrainTakes, Running, EarlierExport, Blank
<1>6. QED
  BY <1>1, <1>3, <1>5 DEF CmdInv, SinkType, CountTakes, DrainTakes

(* head prints what it takes.                                              *)
LEMMA HeadKeepsCmd ==
  ASSUME CmdInv, HeadTakes
  PROVE  CmdInv'
<1>1. /\ PacerInv' /\ FrontInv' /\ TakenSound'
      /\ Taken' = Append(Taken, Row) /\ Len(Taken) = taken /\ taken \in Nat
      /\ out' = out /\ phase' = phase
  BY TakeKeepsSound DEF HeadTakes, Running
<1>2. AnswerSound /\ ExportSound /\ cmd.n \in Nat
  BY ReplayAssumption DEF CmdInv, TakenSound, Command
<1>3. AnswerSound'
  BY <1>1, <1>2 DEF AnswerSound, HeadTakes, Running
<1>4. ExportSound'
  BY <1>1, <1>2 DEF ExportSound, HeadTakes, Running, EarlierExport, Blank
<1>5. QED
  BY <1>1, <1>3, <1>4 DEF CmdInv, SinkType, HeadTakes

(* tail holds the last of what it took.                                    *)
LEMMA TailKeepsCmd ==
  ASSUME CmdInv, TailTakes
  PROVE  CmdInv'
<1>1. /\ PacerInv' /\ FrontInv' /\ TakenSound'
      /\ Taken' = Append(Taken, Row) /\ Row \in RowType /\ out' = out /\ phase' = phase
      /\ Taken \in Seq(RowType) /\ Len(Taken) = taken /\ taken \in Nat
  BY TakeKeepsSound DEF TailTakes, Running
<1>2. /\ AnswerSound /\ ExportSound /\ cmd.n \in Nat
      /\ kept = IF cmd.n = 0 THEN Taken ELSE LastOf(Taken, cmd.n)
      /\ kept' = Append(Ring, Row) /\ cmd' = cmd
  BY ReplayAssumption DEF CmdInv, AnswerSound, TakenSound, Command, TailTakes, Running
<1>3. kept' = IF cmd.n = 0 THEN Taken' ELSE LastOf(Taken', cmd.n)
  <2>1. CASE cmd.n = 0
    <3>1. Ring = Taken
      <4>1. CASE Len(Taken) = 0
        <5>1. Taken = << >>
          BY <1>1, <4>1
        <5>2. QED
          BY <1>2, <2>1, <5>1 DEF Ring
      <4>2. CASE Len(Taken) # 0
        BY <1>2, <2>1, <4>2 DEF Ring
      <4>3. QED
        BY <4>1, <4>2
    <3>2. QED
      BY <1>1, <1>2, <2>1, <3>1
  <2>2. CASE cmd.n > 0
    <3>1. kept = LastOf(Taken, cmd.n)
      BY <1>2, <2>2
    <3>2. Ring = IF Len(LastOf(Taken, cmd.n)) = cmd.n
                 THEN SubSeq(LastOf(Taken, cmd.n), 2, Len(LastOf(Taken, cmd.n)))
                 ELSE LastOf(Taken, cmd.n)
      BY <3>1 DEF Ring
    <3>3. LastOf(Append(Taken, Row), cmd.n) = Append(Ring, Row)
      BY <1>1, <1>2, <2>2, <3>2, RingIsLast
    <3>4. QED
      BY <1>1, <1>2, <2>2, <3>3
  <2>3. QED
    BY <1>2, <2>1, <2>2
<1>4. AnswerSound'
  BY <1>1, <1>2, <1>3 DEF AnswerSound, TailTakes, Running
<1>5. kept' \in Seq(RowType)
  <2>1. Ring \in Seq(RowType)
    BY <1>2, SubSeqProperties DEF ExportSound, Ring
  <2>2. QED
    BY <1>1, <1>2, <2>1
<1>6. ExportSound'
  BY <1>1, <1>2, <1>5 DEF ExportSound, TailTakes, Running, EarlierExport, Blank
<1>7. QED
  BY <1>1, <1>4, <1>6 DEF CmdInv, SinkType, TailTakes

(* A row of a dump goes to the open batch, or with it to the file.         *)
LEMMA DumpKeepsCmd ==
  ASSUME CmdInv, AppendRow \/ FlushBatch
  PROVE  CmdInv'
<1>1. /\ PacerInv' /\ FrontInv' /\ TakenSound'
      /\ Taken' = Append(Taken, Row) /\ Row \in RowType /\ out' = out /\ phase' = phase
      /\ Taken \in Seq(RowType) /\ Len(Taken) = taken /\ taken \in Nat
  BY TakeKeepsSound DEF AppendRow, FlushBatch, Appends, Running
<1>2. AnswerSound /\ ExportSound /\ cmd' = cmd /\ cmd.kind = "dump" /\ sink' = sink
      /\ result = "running" /\ result' = "running"
  BY DEF CmdInv, AppendRow, FlushBatch, Appends, Running
<1>3. AnswerSound'
  BY <1>2 DEF AnswerSound
<1>4. sink = "open"
  <2>1. Len(paced) <= Len(out) /\ taken < Len(paced) /\ Len(paced) \in Nat /\ taken \in Nat
    <3>1. Given
      BY DEF AppendRow, FlushBatch, Appends
    <3>2. PassedOn /\ PacedType
      BY DEF CmdInv, PacerInv
    <3>3. QED
      BY <1>1, <3>1, <3>2 DEF PassedOn, PacedType, Given
  <2>2. out # << >>
    BY <2>1
  <2>3. sink # "none" /\ sink # "consumed"
    BY <1>2, <2>2 DEF ExportSound
  <2>4. QED
    BY <2>3 DEF CmdInv, SinkType
<1>5. /\ kept \in Seq(RowType) /\ export.rows \in Seq(RowType)
      /\ export \in [fresh : BOOLEAN, footer : BOOLEAN, rows : Seq(RowType)]
      /\ export.fresh /\ ~export.footer /\ export.rows \o kept = Taken
  BY <1>2, <1>4 DEF ExportSound
<1>6. /\ Append(kept, Row) \in Seq(RowType)
      /\ export.rows \o Append(kept, Row) = Taken'
      /\ export.rows \o Append(kept, Row) \in Seq(RowType)
      /\ export.rows \o Append(kept, Row) \o << >> = Taken'
  BY <1>1, <1>5, AppendBehind
<1>7. ExportSound'
  <2>1. CASE AppendRow
    BY <1>1, <1>2, <1>4, <1>5, <1>6, <2>1 DEF ExportSound, AppendRow
  <2>2. CASE FlushBatch
    <3>1. /\ kept' = << >> /\ export' = [export EXCEPT !.rows = @ \o Append(kept, Row)]
          /\ kept' \in Seq(RowType)
      BY <2>2 DEF FlushBatch
    <3>2. /\ export'.rows = Taken' /\ export'.fresh /\ ~export'.footer
          /\ export' \in [fresh : BOOLEAN, footer : BOOLEAN, rows : Seq(RowType)]
          /\ export'.rows \in Seq(RowType) /\ export'.rows \o kept' = Taken'
      BY <1>5, <1>6, <3>1
    <3>3. QED
      BY <1>1, <1>2, <1>4, <3>1, <3>2 DEF ExportSound
  <2>3. QED
    BY <2>1, <2>2
<1>8. SinkType'
  BY <1>2 DEF CmdInv, SinkType
<1>9. QED
  BY <1>1, <1>3, <1>7, <1>8 DEF CmdInv

(* What a step of the command alone leaves as it is.                       *)
LEMMA StreamStands ==
  ASSUME CmdInv, UNCHANGED << vars, pacerVars >>, taken' = taken, cmd' = cmd
  PROVE  /\ PacerInv' /\ FrontInv' /\ Taken' = Taken
         /\ AllTaken' = AllTaken /\ phase' = phase /\ out' = out
         /\ result' # "ok" => TakenSound'
         /\ result' = "ok" /\ (AllTaken \/ (cmd.kind = "head" /\ taken = cmd.n)) => TakenSound'
<1>1. PacerInv /\ FrontInv /\ TakenSound
  BY DEF CmdInv
<1>2. PacerInv' /\ FrontInv'
  <2>1. UNCHANGED vars /\ UNCHANGED pacerVars
    OBVIOUS
  <2>2. [Next]_vars
    BY <2>1
  <2>3. QED
    BY <1>1, <2>1, <2>2, MergeKeepsPaced, FrontStep
<1>3. paced' = paced /\ offset' = offset /\ out' = out /\ phase' = phase
  BY DEF pacerVars, vars
<1>4. Taken' = Taken /\ AllTaken' = AllTaken
  BY <1>3 DEF Taken, PacedRow, AllTaken
<1>5. QED
  BY <1>1, <1>2, <1>3, <1>4 DEF TakenSound

(* An error ends a command; it leaves no file that can be read but an      *)
(* earlier one.                                                            *)
LEMMA ErrorKeepsCmd ==
  ASSUME CmdInv, \/ Refuse \/ StopAtError \/ HeadFails
                 \/ CreateSinkFails \/ FlushBatchFails \/ CloseSinkFails
  PROVE  CmdInv'
<1>1. /\ result = "running" /\ result' = "error" /\ taken' = taken /\ cmd' = cmd
      /\ kept' = kept /\ output' = output /\ UNCHANGED << vars, pacerVars >>
  BY DEF Refuse, StopAtError, HeadFails, ReturnError, CreateSinkFails, FlushBatchFails,
         CloseSinkFails, Running, Appends
<1>2. /\ PacerInv' /\ FrontInv' /\ TakenSound' /\ Taken' = Taken
      /\ phase' = phase /\ out' = out
  BY <1>1, StreamStands
<1>3. AnswerSound /\ ExportSound /\ SinkType
  BY DEF CmdInv
<1>4. AnswerSound'
  BY <1>1, <1>2, <1>3 DEF AnswerSound
<1>5. CASE Refuse \/ StopAtError \/ HeadFails
  <2>1. sink' = sink /\ export' = export
    BY <1>5 DEF Refuse, StopAtError, HeadFails, ReturnError
  <2>3. ExportSound'
    BY <1>1, <1>2, <1>3, <2>1 DEF ExportSound
  <2>4. QED
    BY <1>1, <1>2, <1>3, <1>4, <2>1, <2>3 DEF CmdInv, SinkType
<1>6. CASE CreateSinkFails
  <2>1. /\ sink = "none" /\ sink' = sink /\ export' \in {export, Blank}
        /\ cmd.kind = "dump" /\ phase = "merging"
    BY <1>6 DEF CreateSinkFails, Running
  <2>2. Blank \in [fresh : BOOLEAN, footer : BOOLEAN, rows : Seq(RowType)]
        /\ Blank.rows \in Seq(RowType) /\ Blank.fresh /\ ~Blank.footer
    BY DEF Blank
  <2>3. ExportSound'
    BY <1>1, <1>2, <1>3, <2>1, <2>2 DEF ExportSound
  <2>4. QED
    BY <1>1, <1>2, <1>3, <1>4, <2>1, <2>3 DEF CmdInv, SinkType
<1>7. CASE FlushBatchFails \/ CloseSinkFails
  <2>1. sink' = "consumed" /\ export' = export /\ cmd.kind = "dump"
    BY <1>7 DEF FlushBatchFails, CloseSinkFails, Appends, Running
  <2>2. phase \notin {"opening", "refused"}
    <3>1. CASE CloseSinkFails
      BY <3>1 DEF CloseSinkFails, Over
    <3>2. CASE FlushBatchFails
      <4>1. Given /\ PassedOn /\ PacedType /\ taken \in Nat
        BY <3>2 DEF FlushBatchFails, Appends, CmdInv, PacerInv, TakenSound
      <4>2. out # << >>
        BY <4>1 DEF Given, PassedOn, PacedType
      <4>3. sink # "none"
        BY <1>1, <1>3, <2>1, <4>2 DEF ExportSound
      <4>4. QED
        BY <1>3, <4>3 DEF ExportSound
    <3>3. QED
      BY <1>7, <3>1, <3>2
  <2>3. ExportSound'
    BY <1>1, <1>2, <1>3, <2>1, <2>2 DEF ExportSound
  <2>4. QED
    BY <1>1, <1>2, <1>3, <1>4, <2>1, <2>3 DEF CmdInv, SinkType
<1>8. QED
  BY <1>5, <1>6, <1>7

(* A command that ends well has taken all there is, but for a head.        *)
LEMMA EndKeepsCmd ==
  ASSUME CmdInv, Finish \/ HeadFull \/ CloseSink
  PROVE  CmdInv'
<1>1. /\ result = "running" /\ result' = "ok" /\ taken' = taken /\ cmd' = cmd
      /\ UNCHANGED << vars, pacerVars >>
  BY DEF Finish, HeadFull, CloseSink, Running
<1>2. AnswerSound /\ ExportSound /\ SinkType /\ TakenSound /\ PassedOn /\ PacedType
  BY DEF CmdInv, PacerInv
<1>3. Over => AllTaken
  BY <1>2 DEF Over, AllTaken, Given, Starved, TakenSound, PacedType
<1>4. Taken \in Seq(RowType) /\ Len(Taken) = taken
  BY <1>2, TakenType DEF TakenSound
<1>5. HeadFull => cmd.kind = "head" /\ taken = cmd.n
  BY <1>2, <1>4, ReplayAssumption DEF HeadFull, Running, AnswerSound, TakenSound, Command
<1>6. AllTaken \/ (cmd.kind = "head" /\ taken = cmd.n)
  BY <1>3, <1>5 DEF Finish, CloseSink
<1>7. /\ PacerInv' /\ FrontInv' /\ TakenSound' /\ Taken' = Taken
      /\ phase' = phase /\ out' = out
  BY <1>1, <1>6, StreamStands
<1>8. CASE Finish
  <2>1. /\ kept' = kept /\ sink' = sink /\ export' = export /\ cmd.kind # "dump"
        /\ output' = IF cmd.kind \in {"count", "tail"} THEN kept ELSE output
    BY <1>8 DEF Finish
  <2>2. AnswerSound'
    BY <1>1, <1>2, <1>7, <2>1 DEF AnswerSound
  <2>3. ExportSound'
    BY <1>1, <1>2, <1>7, <2>1 DEF ExportSound, EarlierExport, Blank
  <2>4. QED
    BY <1>2, <1>7, <2>1, <2>2, <2>3 DEF CmdInv, SinkType
<1>9. CASE HeadFull
  <2>1. /\ kept' = kept /\ sink' = sink /\ export' = export /\ cmd.kind = "head"
        /\ output' = output
    BY <1>9 DEF HeadFull, Running
  <2>2. AnswerSound'
    BY <1>1, <1>2, <1>7, <2>1 DEF AnswerSound
  <2>3. ExportSound'
    BY <1>1, <1>2, <1>7, <2>1 DEF ExportSound, EarlierExport, Blank
  <2>4. QED
    BY <1>2, <1>7, <2>1, <2>2, <2>3 DEF CmdInv, SinkType
<1>10. CASE CloseSink
  <2>1. /\ kept' = kept /\ sink = "open" /\ sink' = "consumed" /\ cmd.kind = "dump"
        /\ output' = output
        /\ export' = [export EXCEPT !.rows = @ \o kept, !.footer = TRUE]
        /\ phase = "exhausted"
    BY <1>10 DEF CloseSink, Running, Over
  <2>2. AnswerSound'
    BY <1>1, <2>1 DEF AnswerSound
  <2>3. /\ kept \in Seq(RowType) /\ export.rows \in Seq(RowType)
        /\ export \in [fresh : BOOLEAN, footer : BOOLEAN, rows : Seq(RowType)]
        /\ export.fresh /\ export.rows \o kept = Taken
    BY <1>1, <1>2, <2>1 DEF ExportSound
  <2>4. /\ export' \in [fresh : BOOLEAN, footer : BOOLEAN, rows : Seq(RowType)]
        /\ export'.rows = Taken /\ export'.rows \in Seq(RowType)
        /\ export'.fresh /\ export'.footer
    BY <1>4, <2>1, <2>3
  <2>5. ExportSound'
    BY <1>1, <1>7, <2>1, <2>3, <2>4 DEF ExportSound
  <2>6. QED
    BY <1>7, <2>1, <2>2, <2>5 DEF CmdInv, SinkType
<1>11. QED
  BY <1>8, <1>9, <1>10

(* Nothing was taken when a dump creates its file.                         *)
LEMMA CreateKeepsCmd ==
  ASSUME CmdInv, CreateSink
  PROVE  CmdInv'
<1>1. /\ result = "running" /\ result' = result /\ taken' = taken /\ cmd' = cmd
      /\ kept' = kept /\ output' = output /\ UNCHANGED << vars, pacerVars >>
      /\ cmd.kind = "dump" /\ phase = "merging" /\ sink = "none" /\ sink' = "open"
      /\ export' = Blank
  BY DEF CreateSink, Running
<1>2. /\ PacerInv' /\ FrontInv' /\ TakenSound' /\ Taken' = Taken
      /\ phase' = phase /\ out' = out
  BY <1>1, StreamStands
<1>3. AnswerSound /\ ExportSound /\ TakenSound /\ PassedOn /\ PacedType
  BY DEF CmdInv, PacerInv
<1>4. out = << >> /\ kept = << >>
  BY <1>1, <1>3 DEF ExportSound
<1>5. Taken = << >>
  <2>1. Len(out) = 0
    BY <1>4
  <2>2. taken = 0
    BY <1>3, <2>1 DEF PassedOn, PacedType, TakenSound
  <2>3. QED
    BY <2>2 DEF Taken
<1>6. AnswerSound'
  BY <1>1 DEF AnswerSound
<1>7. /\ Blank \in [fresh : BOOLEAN, footer : BOOLEAN, rows : Seq(RowType)]
      /\ Blank.rows = << >> /\ Blank.rows \in Seq(RowType) /\ Blank.fresh /\ ~Blank.footer
      /\ << >> \o << >> = << >> /\ << >> \in Seq(RowType)
  BY DEF Blank
<1>8. ExportSound'
  BY <1>1, <1>2, <1>4, <1>5, <1>7 DEF ExportSound
<1>9. QED
  BY <1>1, <1>2, <1>6, <1>8 DEF CmdInv, SinkType

(* A command starts with nothing taken and an earlier export, if any.      *)
LEMMA CmdStart ==
  ASSUME ReplayInit
  PROVE  CmdInv
<1>1. PacerInv /\ FrontInv
  BY PacerStart, FrontInit DEF ReplayInit
<1>2. paced = << >> /\ out = << >>
  BY DEF ReplayInit, PacerInit, Init
<1>3. taken = 0 /\ kept = << >> /\ output = << >> /\ sink = "none" /\ result = "running"
      /\ export = EarlierExport /\ cmd \in Command
  BY DEF ReplayInit
<1>4. Taken = << >>
  BY <1>3 DEF Taken
<1>5. TakenSound
  BY <1>2, <1>3 DEF TakenSound, ReplayInit
<1>6. AnswerSound
  <2>1. cmd.n \in Nat
    BY <1>3, ReplayAssumption DEF Command
  <2>2. LastOf(<< >>, cmd.n) = << >>
    BY <2>1 DEF LastOf
  <2>3. QED
    BY <1>3, <1>4, <2>1, <2>2 DEF AnswerSound
<1>7. EarlierExport \in [fresh : BOOLEAN, footer : BOOLEAN, rows : Seq(RowType)]
      /\ EarlierExport.rows \in Seq(RowType) /\ ~EarlierExport.fresh
  BY DEF EarlierExport
<1>8. ExportSound
  BY <1>2, <1>3, <1>7 DEF ExportSound
<1>9. QED
  BY <1>1, <1>3, <1>5, <1>6, <1>8 DEF CmdInv, SinkType

(* Every step of a command keeps what it has made of the stream.           *)
LEMMA CmdStep == CmdInv /\ [ReplayNext]_replayVars => CmdInv'
<1> SUFFICES ASSUME CmdInv, [ReplayNext]_replayVars PROVE CmdInv'
  OBVIOUS
<1>1. CASE Open \/ Ask \/ Emit \/ Wait
  <2>1. PacerInv'
    BY ReplayCases, MergeKeepsPaced, PaceKeepsInv, TimeKeepsInv DEF CmdInv
  <2>2. [Next]_vars
    BY ReplayCases
  <2>3. FrontInv'
    BY <2>2, FrontStep DEF CmdInv
  <2>4. QED
    BY <1>1, <2>1, <2>3, StreamKeepsCmd
<1>2. CASE CountTakes \/ DrainTakes \/ HeadTakes \/ TailTakes
  BY <1>2, CountKeepsCmd, HeadKeepsCmd, TailKeepsCmd
<1>3. CASE AppendRow \/ FlushBatch
  BY <1>3, DumpKeepsCmd
<1>4. CASE \/ Refuse \/ StopAtError \/ HeadFails
           \/ CreateSinkFails \/ FlushBatchFails \/ CloseSinkFails
  BY <1>4, ErrorKeepsCmd
<1>5. CASE Finish \/ HeadFull \/ CloseSink
  BY <1>5, EndKeepsCmd
<1>6. CASE CreateSink
  BY <1>6, CreateKeepsCmd
<1>7. CASE HasReturned \/ UNCHANGED replayVars
  <2>1. /\ taken' = taken /\ cmd' = cmd /\ kept' = kept /\ output' = output /\ sink' = sink
        /\ export' = export /\ result' = result /\ UNCHANGED << vars, pacerVars >>
    BY <1>7 DEF HasReturned, replayVars, cmdVars
  <2>2. AnswerSound /\ ExportSound /\ SinkType /\ TakenSound
    BY DEF CmdInv
  <2>3. PacerInv' /\ FrontInv' /\ TakenSound' /\ Taken' = Taken /\ phase' = phase /\ out' = out
    BY <2>1, <2>2, StreamStands DEF TakenSound
  <2>4. AnswerSound' /\ ExportSound' /\ SinkType'
    BY <2>1, <2>2, <2>3 DEF AnswerSound, ExportSound, SinkType
  <2>5. QED
    BY <2>3, <2>4 DEF CmdInv
<1>8. QED
  BY <1>1, <1>2, <1>3, <1>4, <1>5, <1>6, <1>7 DEF ReplayNext

-----------------------------------------------------------------------------
(* The taken items, before an error, against the reference.                *)
LEMMA TakenIsRecorded ==
  ASSUME CmdInv, ClockSteady, cmd.kind # "drain", NEW i \in 1 .. taken
  PROVE  /\ i \in DOMAIN Recorded /\ Recorded[i] = OutRow(i)
         /\ out[i].ts \in Nat /\ out[i].file \in File
         /\ PacedRow(i) = [OutRow(i) EXCEPT !.ts = Later(0, @ + offset[out[i].file])]
         /\ cmd.kind # "dump" => PacedRow(i) = OutRow(i)
<1>1. PassedOn /\ PacedType /\ TakenSound /\ FrontInv /\ MergeInv /\ TypeOK
  BY DEF CmdInv, PacerInv, MergeInv
<1>2. /\ i \in Nat /\ i \in DOMAIN paced /\ i \in DOMAIN out
      /\ \A k \in 1 .. i : k \in DOMAIN paced /\ paced[k].ok
  <2>1. Len(paced) \in Nat /\ DOMAIN paced = 1 .. Len(paced)
    BY <1>1 DEF PacedType
  <2>2. Len(out) \in Nat /\ DOMAIN out = 1 .. Len(out)
    BY <1>1 DEF TypeOK
  <2>3. taken \in Nat /\ taken <= Len(paced) /\ \A k \in 1 .. taken : paced[k].ok
    BY <1>1 DEF TakenSound
  <2>4. Len(paced) <= Len(out)
    BY <1>1 DEF PassedOn
  <2>5. i \in 1 .. Len(paced) /\ i \in 1 .. Len(out)
    BY <2>1, <2>2, <2>3, <2>4
  <2>6. \A k \in 1 .. i : k \in 1 .. Len(paced) /\ k \in 1 .. taken
    BY <2>1, <2>3
  <2>7. QED
    BY <2>1, <2>2, <2>3, <2>5, <2>6
<1>3. NoErrorIn(i) /\ out[i].ok
  BY <1>1, <1>2 DEF PassedOn, NoErrorIn
<1>4. i \in DOMAIN Recorded /\ Recorded[i] = OutRow(i)
  BY <1>1, <1>2, <1>3, OutIsRecorded
<1>5. out[i] \in Result
  BY <1>1, <1>2, ElementOfSeq DEF TypeOK
<1>6. out[i].ts \in Nat /\ out[i].file \in File
  BY <1>5, MergeAssumption DEF Result, Ts
<1>7. /\ paced[i].file = out[i].file /\ paced[i].line = out[i].line
      /\ paced[i].ts = Later(0, out[i].ts + offset[out[i].file])
  BY <1>1, <1>2 DEF PassedOn, Shifted
<1>8. PacedRow(i) = [OutRow(i) EXCEPT !.ts = Later(0, @ + offset[out[i].file])]
  BY <1>7 DEF PacedRow, OutRow
<1>9. ASSUME cmd.kind # "dump" PROVE PacedRow(i) = OutRow(i)
  <2>1. cmd.kind \in {"count", "head", "tail"}
    BY <1>1, <1>9 DEF TakenSound, Command
  <2>2. offset[out[i].file] = 0
    BY <1>1, <1>6, <2>1 DEF TakenSound
  <2>3. paced[i].ts = out[i].ts
    BY <1>6, <1>7, <2>2 DEF Later
  <2>4. QED
    BY <1>7, <2>3 DEF PacedRow, OutRow
<1>10. QED
  BY <1>4, <1>6, <1>8, <1>9

(* When all was taken, it was all there is.                                *)
LEMMA AllTakenIsAll ==
  ASSUME CmdInv, AllTaken, cmd.kind # "drain"
  PROVE  /\ \A f \in File : BrokenIn(f) = {}
         /\ ClockSteady => Len(Recorded) = taken
<1>1. PassedOn /\ PacedType /\ TakenSound /\ FrontInv
  BY DEF CmdInv, PacerInv
<1>2. NoErrorIn(Len(out))
  <2>1. Len(paced) \in Nat /\ DOMAIN paced = 1 .. Len(paced) /\ taken = Len(paced)
        /\ Len(paced) = Len(out)
    BY <1>1 DEF PacedType, AllTaken
  <2>2. \A k \in 1 .. taken : paced[k].ok
    BY <1>1 DEF TakenSound
  <2>3. \A k \in 1 .. Len(out) : k \in DOMAIN paced /\ paced[k].ok
    BY <2>1, <2>2
  <2>4. \A k \in DOMAIN paced : paced[k].ok = out[k].ok
    BY <1>1 DEF PassedOn
  <2>5. QED
    BY <2>3, <2>4 DEF NoErrorIn
<1>3. QED
  BY <1>1, <1>2, AllRecorded DEF AllTaken

(* The reference as a sequence.                                            *)
LEMMA RecordedType ==
  ASSUME TypeOK
  PROVE  /\ Recorded = [i \in 1 .. Len(Recorded) |-> Recorded[i]]
         /\ Len(Recorded) \in Nat /\ DOMAIN Recorded = 1 .. Len(Recorded)
         /\ \E S : Recorded \in Seq(S)
<1>1. Cardinality(Events) \in Nat
  BY EventsAre
<1>2. Recorded \in Seq({Recorded[i] : i \in 1 .. Cardinality(Events)})
  BY <1>1 DEF Recorded
<1>3. QED
  BY <1>2

(* What was made of the stream is the answer of the reference.             *)
LEMMA CommandsAnswer == CmdInv => AnswersExact
<1> SUFFICES ASSUME CmdInv PROVE AnswersExact
  OBVIOUS
<1>1. /\ PacedType /\ TakenSound /\ AnswerSound /\ TypeOK /\ cmd.n \in Nat
      /\ taken \in Nat /\ taken <= Len(paced)
  BY ReplayAssumption DEF CmdInv, PacerInv, MergeInv, TakenSound, Command
<1>2. Len(Recorded) \in Nat /\ DOMAIN Recorded = 1 .. Len(Recorded)
      /\ Recorded = [i \in 1 .. Len(Recorded) |-> Recorded[i]]
  BY <1>1, RecordedType
<1>3. Len(Taken) = taken /\ Taken \in Seq(RowType) /\ Taken = [i \in 1 .. taken |-> PacedRow(i)]
  BY <1>1, TakenType DEF Taken
<1>4. result = "ok" /\ cmd.kind \in {"count", "tail", "dump"} => \A f \in File : BrokenIn(f) = {}
  BY <1>1, AllTakenIsAll DEF TakenSound
<1>5. ASSUME ClockSteady, cmd.kind \in {"count", "head", "tail"}
      PROVE  /\ taken <= Len(Recorded)
             /\ Taken = FirstOf(Recorded, taken)
             /\ AllTaken => Taken = Recorded
  <2>1. \A i \in 1 .. taken : i \in DOMAIN Recorded /\ Recorded[i] = PacedRow(i)
    BY <1>5, TakenIsRecorded
  <2>2. taken <= Len(Recorded)
    BY <1>1, <1>2, <2>1
  <2>3. Taken = [i \in 1 .. taken |-> Recorded[i]]
    BY <1>3, <2>1
  <2>4. taken = Len(Recorded) => Taken = Recorded
    BY <1>2, <2>3
  <2>5. AllTaken => taken = Len(Recorded)
    BY <1>5, AllTakenIsAll
  <2>6. Taken = FirstOf(Recorded, taken)
    <3>1. CASE taken >= Len(Recorded)
      BY <1>1, <1>2, <2>2, <2>4, <3>1 DEF FirstOf
    <3>2. CASE ~(taken >= Len(Recorded))
      <4>1. PICK S : Recorded \in Seq(S)
        BY <1>1, RecordedType
      <4>2. \A i \in 1 .. taken : Recorded[i] \in S
        BY <1>2, <2>1, <4>1, ElementOfSeq
      <4>3. /\ SubSeq(Recorded, 1, taken) \in Seq(S)
            /\ Len(SubSeq(Recorded, 1, taken)) = taken
            /\ \A i \in 1 .. taken : SubSeq(Recorded, 1, taken)[i] = Recorded[i]
        BY <1>1, <4>2, SubSeqProperties
      <4>4. Taken \in Seq(S) /\ \A i \in 1 .. taken : Taken[i] = Recorded[i]
        BY <1>1, <2>3, <4>2
      <4>5. Taken = SubSeq(Recorded, 1, taken)
        BY <1>3, <4>3, <4>4, SeqEqual
      <4>6. QED
        BY <3>2, <4>5 DEF FirstOf
    <3>3. QED
      BY <3>1, <3>2
  <2>7. QED
    BY <2>2, <2>4, <2>5, <2>6
<1>6. ASSUME ClockSteady, cmd.kind = "head"
      PROVE  /\ output = FirstOf(Recorded, Len(output))
             /\ result = "ok" => output = FirstOf(Recorded, cmd.n)
  <2>1. output = Taken /\ taken <= cmd.n
    BY <1>1, <1>6 DEF AnswerSound
  <2>2. CASE taken = cmd.n
    BY <1>3, <1>5, <1>6, <2>1, <2>2
  <2>3. CASE AllTaken
    <3>1. output = Recorded /\ taken = Len(Recorded)
      BY <1>3, <1>5, <1>6, <2>1, <2>3
    <3>2. QED
      BY <1>1, <1>2, <1>3, <1>5, <1>6, <2>1, <3>1 DEF FirstOf
  <2>4. QED
    BY <1>1, <1>3, <1>5, <1>6, <2>1, <2>2, <2>3 DEF TakenSound
<1>7. ASSUME ClockSteady, result = "ok", cmd.kind \in {"count", "tail"}
      PROVE  output = IF cmd.kind = "count" \/ cmd.n = 0 THEN Recorded
                      ELSE LastOf(Recorded, cmd.n)
  BY <1>1, <1>5, <1>7 DEF TakenSound, AnswerSound
<1>8. QED
  BY <1>4, <1>6, <1>7 DEF AnswersExact

(* ... and the export that can be read is all of it.                       *)
LEMMA ExportsAreWhole == CmdInv => ExportAllOrNothing
<1> SUFFICES ASSUME CmdInv PROVE ExportAllOrNothing
  OBVIOUS
<1>1. PacedType /\ TakenSound /\ ExportSound /\ TypeOK /\ taken \in Nat
  BY DEF CmdInv, PacerInv, MergeInv, TakenSound
<1>2. ASSUME export.fresh, export.footer
      PROVE  /\ result = "ok"
             /\ ClockSteady => export.rows = [i \in DOMAIN Recorded |-> Replayed(Recorded[i])]
  <2>1. /\ result = "ok" /\ export.rows = Taken /\ cmd.kind = "dump"
    BY <1>1, <1>2 DEF ExportSound, EarlierExport
  <2>2. AllTaken
    BY <1>1, <2>1 DEF TakenSound
  <2>3. ASSUME ClockSteady PROVE Taken = [i \in DOMAIN Recorded |-> Replayed(Recorded[i])]
    <3>1. DOMAIN Recorded = 1 .. taken
      BY <1>1, <2>1, <2>2, <2>3, AllTakenIsAll, RecordedType
    <3>2. ASSUME NEW i \in 1 .. taken PROVE PacedRow(i) = Replayed(Recorded[i])
      <4>1. /\ Recorded[i] = OutRow(i)
            /\ PacedRow(i) = [OutRow(i) EXCEPT !.ts = Later(0, @ + offset[out[i].file])]
        BY <2>1, <2>3, TakenIsRecorded
      <4>2. OutRow(i).file = out[i].file
        BY DEF OutRow
      <4>3. QED
        BY <4>1, <4>2 DEF Replayed
    <3>3. QED
      BY <3>1, <3>2 DEF Taken
  <2>4. QED
    BY <2>1, <2>3
<1>3. phase = "refused" => export = EarlierExport
  BY <1>1 DEF ExportSound
<1>4. QED
  BY <1>1, <1>2, <1>3 DEF ExportAllOrNothing, ExportSound

(* Every command at every moment has made of the stream what it was to.    *)
THEOREM CommandInvariant == ReplaySpec => []CmdInv
<1>1. QED
  BY CmdStart, CmdStep, PTL DEF ReplaySpec

(* count, head and tail print what was recorded, whatever the filter, the  *)
(* damage and the number and length of the files: from_files, next(), the  *)
(* pacer at max-speed, run_count, run_head and run_tail together.          *)
THEOREM CommandsAreExact == ReplaySpec => []AnswersExact
<1>1. QED
  BY CommandsAnswer, CommandInvariant, PTL

(* A dump that can be read is whole, wherever the disk or a file fails     *)
(* (ParquetSink::create, append, flush_batch, close).                      *)
THEOREM ExportIsAllOrNothing == ReplaySpec => []ExportAllOrNothing
<1>1. QED
  BY ExportsAreWhole, CommandInvariant, PTL
=============================================================================
