--------------------------- MODULE RecorderProofs ---------------------------
(***************************************************************************)
(* The theorems about the store and the recorder around it.  The first     *)
(* part is about Storage, for any set of streams, any buffer capacity, any *)
(* number of buckets and write calls, with and without fsync, oversize     *)
(* lines, I/O errors and power failures: facts about runs of half lines    *)
(* (cutting one, adding a line to one, and what that does to WellFormed,   *)
(* Ordered, Whole, UpTo and Before), then the invariants.  The second is   *)
(* about what the files keep: bytes in a file never change, what was       *)
(* acknowledged with fsync is durable, the store implements the log of     *)
(* EventLog.  The third is about Recorder: the tasks keep every file in    *)
(* time-stamp order, and an orderly shutdown loses no event of a frame     *)
(* they had stamped.                                                       *)
(***************************************************************************)
EXTENDS Recorder, StorageLog, SequenceTheorems, FiniteSetTheorems, TLAPS

(* Runs of half lines, and the invariants of Storage.                      *)

(* Concatenation, element by element.                                      *)
LEMMA Concat ==
  ASSUME NEW g \in Seq(Half), NEW h \in Seq(Half)
  PROVE  /\ g \o h \in Seq(Half)
         /\ Len(g \o h) = Len(g) + Len(h)
         /\ \A i \in 1 .. Len(g) : (g \o h)[i] = g[i]
         /\ \A i \in Len(g) + 1 .. Len(g) + Len(h) : (g \o h)[i] = h[i - Len(g)]
         /\ Len(g) \in Nat /\ Len(h) \in Nat
  OBVIOUS

(* The first k elements of a run, then the rest, are the run.              *)
LEMMA SplitRun ==
  ASSUME NEW d \in Seq(Half), NEW u \in Seq(Half), NEW k \in 0 .. Len(u)
  PROVE  (d \o SubSeq(u, 1, k)) \o SubSeq(u, k + 1, Len(u)) = d \o u
<1> DEFINE p == SubSeq(u, 1, k)
           q == SubSeq(u, k + 1, Len(u))
<1>1. p \in Seq(Half) /\ Len(p) = k /\ \A i \in 1 .. k : p[i] = u[i]
  OBVIOUS
<1>2. q \in Seq(Half) /\ Len(q) = Len(u) - k /\ \A i \in 1 .. Len(q) : q[i] = u[i + k]
  OBVIOUS
<1> HIDE DEF p, q
<1>0. Len(d) \in Nat /\ Len(u) \in Nat /\ k \in Nat /\ k <= Len(u)
  OBVIOUS
<1>3. /\ d \o p \in Seq(Half) /\ Len(d \o p) = Len(d) + k
      /\ \A i \in 1 .. Len(d) : (d \o p)[i] = d[i]
      /\ \A i \in Len(d) + 1 .. Len(d) + k : (d \o p)[i] = p[i - Len(d)]
  BY <1>1, Concat
<1> DEFINE r == d \o p
<1> HIDE DEF r
<1>4. /\ r \o q \in Seq(Half) /\ Len(r \o q) = Len(r) + Len(q)
      /\ \A i \in 1 .. Len(r) : (r \o q)[i] = r[i]
      /\ \A i \in Len(r) + 1 .. Len(r) + Len(q) : (r \o q)[i] = q[i - Len(r)]
  BY <1>2, <1>3, Concat DEF r
<1>5. /\ d \o u \in Seq(Half) /\ Len(d \o u) = Len(d) + Len(u)
      /\ \A i \in 1 .. Len(d) : (d \o u)[i] = d[i]
      /\ \A i \in Len(d) + 1 .. Len(d) + Len(u) : (d \o u)[i] = u[i - Len(d)]
  BY Concat
<1>6. \A i \in 1 .. Len(d) + Len(u) : (r \o q)[i] = (d \o u)[i]
  <2> SUFFICES ASSUME NEW i \in 1 .. Len(d) + Len(u) PROVE (r \o q)[i] = (d \o u)[i]
    OBVIOUS
  <2>1. CASE i <= Len(d)
    BY <1>0, <1>3, <1>4, <1>5, <2>1 DEF r
  <2>2. CASE Len(d) < i /\ i <= Len(d) + k
    <3>1. (r \o q)[i] = p[i - Len(d)]
      BY <1>0, <1>3, <1>4, <2>2 DEF r
    <3>2. i - Len(d) \in 1 .. k
      BY <1>0, <2>2
    <3>3. QED
      BY <1>0, <1>1, <1>5, <3>1, <3>2
  <2>3. CASE Len(d) + k < i
    <3>1. (r \o q)[i] = q[i - (Len(d) + k)]
      BY <1>0, <1>2, <1>3, <1>4, <2>3 DEF r
    <3>2. i - (Len(d) + k) \in 1 .. Len(q)
      BY <1>0, <1>2, <2>3
    <3>3. q[i - (Len(d) + k)] = u[(i - (Len(d) + k)) + k]
      BY <1>2, <3>2
    <3>4. (i - (Len(d) + k)) + k = i - Len(d)
      BY <1>0
    <3>5. i \in Len(d) + 1 .. Len(d) + Len(u)
      BY <1>0, <2>3
    <3>6. QED
      BY <1>5, <3>1, <3>3, <3>4, <3>5
  <2>4. i <= Len(d) \/ (Len(d) < i /\ i <= Len(d) + k) \/ Len(d) + k < i
    BY <1>0
  <2>5. QED
    BY <2>1, <2>2, <2>3, <2>4
<1>7. QED
  <2>1. Len(r \o q) = Len(d \o u)
    BY <1>0, <1>2, <1>3, <1>4, <1>5 DEF r
  <2>2. r \o q = d \o u
    BY <1>4, <1>5, <1>6, <2>1, SeqEqual
  <2>3. QED
    BY <2>2 DEF p, q, r

(* Cutting the second run cuts the whole.                                  *)
LEMMA PrefixOfConcat ==
  ASSUME NEW d \in Seq(Half), NEW u \in Seq(Half), NEW k \in 0 .. Len(u)
  PROVE  d \o SubSeq(u, 1, k) = SubSeq(d \o u, 1, Len(d) + k)
<1> DEFINE p == SubSeq(u, 1, k)
           c == SubSeq(d \o u, 1, Len(d) + k)
<1>1. p \in Seq(Half) /\ Len(p) = k /\ \A i \in 1 .. k : p[i] = u[i]
  OBVIOUS
<1>2. d \o p \in Seq(Half) /\ Len(d \o p) = Len(d) + k
  BY <1>1
<1>3. d \o u \in Seq(Half) /\ Len(d \o u) = Len(d) + Len(u)
  OBVIOUS
<1>4. /\ c \in Seq(Half) /\ Len(c) = Len(d) + k
      /\ \A i \in 1 .. Len(d) + k : c[i] = (d \o u)[i]
  BY <1>3
<1>5. \A i \in 1 .. Len(d) + k : (d \o p)[i] = c[i]
  BY <1>1, <1>2, <1>4
<1>6. QED
  BY <1>2, <1>4, <1>5, SeqEqual

(* A prefix of a sound run is sound.                                       *)
LEMMA PrefixSound ==
  ASSUME NEW h \in Seq(Half), NEW T, NEW n \in 0 .. Len(h),
         WellFormed(h, T), Ordered(h)
  PROVE  LET g == SubSeq(h, 1, n)
         IN  /\ WellFormed(g, T) /\ Ordered(g)
             /\ \A e : UpTo(h, e) => UpTo(g, e)
<1> DEFINE g == SubSeq(h, 1, n)
<1>1. g \in Seq(Half) /\ Len(g) = n /\ \A i \in 1 .. n : g[i] = h[i]
  OBVIOUS
<1>2. WellFormed(g, T)
  BY <1>1 DEF WellFormed
<1>3. Ordered(g)
  BY <1>1 DEF Ordered
<1>4. \A e : UpTo(h, e) => UpTo(g, e)
  BY <1>1 DEF UpTo
<1>5. QED
  BY <1>2, <1>3, <1>4

(* Prefixes keep two runs apart.                                           *)
LEMMA BeforePrefix ==
  ASSUME NEW g \in Seq(Half), NEW h \in Seq(Half),
         NEW m \in 0 .. Len(g), NEW n \in 0 .. Len(h), Before(g, h)
  PROVE  Before(SubSeq(g, 1, m), SubSeq(h, 1, n))
  BY DEF Before

(* A whole line added behind older whole lines.                            *)
LEMMA AddLine ==
  ASSUME NEW h \in Seq(Half), NEW T, NEW e \in Event,
         WellFormed(h, T), Ordered(h), Whole(h, T), UpTo(h, e - 1)
  PROVE  LET g == h \o Line(e)
         IN  /\ WellFormed(g, T) /\ Ordered(g) /\ Whole(g, T) /\ UpTo(g, e)
             /\ \E i \in DOMAIN g : g[i] = <<e, 2>>
             /\ \A x : (\E i \in DOMAIN h : h[i] = x) => \E i \in DOMAIN g : g[i] = x
<1> DEFINE g == h \o Line(e)
           n == Len(h)
<1> HIDE DEF g
<1>0. e \in Nat /\ n \in Nat /\ \A i \in 1 .. n : h[i] \in Half /\ h[i][1] \in Nat /\ h[i][2] \in {1, 2}
  BY DEF Half, Event
<1>1. Line(e) \in Seq(Half) /\ Len(Line(e)) = 2 /\ Line(e)[1] = <<e, 1>> /\ Line(e)[2] = <<e, 2>>
  BY DEF Line, Half
<1>2. /\ g \in Seq(Half) /\ Len(g) = n + 2
      /\ \A i \in 1 .. n : g[i] = h[i]
      /\ g[n + 1] = <<e, 1>> /\ g[n + 2] = <<e, 2>>
  <2>1. /\ g \in Seq(Half) /\ Len(g) = n + 2
        /\ \A i \in 1 .. n : g[i] = h[i]
        /\ \A i \in n + 1 .. n + 2 : g[i] = Line(e)[i - n]
    <3>1. /\ h \o Line(e) \in Seq(Half)
          /\ Len(h \o Line(e)) = Len(h) + Len(Line(e))
          /\ \A i \in 1 .. Len(h) : (h \o Line(e))[i] = h[i]
          /\ \A i \in Len(h) + 1 .. Len(h) + Len(Line(e)) :
                (h \o Line(e))[i] = Line(e)[i - Len(h)]
      BY <1>1, Concat
    <3>2. QED
      BY <1>1, <3>1 DEF g
  <2>2. n + 1 \in n + 1 .. n + 2 /\ n + 2 \in n + 1 .. n + 2 /\ (n + 1) - n = 1 /\ (n + 2) - n = 2
    BY <1>0
  <2>3. g[n + 1] = Line(e)[1] /\ g[n + 2] = Line(e)[2]
    BY <2>1, <2>2
  <2>4. QED
    BY <1>1, <2>1, <2>3
<1>3. \A i \in 1 .. n + 2 : i \in 1 .. n \/ i = n + 1 \/ i = n + 2
  BY <1>0
<1>4. WellFormed(g, T)
  <2> SUFFICES ASSUME NEW i \in 1 .. n + 2
               PROVE  /\ g[i][2] = 2 => i > 1 /\ g[i - 1] = <<g[i][1], 1>>
                      /\ g[i][2] = 1 /\ i < n + 2 => g[i + 1] = <<g[i][1], 2>> \/ g[i][1] \in T
    BY <1>2 DEF WellFormed
  <2>1. CASE i = n + 1
    BY <1>0, <1>2, <2>1
  <2>2. CASE i = n + 2
    BY <1>0, <1>2, <2>2
  <2>3. CASE i = n /\ n > 0
    BY <1>0, <1>2, <2>3 DEF WellFormed, Whole
  <2>4. CASE i < n
    <3>1. i \in 1 .. n /\ i + 1 \in 1 .. n /\ (i > 1 => i - 1 \in 1 .. n)
      BY <1>0, <2>4
    <3>2. g[i] = h[i] /\ g[i + 1] = h[i + 1] /\ (i > 1 => g[i - 1] = h[i - 1])
      BY <1>2, <3>1
    <3>3. /\ h[i][2] = 2 => i > 1 /\ h[i - 1] = <<h[i][1], 1>>
          /\ h[i][2] = 1 /\ i < n => h[i + 1] = <<h[i][1], 2>> \/ h[i][1] \in T
      BY <3>1 DEF WellFormed
    <3>4. QED
      BY <2>4, <3>2, <3>3
  <2>5. i = n + 1 \/ i = n + 2 \/ (i = n /\ n > 0) \/ i < n
    BY <1>0
  <2>6. QED
    BY <2>1, <2>2, <2>3, <2>4, <2>5
<1>5. Ordered(g)
  <2> SUFFICES ASSUME NEW i \in 1 .. n + 2, NEW j \in 1 .. n + 2, i < j
               PROVE  g[i][1] <= g[j][1] /\ g[i] # g[j]
    BY <1>2 DEF Ordered
  <2>1. CASE j \in 1 .. n
    <3>1. i \in 1 .. n
      BY <1>0, <2>1
    <3>2. g[i] = h[i] /\ g[j] = h[j]
      BY <1>2, <2>1, <3>1
    <3>3. QED
      BY <2>1, <3>1, <3>2 DEF Ordered
  <2>2. CASE j \notin 1 .. n /\ i \in 1 .. n
    <3>1. g[i][1] <= e - 1 /\ g[i][1] \in Nat
      BY <1>0, <1>2, <2>2 DEF UpTo
    <3>2. g[j][1] = e
      BY <1>2, <1>3, <2>2
    <3>3. g[i][1] < g[j][1]
      BY <1>0, <3>1, <3>2
    <3>4. QED
      BY <1>0, <3>1, <3>2, <3>3
  <2>3. CASE i \notin 1 .. n
    BY <1>0, <1>2, <1>3, <2>3
  <2>4. QED
    BY <2>1, <2>2, <2>3
<1>6. Whole(g, T)
  BY <1>0, <1>2 DEF Whole
<1>7. UpTo(g, e)
  <2>1. SUFFICES ASSUME NEW i \in 1 .. n + 2 PROVE g[i][1] <= e
    BY <1>2 DEF UpTo
  <2>2. CASE i \in 1 .. n
    BY <1>0, <1>2, <2>2 DEF UpTo
  <2>3. CASE i \notin 1 .. n
    BY <1>0, <1>2, <1>3, <2>3
  <2>4. QED
    BY <2>2, <2>3
<1>8. \E i \in DOMAIN g : g[i] = <<e, 2>>
  <2>1. DOMAIN g = 1 .. n + 2 /\ n + 2 \in 1 .. n + 2
    BY <1>0, <1>2
  <2>2. QED
    BY <1>2, <2>1
<1>9. \A x : (\E i \in DOMAIN h : h[i] = x) => \E i \in DOMAIN g : g[i] = x
  BY <1>0, <1>2
<1>10. QED
  BY <1>4, <1>5, <1>6, <1>7, <1>8, <1>9 DEF g

(* An oversize write that was cut short: the first half joins the tears.   *)
LEMMA AddTear ==
  ASSUME NEW h \in Seq(Half), NEW T, NEW e \in Event,
         WellFormed(h, T), Ordered(h), Whole(h, T), UpTo(h, e - 1)
  PROVE  LET g == Append(h, <<e, 1>>)
             U == T \union {e}
         IN  /\ WellFormed(g, U) /\ Ordered(g) /\ Whole(g, U) /\ UpTo(g, e)
             /\ \A x : (\E i \in DOMAIN h : h[i] = x) => \E i \in DOMAIN g : g[i] = x
<1> DEFINE g == Append(h, <<e, 1>>)
           U == T \union {e}
           n == Len(h)
<1>0. e \in Nat /\ n \in Nat /\ \A i \in 1 .. n : h[i] \in Half /\ h[i][1] \in Nat /\ h[i][2] \in {1, 2}
  BY DEF Half, Event
<1>1. <<e, 1>> \in Half
  BY DEF Half
<1>2. /\ g \in Seq(Half) /\ Len(g) = n + 1
      /\ \A i \in 1 .. n : g[i] = h[i]
      /\ g[n + 1] = <<e, 1>>
  BY <1>0, <1>1
<1> HIDE DEF g
<1>3. \A i \in 1 .. n + 1 : i \in 1 .. n \/ i = n + 1
  BY <1>0
<1>4. WellFormed(g, U)
  <2> SUFFICES ASSUME NEW i \in 1 .. n + 1
               PROVE  /\ g[i][2] = 2 => i > 1 /\ g[i - 1] = <<g[i][1], 1>>
                      /\ g[i][2] = 1 /\ i < n + 1 => g[i + 1] = <<g[i][1], 2>> \/ g[i][1] \in U
    BY <1>2 DEF WellFormed
  <2>1. CASE i = n + 1
    BY <1>0, <1>2, <2>1
  <2>3. CASE i = n /\ n > 0
    <3>1. g[i] = h[n] /\ (i > 1 => g[i - 1] = h[n - 1])
      BY <1>0, <1>2, <2>3
    <3>2. /\ h[n][2] = 2 => n > 1 /\ h[n - 1] = <<h[n][1], 1>>
          /\ h[n][2] = 2 \/ h[n][1] \in T
      BY <1>0, <2>3 DEF WellFormed, Whole
    <3>3. QED
      BY <2>3, <3>1, <3>2
  <2>4. CASE i < n
    <3>1. i \in 1 .. n /\ i + 1 \in 1 .. n /\ (i > 1 => i - 1 \in 1 .. n)
      BY <1>0, <2>4
    <3>2. g[i] = h[i] /\ g[i + 1] = h[i + 1] /\ (i > 1 => g[i - 1] = h[i - 1])
      BY <1>2, <3>1
    <3>3. /\ h[i][2] = 2 => i > 1 /\ h[i - 1] = <<h[i][1], 1>>
          /\ h[i][2] = 1 /\ i < n => h[i + 1] = <<h[i][1], 2>> \/ h[i][1] \in T
      BY <3>1 DEF WellFormed
    <3>4. QED
      BY <2>4, <3>2, <3>3
  <2>5. i = n + 1 \/ (i = n /\ n > 0) \/ i < n
    BY <1>0
  <2>6. QED
    BY <2>1, <2>3, <2>4, <2>5
<1>5. Ordered(g)
  <2> SUFFICES ASSUME NEW i \in 1 .. n + 1, NEW j \in 1 .. n + 1, i < j
               PROVE  g[i][1] <= g[j][1] /\ g[i] # g[j]
    BY <1>2 DEF Ordered
  <2>0. i \in 1 .. n
    BY <1>0
  <2>1. CASE j \in 1 .. n
    <3>1. g[i] = h[i] /\ g[j] = h[j]
      BY <1>2, <2>0, <2>1
    <3>2. QED
      BY <2>0, <2>1, <3>1 DEF Ordered
  <2>2. CASE j = n + 1
    <3>1. g[i][1] <= e - 1 /\ g[i][1] \in Nat
      BY <1>0, <1>2, <2>0 DEF UpTo
    <3>2. g[j][1] = e
      BY <1>2, <2>2
    <3>3. g[i][1] < g[j][1]
      BY <1>0, <3>1, <3>2
    <3>4. QED
      BY <1>0, <3>1, <3>2, <3>3
  <2>3. QED
    BY <1>3, <2>1, <2>2
<1>6. Whole(g, U)
  BY <1>0, <1>2 DEF Whole
<1>7. UpTo(g, e)
  BY <1>0, <1>2, <1>3 DEF UpTo
<1>8. \A x : (\E i \in DOMAIN h : h[i] = x) => \E i \in DOMAIN g : g[i] = x
  BY <1>0, <1>2
<1>9. QED
  BY <1>4, <1>5, <1>6, <1>7, <1>8 DEF g

(* More tears break nothing.                                               *)
LEMMA MoreTears ==
  ASSUME NEW h, NEW T, NEW U, T \subseteq U
  PROVE  /\ WellFormed(h, T) => WellFormed(h, U)
         /\ Whole(h, T) => Whole(h, U)
  BY DEF WellFormed, Whole

-----------------------------------------------------------------------------
(* A line is a run of half lines.                                          *)
LEMMA LineType == ASSUME NEW e \in Event PROVE Line(e) \in Seq(Half)
  BY DEF Line, Half

(* What NoOp holds: no call is in progress.                                *)
LEMMA NoOpType ==
  /\ NoOp.stage = "idle" /\ NoOp.stream \in Stream /\ NoOp.event = 0
  /\ NoOp.bucket = 0 /\ NoOp.big = FALSE
  BY StorageAssumption DEF NoOp

(* A stretch of a run is a run.                                            *)
LEMMA CutType ==
  ASSUME NEW h \in Seq(Half), NEW m \in Nat, NEW n \in Nat, m >= 1, n <= Len(h)
  PROVE  SubSeq(h, m, n) \in Seq(Half)
  OBVIOUS

(* The types of a writer's parts and of the file it is on.                 *)
LEMMA BufferedType ==
  ASSUME TypeOK, NEW s \in Stream
  PROVE  /\ Buffered(s) \in Nat
         /\ 0 \in 0 .. Buffered(s) /\ Buffered(s) \in 0 .. Buffered(s)
         /\ writer[s].bucket \in Bucket /\ writer[s].buf \in Seq(Half)
         /\ disk[s][writer[s].bucket] \in Seq(Half)
<1>1. writer[s] \in Writer
  BY DEF TypeOK
<1>2. writer[s].bucket \in Bucket /\ writer[s].buf \in Seq(Half)
  BY <1>1 DEF Writer
<1>3. Buffered(s) \in Nat
  BY <1>2 DEF Buffered
<1>4. disk[s][writer[s].bucket] \in Seq(Half)
  BY <1>2 DEF TypeOK
<1>5. QED
  BY <1>2, <1>3, <1>4

(* flush_buf keeps the types of files and writers.                         *)
LEMMA WriteOutType ==
  ASSUME TypeOK, NEW s \in Stream, NEW k \in 0 .. Buffered(s), WriteOut(s, k)
  PROVE  /\ disk' \in [Stream -> [Bucket -> Seq(Half)]]
         /\ writer' \in [Stream -> Writer]
<1>1. writer[s].buf \in Seq(Half) /\ writer[s].bucket \in Bucket
  BY DEF TypeOK, Writer
<1>2. k \in Nat /\ k <= Len(writer[s].buf)
  BY <1>1 DEF Buffered
<1>3. SubSeq(writer[s].buf, 1, k) \in Seq(Half)
  BY <1>1, <1>2, CutType
<1>4. SubSeq(writer[s].buf, k + 1, Len(writer[s].buf)) \in Seq(Half)
  BY <1>1, <1>2, CutType
<1>5. disk[s][writer[s].bucket] \in Seq(Half)
  BY <1>1 DEF TypeOK
<1>6. disk[s][writer[s].bucket] \o SubSeq(writer[s].buf, 1, k) \in Seq(Half)
  BY <1>3, <1>5
<1>7. disk' \in [Stream -> [Bucket -> Seq(Half)]]
  BY <1>1, <1>6 DEF TypeOK, WriteOut
<1>8. writer' \in [Stream -> Writer]
  BY <1>4 DEF TypeOK, Writer, WriteOut
<1>9. QED
  BY <1>7, <1>8

(* What the stages of a call change of `op`.                               *)
LEMMA GotoType ==
  ASSUME TypeOK, NEW stage \in {"ensure", "reopen", "put", "flush", "sync"},
         op.stage \notin {"idle", "flush_all"}, Goto(stage)
  PROVE  /\ op' \in Call
         /\ op'.event = 0 <=> op'.stage \in {"idle", "flush_all"}
  BY DEF TypeOK, Call, Goto

(* `op` is well typed when no write call is in progress.                   *)
LEMMA NoOpIsTyped ==
  ASSUME NEW o, o = NoOp \/ o = [NoOp EXCEPT !.stage = "flush_all"]
  PROVE  /\ o \in Call
         /\ o.event = 0 <=> o.stage \in {"idle", "flush_all"}
<1>1. 0 \in Bucket
  BY StorageAssumption DEF Bucket
<1>2. NoOp \in Call
  BY <1>1, StorageAssumption DEF NoOp, Call
<1>3. QED
  BY <1>2, NoOpType DEF Call

(* Both returns of a call keep the types of what they change.              *)
LEMMA ReturnType ==
  ASSUME TypeOK, op.stage \notin {"idle", "flush_all"}, ReturnErr \/ ReturnOk
  PROVE  /\ op' = NoOp
         /\ acked' \in [Stream -> SUBSET Event]
<1>1. op.stream \in Stream /\ op.event \in Event
  BY DEF TypeOK, Call
<1>2. acked[op.stream] \union {op.event} \in SUBSET Event
  BY <1>1 DEF TypeOK
<1>3. CASE ReturnErr
  BY <1>3 DEF ReturnErr, TypeOK
<1>4. CASE ReturnOk
  BY <1>2, <1>4 DEF ReturnOk, TypeOK
<1>5. QED
  BY <1>3, <1>4

(* Appending a line or half of one to a file keeps it a run.               *)
LEMMA BigLineType ==
  ASSUME TypeOK, op.stage \notin {"idle", "flush_all"}
  PROVE  /\ op.event \in Event /\ op.stream \in Stream
         /\ Line(op.event) \in Seq(Half)
         /\ <<op.event, 1>> \in Half
<1>1. op.event \in Event /\ op.stream \in Stream
  BY DEF TypeOK, Call
<1>2. QED
  BY <1>1, LineType DEF Half

(* Appending a run to the file of a writer keeps the type of `disk`.       *)
LEMMA AppendToFileType ==
  ASSUME TypeOK, NEW s \in Stream, NEW g \in Seq(Half),
         disk' = [disk EXCEPT ![s][writer[s].bucket] = @ \o g]
  PROVE  disk' \in [Stream -> [Bucket -> Seq(Half)]]
<1>1. writer[s].bucket \in Bucket
  BY DEF TypeOK, Writer
<1>2. disk[s][writer[s].bucket] \in Seq(Half)
  BY <1>1 DEF TypeOK
<1>3. disk[s][writer[s].bucket] \o g \in Seq(Half)
  BY <1>2
<1>4. QED
  BY <1>1, <1>3 DEF TypeOK

(* Every variable keeps its type, whatever fails.                          *)
LEMMA TypeStep == ASSUME TypeOK, [Next]_vars PROVE TypeOK'
<1> USE StorageAssumption
<1>0. Closed \in Writer
  BY DEF Closed, Bucket, Writer
<1>1. ASSUME NEW s \in Stream, NEW big \in BOOLEAN, BeginWrite(s, big) PROVE TypeOK'
  <2>1. offered + 1 \in Event /\ offered + 1 \in 0 .. MaxEvents /\ offered + 1 # 0
    BY <1>1 DEF BeginWrite, TypeOK, Event
  <2>2. now \in Bucket
    BY DEF TypeOK
  <2>3. QED
    BY <1>1, <2>1, <2>2 DEF BeginWrite, TypeOK, Call
<1>2. CASE OpenWriter
  <2>1. writer' \in [Stream -> Writer]
    BY <1>2 DEF OpenWriter, TypeOK, Call, Writer
  <2>2. QED
    BY <1>2, <2>1, GotoType DEF OpenWriter, At, TypeOK
<1>3. CASE SameBucket
  BY <1>3, GotoType DEF SameBucket, At, TypeOK
<1>4. CASE RotateFlush
  <2>1. op.stream \in Stream /\ Buffered(op.stream) \in 0 .. Buffered(op.stream)
    BY BufferedType DEF TypeOK, Call
  <2>2. QED
    BY <1>4, <2>1, WriteOutType, GotoType DEF RotateFlush, Drain, At, TypeOK
<1>5. CASE RotateReopen
  <2>1. writer' \in [Stream -> Writer]
    <3>1. op.bucket \in Bucket /\ op.stream \in Stream /\ << >> \in Seq(Half)
      BY DEF TypeOK, Call
    <3>2. [writer[op.stream] EXCEPT !.bucket = op.bucket, !.buf = << >>] \in Writer
      BY ZenonT(60), <3>1 DEF TypeOK, Writer
    <3>3. writer' = [writer EXCEPT ![op.stream] =
                       [writer[op.stream] EXCEPT !.bucket = op.bucket, !.buf = << >>]]
      BY <1>5, <3>1 DEF RotateReopen, TypeOK
    <3>4. QED
      BY <3>1, <3>2, <3>3 DEF TypeOK
  <2>2. QED
    BY <1>5, <2>1, GotoType DEF RotateReopen, At, TypeOK
<1>6. CASE WriteLine
  <2>1. op.stream \in Stream /\ Line(op.event) \in Seq(Half)
    BY <1>6, BigLineType DEF WriteLine, At
  <2>2. writer[op.stream].buf \in Seq(Half)
    BY <2>1 DEF TypeOK, Writer
  <2>3. writer[op.stream].buf \o Line(op.event) \in Seq(Half)
    BY <2>1, <2>2
  <2>4. writer' \in [Stream -> Writer]
    BY <1>6, <2>1, <2>3 DEF WriteLine, TypeOK, Writer
  <2>5. CASE fsync
    BY <1>6, <2>4, <2>5, GotoType DEF WriteLine, At, TypeOK
  <2>6. CASE ~fsync
    BY <1>6, <2>4, <2>6, ReturnType, NoOpIsTyped DEF WriteLine, At, TypeOK
  <2>7. QED
    BY <2>5, <2>6
<1>7. CASE MakeRoom
  <2>1. op.stream \in Stream /\ Buffered(op.stream) \in 0 .. Buffered(op.stream)
    BY BufferedType DEF TypeOK, Call
  <2>2. QED
    BY <1>7, <2>1, WriteOutType DEF MakeRoom, Drain, TypeOK
<1>8. CASE WriteThrough
  <2>1. op.stream \in Stream /\ Line(op.event) \in Seq(Half)
    BY <1>8, BigLineType DEF WriteThrough, At
  <2>2. disk' \in [Stream -> [Bucket -> Seq(Half)]]
    BY <1>8, <2>1, AppendToFileType DEF WriteThrough
  <2>3. CASE fsync
    BY <1>8, <2>2, <2>3, GotoType DEF WriteThrough, At, TypeOK
  <2>4. CASE ~fsync
    BY <1>8, <2>2, <2>4, ReturnType, NoOpIsTyped DEF WriteThrough, At, TypeOK
  <2>5. QED
    BY <2>3, <2>4
<1>9. CASE FlushLine
  <2>1. op.stream \in Stream /\ Buffered(op.stream) \in 0 .. Buffered(op.stream)
    BY BufferedType DEF TypeOK, Call
  <2>2. QED
    BY <1>9, <2>1, WriteOutType, GotoType DEF FlushLine, Drain, At, TypeOK
<1>10. CASE SyncLine
  <2>1. /\ op.stream \in Stream
        /\ writer[op.stream].bucket \in Bucket
    BY DEF TypeOK, Call, Writer
  <2>2. disk[op.stream][writer[op.stream].bucket] \in Seq(Half)
    BY <2>1 DEF TypeOK
  <2>3. synced' \in [Stream -> [Bucket -> Nat]]
    BY <1>10, <2>1, <2>2 DEF SyncLine, TypeOK
  <2>4. op' = NoOp /\ acked' \in [Stream -> SUBSET Event]
    BY <1>10, ReturnType DEF SyncLine, At
  <2>5. QED
    BY <1>10, <2>3, <2>4, NoOpIsTyped DEF SyncLine, TypeOK
<1>11. CASE OpenOrSyncFails
  <2>1. op' = NoOp /\ acked' \in [Stream -> SUBSET Event]
    BY <1>11, ReturnType DEF OpenOrSyncFails, At
  <2>2. QED
    BY <1>11, <2>1, NoOpIsTyped DEF OpenOrSyncFails, TypeOK
<1>12. CASE FlushFails
  <2>1. op' = NoOp /\ acked' \in [Stream -> SUBSET Event]
    BY <1>12, ReturnType DEF FlushFails, FlushDue, At
  <2>2. op.stream \in Stream /\ Buffered(op.stream) \in Nat
    BY BufferedType DEF TypeOK, Call
  <2>3. PICK k \in 0 .. Buffered(op.stream) - 1 : WriteOut(op.stream, k)
    BY <1>12 DEF FlushFails
  <2>4. k \in 0 .. Buffered(op.stream)
    BY <2>2
  <2>5. QED
    BY <1>12, <2>1, <2>2, <2>3, <2>4, WriteOutType, NoOpIsTyped DEF FlushFails, TypeOK
<1>13. CASE WriteThroughFails
  <2>1. op' = NoOp /\ acked' \in [Stream -> SUBSET Event]
    BY <1>13, ReturnType DEF WriteThroughFails, At
  <2>2. op.event \in Event /\ op.stream \in Stream /\ <<op.event, 1>> \in Half
    BY <1>13, BigLineType DEF WriteThroughFails, At
  <2>3. writer[op.stream].bucket \in Bucket
    BY <2>2, BufferedType
  <2>4. disk[op.stream][writer[op.stream].bucket] \in Seq(Half)
    BY <2>2, BufferedType
  <2>5. Append(disk[op.stream][writer[op.stream].bucket], <<op.event, 1>>) \in Seq(Half)
    BY <2>2, <2>4
  <2>6. disk' \in [Stream -> [Bucket -> Seq(Half)]] /\ torn' \in SUBSET Event
    <3>1. CASE UNCHANGED << disk, torn >>
      BY <3>1 DEF TypeOK
    <3>2. CASE /\ disk' = [disk EXCEPT ![op.stream][writer[op.stream].bucket] =
                             Append(@, <<op.event, 1>>)]
               /\ torn' = torn \union {op.event}
      BY <2>2, <2>3, <2>5, <3>2 DEF TypeOK
    <3>3. QED
      BY <1>13, <3>1, <3>2 DEF WriteThroughFails
  <2>7. QED
    BY <1>13, <2>1, <2>6, NoOpIsTyped DEF WriteThroughFails, TypeOK
<1>14. ASSUME NEW s \in Stream, FlushOne(s) PROVE TypeOK'
  <2>1. Buffered(s) \in Nat /\ Buffered(s) \in 0 .. Buffered(s) /\ writer[s].bucket \in Bucket
    BY BufferedType
  <2>2. disk[s][writer[s].bucket] \in Seq(Half)
    BY BufferedType
  <2>3. Len(disk[s][writer[s].bucket]) + Buffered(s) \in Nat
    <3>1. Len(disk[s][writer[s].bucket]) \in Nat
      BY <2>2, LenProperties
    <3>2. \A m, n \in Nat : m + n \in Nat
      OBVIOUS
    <3>3. QED
      BY <2>1, <3>1, <3>2, Zenon
  <2>4. synced' \in [Stream -> [Bucket -> Nat]]
    BY <1>14, <2>1, <2>3 DEF FlushOne, TypeOK
  <2>5. QED
    BY <1>14, <2>1, <2>4, WriteOutType DEF FlushOne, Drain, TypeOK
<1>15. ASSUME NEW s \in Stream, FlushOneFails(s) PROVE TypeOK'
  <2>1. PICK k \in 0 .. Buffered(s) : WriteOut(s, k)
    BY <1>15 DEF FlushOneFails
  <2>2. QED
    BY <1>15, <2>1, WriteOutType, NoOpIsTyped
       DEF FlushOneFails, FlushAllReturns, TypeOK
<1>16. ASSUME NEW s \in Stream, DropOne(s) PROVE TypeOK'
  <2>1. PICK k \in 0 .. Buffered(s) :
          /\ disk' = [disk EXCEPT ![s][writer[s].bucket] =
                                    @ \o SubSeq(writer[s].buf, 1, k)]
          /\ spoiled' = IF k < Buffered(s) THEN spoiled \union {s} ELSE spoiled
    BY <1>16 DEF DropOne
  <2>2. writer[s].buf \in Seq(Half)
    BY DEF TypeOK, Writer
  <2>3. SubSeq(writer[s].buf, 1, k) \in Seq(Half)
    BY <2>2, CutType DEF Buffered
  <2>4. disk' \in [Stream -> [Bucket -> Seq(Half)]]
    BY <2>1, <2>3, AppendToFileType
  <2>5. QED
    BY <1>0, <1>16, <2>1, <2>4 DEF DropOne, TypeOK
<1>17. CASE FlushAllDone
  BY <1>17, NoOpIsTyped DEF FlushAllDone, FlushAllReturns, TypeOK
<1>18. CASE DropDone
  BY <1>18 DEF DropDone, TypeOK
<1>19. CASE BeginFlushAll
  BY <1>19, NoOpIsTyped DEF BeginFlushAll, OpenWriters, TypeOK
<1>20. CASE BeginDrop
  BY <1>20 DEF BeginDrop, OpenWriters, TypeOK
<1>21. CASE AdvanceBucket
  <2>1. now' \in Bucket
    BY <1>21 DEF AdvanceBucket, TypeOK, Bucket
  <2>2. QED
    BY <1>21, <2>1 DEF AdvanceBucket, TypeOK
<1>22. CASE Crash
  BY <1>0, <1>22, NoOpIsTyped DEF Crash, TypeOK
<1>23. ASSUME NEW s \in Stream, NEW b \in Bucket, LoseUnsynced(s, b) PROVE TypeOK'
  <2>1. disk[s][b] \in Seq(Half) /\ synced[s][b] \in Nat
    BY DEF TypeOK
  <2>2. PICK k \in synced[s][b] .. Len(disk[s][b]) - 1 :
          disk' = [disk EXCEPT ![s][b] = SubSeq(@, 1, k)]
    BY <1>23 DEF LoseUnsynced
  <2>3. k \in Nat /\ k <= Len(disk[s][b])
    BY <2>1
  <2>4. SubSeq(disk[s][b], 1, k) \in Seq(Half)
    BY <2>1, <2>3, CutType
  <2>5. disk' \in [Stream -> [Bucket -> Seq(Half)]]
    BY <2>2, <2>4 DEF TypeOK
  <2>6. QED
    BY <1>23, <2>5 DEF LoseUnsynced, TypeOK
<1>24. CASE UNCHANGED vars
  BY <1>24 DEF vars, TypeOK
<1>25. QED
  BY <1>1, <1>2, <1>3, <1>4, <1>5, <1>6, <1>7, <1>8, <1>9, <1>10, <1>11, <1>12,
     <1>13, <1>14, <1>15, <1>16, <1>17, <1>18, <1>19, <1>20, <1>21, <1>22, <1>23,
     <1>24 DEF Next, CallStep, Finished

(* The type invariant of the store, for all values of the constants.       *)
THEOREM TypeCorrect == Spec => []TypeOK
<1>1. Init => TypeOK
  <2>1. 0 \in Bucket /\ Closed \in Writer
    BY StorageAssumption DEF Closed, Writer, Bucket
  <2>2. << >> \in Seq(Half) /\ 0 \in Nat /\ 0 \in 0 .. MaxEvents
    BY StorageAssumption
  <2>3. QED
    BY <2>1, <2>2, NoOpIsTyped DEF Init, TypeOK
<1>2. TypeOK /\ [Next]_vars => TypeOK'
  BY TypeStep
<1>3. QED
  BY <1>1, <1>2, PTL DEF Spec

-----------------------------------------------------------------------------
(* The inductive invariant.                                                *)

LEMMA ContentType ==
  ASSUME TypeOK, NEW s \in Stream, NEW b \in Bucket
  PROVE  /\ disk[s][b] \in Seq(Half)
         /\ InBuffer(s, b) \in Seq(Half)
         /\ Content(s, b) \in Seq(Half)
         /\ DOMAIN Content(s, b) = 1 .. Len(Content(s, b))
<1>1. disk[s][b] \in Seq(Half)
  BY DEF TypeOK
<1>2. InBuffer(s, b) \in Seq(Half)
  BY BufferedType DEF InBuffer
<1>3. Content(s, b) \in Seq(Half)
  BY <1>1, <1>2, Concat DEF Content
<1>4. QED
  BY <1>1, <1>2, <1>3

(* Moving bytes from a buffer to its file changes no content.              *)
LEMMA WriteOutKeeps ==
  ASSUME TypeOK, NEW s \in Stream, NEW k \in 0 .. Buffered(s),
         writer[s].open, WriteOut(s, k)
  PROVE  \A r \in Stream, b \in Bucket : Content(r, b)' = Content(r, b)
<1> DEFINE c == writer[s].bucket
           u == writer[s].buf
<1>1. c \in Bucket /\ u \in Seq(Half) /\ disk[s][c] \in Seq(Half)
  BY BufferedType
<1>2. /\ disk' = [disk EXCEPT ![s][c] = disk[s][c] \o SubSeq(u, 1, k)]
      /\ writer' = [writer EXCEPT ![s].buf = SubSeq(u, k + 1, Len(u))]
  BY DEF WriteOut, TypeOK
<1>3. ASSUME NEW r \in Stream, NEW b \in Bucket, r # s
      PROVE  Content(r, b)' = Content(r, b)
  BY <1>2, <1>3 DEF Content, InBuffer, TypeOK
<1>4. ASSUME NEW r \in Stream, NEW b \in Bucket, r = s, b # c
      PROVE  Content(r, b)' = Content(r, b)
  <2>1. disk'[s][b] = disk[s][b]
    BY <1>1, <1>2, <1>4 DEF TypeOK
  <2>2. writer'[s].bucket = c
    BY <1>2 DEF TypeOK, Writer
  <2>3. QED
    BY <1>4, <2>1, <2>2 DEF Content, InBuffer
<1>5. ASSUME NEW r \in Stream, NEW b \in Bucket, r = s, b = c
      PROVE  Content(r, b)' = Content(r, b)
  <2>1. /\ disk'[s][c] = disk[s][c] \o SubSeq(u, 1, k)
        /\ writer'[s].open /\ writer'[s].bucket = c
        /\ writer'[s].buf = SubSeq(u, k + 1, Len(u))
    BY <1>1, <1>2 DEF TypeOK, Writer
  <2>2. (disk[s][c] \o SubSeq(u, 1, k)) \o SubSeq(u, k + 1, Len(u)) = disk[s][c] \o u
    BY <1>1, SplitRun DEF Buffered
  <2>3. QED
    BY <1>5, <2>1, <2>2 DEF Content, InBuffer
<1>6. QED
  BY <1>3, <1>4, <1>5

(* A step that changes no content keeps it sound.                          *)
LEMMA ContentUnchanged ==
  ASSUME TypeOK, ContentSound, torn' = torn, Newest' \in Int, Newest <= Newest',
         Live' => Live,
         \A r \in Stream, b \in Bucket : Content(r, b)' = Content(r, b)
  PROVE  /\ ContentSound'
         /\ \A r \in Stream : Taken(r)' = Taken(r)
<1>1. ASSUME NEW s \in Stream, NEW b \in Bucket
      PROVE  UpTo(Content(s, b), Newest) => UpTo(Content(s, b), Newest')
  <2>1. Content(s, b) \in Seq(Half) /\ Newest \in Int
    BY ContentType DEF Newest, TypeOK
  <2>2. \A i \in 1 .. Len(Content(s, b)) : Content(s, b)[i][1] \in Int
    BY <2>1 DEF Half, Event
  <2>3. QED
    BY <2>1, <2>2 DEF UpTo
<1>2. ContentSound'
  BY <1>1 DEF ContentSound
<1>3. \A r \in Stream : Taken(r)' = Taken(r)
  BY DEF Taken
<1>4. QED
  BY <1>2, <1>3

(* The call in progress puts its line, or the half of it that a failed     *)
(* write left, behind what its file holds.                                 *)
LEMMA ContentGrows ==
  ASSUME TypeOK, Shape, ContentSound, op.stage = "put",
         op'.stage \notin {"ensure", "reopen", "put"}, offered' = offered,
         status' = status, torn \subseteq torn',
         NEW g \in Seq(Half),
         WellFormed(g, torn'), Ordered(g), Whole(g, torn'), UpTo(g, op.event),
         \A i \in 1 .. Len(g) : g[i][1] = op.event \/
            \E j \in 1 .. Len(Content(op.stream, op.bucket)) :
               g[i] = Content(op.stream, op.bucket)[j],
         \A x : (\E i \in DOMAIN Content(op.stream, op.bucket) :
                     Content(op.stream, op.bucket)[i] = x)
                => \E i \in DOMAIN g : g[i] = x,
         \A r \in Stream, b \in Bucket : Content(r, b)' =
            IF r = op.stream /\ b = op.bucket THEN g ELSE Content(r, b)
  PROVE  /\ ContentSound'
         /\ \A r \in Stream : Taken(r) \subseteq Taken(r)'
<1> DEFINE s0 == op.stream
           b0 == op.bucket
<1>1. /\ s0 \in Stream /\ b0 \in Bucket /\ op.event \in Event /\ offered \in Nat
      /\ op.event = offered /\ Live /\ Live'
      /\ Newest = offered - 1 /\ Newest' = offered
  BY DEF TypeOK, Call, Shape, InCall, Live, Newest, Pending
<1>2. \A b \in Bucket : b0 < b => Content(s0, b) = << >>
  <2> SUFFICES ASSUME NEW b \in Bucket, b0 < b PROVE Content(s0, b) = << >>
    OBVIOUS
  <2>1. writer[s0].bucket = b0
    BY DEF Shape
  <2>2. disk[s0][b] = << >> /\ b # b0
    BY <1>1, <2>1 DEF Shape, Bucket
  <2>3. Content(s0, b) = << >> \o << >>
    BY <2>1, <2>2 DEF Content, InBuffer
  <2>4. << >> \in Seq(Half)
    OBVIOUS
  <2>5. QED
    BY <2>3, <2>4, ConcatEmptySeq
<1>3. ASSUME NEW r \in Stream, NEW b \in Bucket
      PROVE  /\ WellFormed(Content(r, b)', torn')
             /\ Ordered(Content(r, b)')
             /\ UpTo(Content(r, b)', Newest')
             /\ Whole(Content(r, b)', torn')
  <2>1. CASE r = s0 /\ b = b0
    BY <1>1, <2>1
  <2>2. CASE r # s0 \/ b # b0
    <3>1. /\ Content(r, b)' = Content(r, b) /\ Content(r, b) \in Seq(Half)
          /\ \A i \in 1 .. Len(Content(r, b)) : Content(r, b)[i][1] \in Int
      BY <2>2, ContentType DEF Half, Event
    <3>2. /\ WellFormed(Content(r, b), torn) /\ Ordered(Content(r, b))
          /\ UpTo(Content(r, b), offered - 1) /\ Whole(Content(r, b), torn)
      BY <1>1 DEF ContentSound
    <3>3. UpTo(Content(r, b), offered)
      BY <1>1, <3>1, <3>2 DEF UpTo
    <3>4. QED
      BY <1>1, <3>1, <3>2, <3>3, MoreTears
  <2>3. QED
    BY <2>1, <2>2
<1>4. ASSUME NEW r \in Stream, NEW a \in Bucket, NEW b \in Bucket, a < b
      PROVE  Before(Content(r, a)', Content(r, b)')
  <2>1. Before(Content(r, a), Content(r, b))
    BY <1>4 DEF ContentSound
  <2>2. CASE r = s0 /\ b = b0
    <3>1. Content(r, a)' = Content(r, a) /\ Content(r, a) \in Seq(Half)
      BY <1>4, <2>2, ContentType DEF Bucket
    <3>2. \A i \in 1 .. Len(Content(r, a)) :
             Content(r, a)[i][1] \in Int /\ Content(r, a)[i][1] <= offered - 1
      BY <1>1, <3>1 DEF ContentSound, UpTo, Half, Event
    <3>3. SUFFICES ASSUME NEW i \in 1 .. Len(Content(r, a)), NEW j \in 1 .. Len(g)
                   PROVE  Content(r, a)[i][1] < g[j][1]
      <4>1. Content(r, b)' = g
        BY <2>2
      <4>2. QED
        BY <3>1, <4>1 DEF Before
    <3>4. CASE g[j][1] = op.event
      BY <1>1, <3>2, <3>4
    <3>5. CASE \E k \in 1 .. Len(Content(s0, b0)) : g[j] = Content(s0, b0)[k]
      BY <2>1, <2>2, <3>5 DEF Before
    <3>6. QED
      BY <3>4, <3>5
  <2>3. CASE r = s0 /\ a = b0
    <3>1. Content(r, b)' = << >>
      BY <1>2, <1>4, <2>3 DEF Bucket
    <3>2. QED
      BY <3>1 DEF Before
  <2>4. CASE r # s0 \/ (a # b0 /\ b # b0)
    BY <2>1, <2>4
  <2>5. QED
    BY <2>2, <2>3, <2>4
<1>5. ContentSound'
  BY <1>3, <1>4 DEF ContentSound
<1>6. ASSUME NEW r \in Stream PROVE Taken(r) \subseteq Taken(r)'
  <2> SUFFICES ASSUME NEW e \in Event, NEW b \in Bucket,
                      \E i \in DOMAIN Content(r, b) : Content(r, b)[i] = <<e, 2>>
               PROVE  \E i \in DOMAIN Content(r, b)' : Content(r, b)'[i] = <<e, 2>>
    BY DEF Taken
  <2>1. CASE r = s0 /\ b = b0
    BY SMTT(60), <2>1
  <2>2. CASE r # s0 \/ b # b0
    BY <2>2
  <2>3. QED
    BY <2>1, <2>2
<1>7. QED
  BY <1>5, <1>6

(* The end of the process cuts contents back.                              *)
LEMMA ContentCut ==
  ASSUME TypeOK, ContentSound, torn' = torn, Newest' \in Int, Newest <= Newest',
         ~Live',
         \A r \in Stream, b \in Bucket : \E n \in 0 .. Len(Content(r, b)) :
            Content(r, b)' = SubSeq(Content(r, b), 1, n)
  PROVE  ContentSound'
<1>1. ASSUME NEW s \in Stream, NEW b \in Bucket
      PROVE  /\ WellFormed(Content(s, b)', torn')
             /\ Ordered(Content(s, b)')
             /\ UpTo(Content(s, b)', Newest')
  <2>1. PICK n \in 0 .. Len(Content(s, b)) : Content(s, b)' = SubSeq(Content(s, b), 1, n)
    OBVIOUS
  <2>2. Content(s, b) \in Seq(Half) /\ Newest \in Int
    BY ContentType DEF Newest, TypeOK
  <2>3. /\ WellFormed(Content(s, b), torn) /\ Ordered(Content(s, b))
        /\ UpTo(Content(s, b), Newest)
    BY DEF ContentSound
  <2>4. \A i \in 1 .. Len(Content(s, b)) : Content(s, b)[i][1] \in Int
    BY <2>2 DEF Half, Event
  <2>5. UpTo(Content(s, b), Newest')
    BY <2>2, <2>3, <2>4 DEF UpTo
  <2>6. QED
    BY <2>1, <2>2, <2>3, <2>5, PrefixSound
<1>2. ASSUME NEW s \in Stream, NEW a \in Bucket, NEW b \in Bucket, a < b
      PROVE  Before(Content(s, a)', Content(s, b)')
  <2>1. Before(Content(s, a), Content(s, b))
    BY <1>2 DEF ContentSound
  <2>2. Content(s, a) \in Seq(Half) /\ Content(s, b) \in Seq(Half)
    BY ContentType
  <2>3. PICK m \in 0 .. Len(Content(s, a)) : Content(s, a)' = SubSeq(Content(s, a), 1, m)
    OBVIOUS
  <2>4. PICK n \in 0 .. Len(Content(s, b)) : Content(s, b)' = SubSeq(Content(s, b), 1, n)
    OBVIOUS
  <2>5. QED
    BY <2>1, <2>2, <2>3, <2>4, BeforePrefix
<1>3. QED
  BY <1>1, <1>2 DEF ContentSound

-----------------------------------------------------------------------------
(* Shape.                                                                  *)

(* A flush leaves every writer on its file, and other files alone.         *)
LEMMA WriteOutShape ==
  ASSUME TypeOK, Shape, NEW s \in Stream, NEW k \in 0 .. Buffered(s),
         writer[s].open, WriteOut(s, k)
  PROVE  /\ \A r \in Stream :
              /\ writer'[r].open = writer[r].open
              /\ writer'[r].bucket = writer[r].bucket
              /\ ~writer[r].open => writer'[r].buf = << >>
              /\ \A b \in Bucket : ~writer[r].open \/ b > writer[r].bucket
                   => disk'[r][b] = disk[r][b]
         /\ k = Buffered(s) => writer'[s].buf = << >>
<1>1. /\ writer[s].bucket \in Bucket /\ writer[s].buf \in Seq(Half)
      /\ writer \in [Stream -> Writer]
      /\ disk \in [Stream -> [Bucket -> Seq(Half)]]
  BY BufferedType DEF TypeOK
<1>2. \A r \in Stream : writer[r] = [open |-> writer[r].open,
         bucket |-> writer[r].bucket, buf |-> writer[r].buf]
  BY <1>1 DEF Writer
<1>3. /\ writer'[s].open = writer[s].open
      /\ writer'[s].bucket = writer[s].bucket
      /\ writer'[s].buf = SubSeq(writer[s].buf, k + 1, Len(writer[s].buf))
      /\ \A r \in Stream \ {s} : writer'[r] = writer[r]
  BY <1>1, <1>2 DEF WriteOut, Writer
<1>4. \A r \in Stream, b \in Bucket : r # s \/ b # writer[s].bucket
         => disk'[r][b] = disk[r][b]
  BY <1>1 DEF WriteOut
<1>5. ASSUME k = Buffered(s) PROVE writer'[s].buf = << >>
  BY <1>1, <1>3, <1>5, Len(writer[s].buf) \in Nat DEF Buffered
<1>6. \A r \in Stream : ~writer[r].open => writer[r].buf = << >>
  BY DEF Shape
<1>7. \A b \in Bucket : b > writer[s].bucket => b # writer[s].bucket
  BY <1>1 DEF Bucket
<1>8. QED
  BY <1>3, <1>4, <1>5, <1>6, <1>7

(* What Shape says of the writers stays true while they stay on their      *)
(* files.                                                                  *)
LEMMA WritersStay ==
  ASSUME TypeOK, Shape, now' \in Bucket, now <= now', Live' => Live,
         \A r \in Stream :
           /\ writer'[r].open = writer[r].open
           /\ writer'[r].bucket = writer[r].bucket
           /\ ~writer[r].open => writer'[r].buf = << >>
           /\ \A b \in Bucket : ~writer[r].open \/ b > writer[r].bucket
                => disk'[r][b] = disk[r][b]
  PROVE  /\ OpenWriters' = OpenWriters
         /\ \A s \in Stream :
              /\ ~writer'[s].open => writer'[s].buf = << >>
              /\ writer'[s].bucket <= now'
              /\ Live' => \A b \in Bucket :
                   ~writer'[s].open \/ b > writer'[s].bucket => disk'[s][b] = << >>
<1>1. OpenWriters' = OpenWriters
  BY DEF OpenWriters
<1>2. ASSUME NEW s \in Stream
      PROVE  /\ ~writer'[s].open => writer'[s].buf = << >>
             /\ writer'[s].bucket <= now'
  <2>1. writer[s].bucket \in Bucket /\ now \in Bucket /\ writer[s].bucket <= now
    BY BufferedType DEF TypeOK, Shape
  <2>2. QED
    BY <2>1 DEF Bucket
<1>3. ASSUME NEW s \in Stream, Live', NEW b \in Bucket,
             ~writer'[s].open \/ b > writer'[s].bucket
      PROVE  disk'[s][b] = << >>
  BY <1>3 DEF Shape
<1>4. QED
  BY <1>1, <1>2, <1>3

(* Every step of the store preserves Shape.                                *)
LEMMA ShapeStep ==
  ASSUME TypeOK, Shape, TypeOK', [Next]_vars
  PROVE  Shape'
<1> USE DEF Rotating
<1>0. /\ now \in Bucket /\ op \in Call /\ op.bucket \in Bucket /\ op.stream \in Stream
      /\ Bucket \subseteq Nat
      /\ writer \in [Stream -> Writer]
      /\ disk \in [Stream -> [Bucket -> Seq(Half)]]
  <2>1. Bucket \subseteq Nat
    BY DEF Bucket
  <2>2. QED
    BY <2>1 DEF TypeOK, Call
<1>1. ASSUME NEW s \in Stream, NEW big \in BOOLEAN, BeginWrite(s, big)
      PROVE  Shape'
  BY <1>0, <1>1, BufferedType DEF BeginWrite, At, Shape, InCall, Live, OpenWriters
<1>2. CASE OpenWriter
  BY SMTT(60), <1>0, <1>2 DEF OpenWriter, Goto, At, Shape, InCall, Live, OpenWriters, Writer
<1>3. CASE SameBucket
  BY <1>0, <1>3 DEF SameBucket, Goto, At, Shape, InCall, Live, OpenWriters, Call
<1>4. CASE RotateFlush
  BY <1>0, <1>4, BufferedType, WriteOutShape, WritersStay
     DEF RotateFlush, Drain, Goto, At, Shape, InCall, Live, Call
<1>5. CASE RotateReopen
  BY SMTT(60), <1>0, <1>5 DEF RotateReopen, Goto, At, Shape, InCall, Live, OpenWriters, Writer
<1>6. CASE WriteLine
  <2>1. /\ writer'[op.stream].open /\ writer[op.stream].open
        /\ writer'[op.stream].bucket = writer[op.stream].bucket
        /\ \A r \in Stream \ {op.stream} : writer'[r] = writer[r]
    BY <1>0, <1>6 DEF WriteLine, At, Shape, Writer
  <2>2. OpenWriters' = OpenWriters
    BY <2>1 DEF OpenWriters
  <2>3. CASE fsync
    BY <1>0, <1>6, <2>1, <2>2, <2>3 DEF WriteLine, Goto, At, Shape, InCall, Live, Call
  <2>4. CASE ~fsync
    BY <1>0, <1>6, <2>1, <2>2, <2>4, NoOpType
       DEF WriteLine, ReturnOk, At, Shape, InCall, Live
  <2>5. QED
    BY <2>3, <2>4
<1>7. CASE MakeRoom
  BY <1>0, <1>7, BufferedType, WriteOutShape, WritersStay
     DEF MakeRoom, Drain, At, Shape, InCall, Live
<1>8. CASE WriteThrough
  <2>1. \A r \in Stream, b \in Bucket : ~writer[r].open \/ b > writer[r].bucket
           => disk'[r][b] = disk[r][b]
    BY SMTT(60), <1>0, <1>8, BufferedType DEF WriteThrough, At, Shape
  <2>2. OpenWriters' = OpenWriters
    BY <1>8 DEF WriteThrough, OpenWriters
  <2>3. CASE fsync
    <3>1. /\ op'.stage = "flush" /\ op'.stream = op.stream /\ op'.event = op.event
          /\ op'.bucket = op.bucket
      BY <1>0, <1>8, <2>3 DEF WriteThrough, Goto, Call
    <3>2. /\ op.stage = "put" /\ writer' = writer /\ now' = now /\ status' = status
          /\ todo' = todo /\ offered' = offered
      BY <1>8 DEF WriteThrough, At
    <3>3. QED
      BY <2>1, <2>2, <3>1, <3>2 DEF Shape, InCall, Live
  <2>4. CASE ~fsync
    <3>1. /\ op'.stage = "idle" /\ writer' = writer /\ now' = now
          /\ status' = status /\ todo' = todo
      BY <1>8, <2>4, NoOpType DEF WriteThrough, ReturnOk
    <3>2. op.stage = "put"
      BY <1>8 DEF WriteThrough, At
    <3>3. QED
      BY <2>1, <2>2, <3>1, <3>2 DEF Shape, InCall, Live
  <2>5. QED
    BY <2>3, <2>4
<1>9. CASE FlushLine
  BY <1>0, <1>9, BufferedType, WriteOutShape, WritersStay
     DEF FlushLine, Drain, Goto, At, Shape, InCall, Live, Call
<1>10. CASE SyncLine
  BY <1>0, <1>10, NoOpType
     DEF SyncLine, ReturnOk, At, Shape, InCall, Live, OpenWriters
<1>11. CASE OpenOrSyncFails
  BY <1>0, <1>11, NoOpType
     DEF OpenOrSyncFails, ReturnErr, At, Shape, InCall, Live, OpenWriters
<1>12. CASE FlushFails
  <2>1. writer[op.stream].open
    BY <1>12 DEF FlushFails, FlushDue, At, Shape
  <2>2. PICK k \in 0 .. Buffered(op.stream) : WriteOut(op.stream, k)
    BY <1>0, <1>12, BufferedType DEF FlushFails
  <2>3. QED
    BY <1>0, <1>12, <2>1, <2>2, NoOpType, WriteOutShape, WritersStay
       DEF FlushFails, ReturnErr, Shape, InCall, Live
<1>13. CASE WriteThroughFails
  <2>1. \A r \in Stream, b \in Bucket : ~writer[r].open \/ b > writer[r].bucket
           => disk'[r][b] = disk[r][b]
    <3>1. writer[op.stream].open
      BY <1>13 DEF WriteThroughFails, At, Shape
    <3>2. CASE disk' = disk
      BY <3>2
    <3>3. CASE disk' = [disk EXCEPT ![op.stream][writer[op.stream].bucket] =
                                      Append(@, <<op.event, 1>>)]
      BY SMTT(60), <1>0, <3>1, <3>3, BufferedType
    <3>4. QED
      BY <1>13, <3>2, <3>3 DEF WriteThroughFails
  <2>2. OpenWriters' = OpenWriters
    BY <1>13 DEF WriteThroughFails, OpenWriters
  <2>3. QED
    BY SMTT(60), <1>0, <1>13, <2>1, <2>2, NoOpType
       DEF WriteThroughFails, ReturnErr, At, Shape, InCall, Live
<1>14. ASSUME NEW s \in Stream, FlushOne(s) PROVE Shape'
  <2>1. writer[s].open
    BY <1>14 DEF FlushOne, Shape, OpenWriters
  <2>2. \A r \in Stream :
          /\ writer'[r].open = writer[r].open
          /\ writer'[r].bucket = writer[r].bucket
          /\ ~writer[r].open => writer'[r].buf = << >>
          /\ \A b \in Bucket : ~writer[r].open \/ b > writer[r].bucket
               => disk'[r][b] = disk[r][b]
    BY <1>14, <2>1, BufferedType, WriteOutShape DEF FlushOne, Drain
  <2>3. /\ now' = now /\ op' = op /\ status' = status /\ offered' = offered
        /\ status = "flushing" /\ todo' \subseteq todo /\ now <= now'
    BY <1>0, <1>14 DEF FlushOne
  <2>4. ~InCall /\ ~InCall'
    BY <2>3 DEF InCall, Shape
  <2>5. /\ OpenWriters' = OpenWriters
        /\ \A r \in Stream :
             /\ ~writer'[r].open => writer'[r].buf = << >>
             /\ writer'[r].bucket <= now'
             /\ Live' => \A b \in Bucket :
                  ~writer'[r].open \/ b > writer'[r].bucket => disk'[r][b] = << >>
    BY <1>0, <2>2, <2>3, WritersStay DEF Live
  <2>6. op.stage \notin {"reopen", "put", "flush", "sync"}
    BY <2>4 DEF InCall
  <2>7. QED
    BY <2>3, <2>4, <2>5, <2>6 DEF Shape
<1>15. ASSUME NEW s \in Stream, FlushOneFails(s) PROVE Shape'
  <2>1. writer[s].open
    BY <1>15 DEF FlushOneFails, Shape, OpenWriters
  <2>2. PICK k \in 0 .. Buffered(s) : WriteOut(s, k)
    BY <1>15 DEF FlushOneFails
  <2>3. QED
    BY <1>0, <1>15, <2>1, <2>2, NoOpType, WriteOutShape, WritersStay
       DEF FlushOneFails, FlushAllReturns, Shape, InCall, Live
<1>16. ASSUME NEW s \in Stream, DropOne(s) PROVE Shape'
  BY <1>0, <1>16 DEF DropOne, Closed, Shape, InCall, Live, OpenWriters
<1>17. CASE FlushAllDone
  BY <1>0, <1>17, NoOpType
     DEF FlushAllDone, FlushAllReturns, Shape, InCall, Live, OpenWriters
<1>18. CASE DropDone
  BY <1>0, <1>18 DEF DropDone, Shape, InCall, Live, OpenWriters
<1>19. CASE BeginFlushAll
  BY <1>0, <1>19, NoOpType DEF BeginFlushAll, Shape, InCall, Live, OpenWriters
<1>20. CASE BeginDrop
  BY <1>0, <1>20 DEF BeginDrop, At, Shape, InCall, Live, OpenWriters
<1>21. CASE AdvanceBucket
  <2>1. now' \in Nat /\ now <= now'
    BY <1>0, <1>21 DEF AdvanceBucket
  <2>2. QED
    <3>1. \A r \in Stream : writer[r].bucket \in Nat
      BY <1>0, BufferedType
    <3>0. now \in Nat /\ op.bucket \in Nat
      BY <1>0
    <3>2. /\ op.bucket <= now => op.bucket <= now'
          /\ \A r \in Stream : writer[r].bucket <= now => writer[r].bucket <= now'
      BY <2>1, <3>0, <3>1
    <3>3. QED
      BY <1>0, <1>21, <3>2 DEF AdvanceBucket, Shape, InCall, Live, OpenWriters
<1>22. CASE Crash
  BY <1>0, <1>22, NoOpType DEF Crash, Closed, Shape, InCall, Live, OpenWriters
<1>23. ASSUME NEW s \in Stream, NEW b \in Bucket, LoseUnsynced(s, b) PROVE Shape'
  BY <1>0, <1>23 DEF LoseUnsynced, Shape, InCall, Live, OpenWriters
<1>24. CASE UNCHANGED vars
  BY <1>24 DEF vars, Shape, InCall, Live, OpenWriters
<1>25. QED
  BY <1>1, <1>2, <1>3, <1>4, <1>5, <1>6, <1>7, <1>8, <1>9, <1>10, <1>11, <1>12,
     <1>13, <1>14, <1>15, <1>16, <1>17, <1>18, <1>19, <1>20, <1>21, <1>22, <1>23,
     <1>24 DEF Next, CallStep, Finished

-----------------------------------------------------------------------------
(* ContentSound, Landed and AckedKept.                                     *)

(* Where the event of a call is, seen after the step.                      *)
LEMMA LandedAfter ==
  ASSUME NEW r \in Stream, r = op'.stream, op'.event \in Taken(r)'
  PROVE  Landed'
  BY DEF Landed, Taken, Content, InBuffer

(* An acknowledged event stays taken while its stream's contents do.       *)
LEMMA AckedStay ==
  ASSUME TypeOK, AckedKept, spoiled \subseteq spoiled',
         status' # "crashed" => status # "crashed",
         \A r \in Stream \ spoiled' : Taken(r) \subseteq Taken(r)',
         \/ acked' = acked
         \/ /\ acked' = [acked EXCEPT ![op.stream] = @ \union {op.event}]
            /\ \A r \in Stream : r = op.stream => op.event \in Taken(r)'
  PROVE  AckedKept'
<1>1. SUFFICES ASSUME status' # "crashed", NEW r \in Stream \ spoiled'
               PROVE  acked'[r] \subseteq Taken(r)'
  BY DEF AckedKept
<1>2. acked[r] \subseteq Taken(r)'
  BY <1>1 DEF AckedKept
<1>3. CASE acked' = acked
  BY <1>2, <1>3
<1>4. CASE /\ acked' = [acked EXCEPT ![op.stream] = @ \union {op.event}]
           /\ \A q \in Stream : q = op.stream => op.event \in Taken(q)'
  <2>1. op.stream \in Stream /\ acked \in [Stream -> SUBSET Event]
    BY DEF TypeOK, Call
  <2>2. CASE r = op.stream
    BY <1>2, <1>4, <2>1, <2>2
  <2>3. CASE r # op.stream
    BY <1>2, <1>4, <2>1, <2>3
  <2>4. QED
    BY <2>2, <2>3
<1>5. QED
  BY <1>3, <1>4

(* A step that changes no content.                                         *)
LEMMA KeepStep ==
  ASSUME TypeOK, ContentSound, Landed, AckedKept, torn' = torn,
         Newest' \in Int, Newest <= Newest', Live' => Live,
         status' # "crashed" => status # "crashed", spoiled' = spoiled,
         \A r \in Stream, b \in Bucket : Content(r, b)' = Content(r, b),
         op'.stage \in {"flush", "sync"} =>
           op.stage \in {"flush", "sync"} /\ op'.event = op.event /\ op'.stream = op.stream,
         \/ acked' = acked
         \/ /\ op.stage = "sync"
            /\ acked' = [acked EXCEPT ![op.stream] = @ \union {op.event}]
  PROVE  ContentSound' /\ Landed' /\ AckedKept'
<1>1. ContentSound' /\ \A r \in Stream : Taken(r)' = Taken(r)
  BY ContentUnchanged
<1>2. op.stream \in Stream
  BY DEF TypeOK, Call
<1>3. op.stage \in {"flush", "sync"} =>
        \A r \in Stream : r = op.stream => op.event \in Taken(r)'
  BY <1>1 DEF Landed
<1>4. ASSUME op'.stage \in {"flush", "sync"} PROVE Landed'
  BY <1>2, <1>3, <1>4, LandedAfter
<1>5. ASSUME op'.stage \notin {"flush", "sync"} PROVE Landed'
  BY <1>5 DEF Landed
<1>6. AckedKept'
  BY <1>1, <1>3, AckedStay
<1>7. QED
  BY <1>1, <1>4, <1>5, <1>6

(* A step that adds a line, or half of one, to the file of its call.       *)
LEMMA GrowStep ==
  ASSUME TypeOK, Shape, ContentSound, AckedKept, op.stage = "put",
         op'.stage \notin {"ensure", "reopen", "put"}, offered' = offered,
         status' = status, spoiled' = spoiled, torn \subseteq torn',
         NEW g \in Seq(Half),
         WellFormed(g, torn'), Ordered(g), Whole(g, torn'), UpTo(g, op.event),
         \A i \in 1 .. Len(g) : g[i][1] = op.event \/
            \E j \in 1 .. Len(Content(op.stream, op.bucket)) :
               g[i] = Content(op.stream, op.bucket)[j],
         \A x : (\E i \in DOMAIN Content(op.stream, op.bucket) :
                     Content(op.stream, op.bucket)[i] = x)
                => \E i \in DOMAIN g : g[i] = x,
         \A r \in Stream, b \in Bucket : Content(r, b)' =
            IF r = op.stream /\ b = op.bucket THEN g ELSE Content(r, b),
         \/ /\ acked' = acked
            /\ op'.stage \notin {"flush", "sync"}
         \/ /\ \E i \in DOMAIN g : g[i] = <<op.event, 2>>
            /\ \/ acked' = acked /\ op'.event = op.event /\ op'.stream = op.stream
               \/ /\ acked' = [acked EXCEPT ![op.stream] = @ \union {op.event}]
                  /\ op'.stage \notin {"flush", "sync"}
  PROVE  ContentSound' /\ Landed' /\ AckedKept'
<1>1. ContentSound' /\ \A r \in Stream : Taken(r) \subseteq Taken(r)'
  BY ContentGrows
<1>2. op.stream \in Stream /\ op.bucket \in Bucket /\ op.event \in Event
  BY DEF TypeOK, Call
<1>3. (\E i \in DOMAIN g : g[i] = <<op.event, 2>>) =>
        \A r \in Stream : r = op.stream => op.event \in Taken(r)'
  <2>1. SUFFICES ASSUME \E i \in DOMAIN g : g[i] = <<op.event, 2>>,
                        NEW r \in Stream, r = op.stream
                 PROVE  op.event \in Taken(r)'
    OBVIOUS
  <2>2. \E b \in Bucket : Content(r, b)' = g
    BY <1>2, <2>1
  <2>3. \E b \in Bucket : \E i \in DOMAIN Content(r, b)' :
           Content(r, b)'[i] = <<op.event, 2>>
    BY <2>1, <2>2
  <2>4. QED
    BY <1>2, <2>3 DEF Taken
<1>4. ASSUME op'.stage \in {"flush", "sync"} PROVE Landed'
  BY <1>2, <1>3, <1>4, LandedAfter
<1>5. ASSUME op'.stage \notin {"flush", "sync"} PROVE Landed'
  BY <1>5 DEF Landed
<1>6. AckedKept'
  BY <1>1, <1>3, AckedStay
<1>7. QED
  BY <1>1, <1>4, <1>5, <1>6

(* WriteLine and WriteThrough: the line of the call joins its file.        *)
LEMMA LineStep ==
  ASSUME TypeOK, Shape, ContentSound, AckedKept, op.stage = "put",
         \/ Goto("flush") /\ UNCHANGED acked
         \/ ReturnOk,
         UNCHANGED << offered, status, spoiled, torn >>,
         \A r \in Stream, b \in Bucket : Content(r, b)' =
            IF r = op.stream /\ b = op.bucket
            THEN Content(r, b) \o Line(op.event) ELSE Content(r, b)
  PROVE  ContentSound' /\ Landed' /\ AckedKept'
<1> DEFINE h == Content(op.stream, op.bucket)
           g == h \o Line(op.event)
<1>1. /\ op.stream \in Stream /\ op.bucket \in Bucket /\ op.event \in Event
      /\ op.event = offered /\ Live /\ Newest = op.event - 1
  BY DEF TypeOK, Call, Shape, InCall, Live, Newest, Pending
<1>2. h \in Seq(Half) /\ WellFormed(h, torn) /\ Ordered(h) /\ Whole(h, torn)
      /\ UpTo(h, op.event - 1)
  BY <1>1, ContentType DEF ContentSound
<1>3. /\ g \in Seq(Half) /\ Len(g) = Len(h) + Len(Line(op.event))
      /\ \A i \in 1 .. Len(h) : g[i] = h[i]
      /\ \A i \in Len(h) + 1 .. Len(h) + Len(Line(op.event)) : g[i] = Line(op.event)[i - Len(h)]
      /\ Len(h) \in Nat
  BY <1>1, <1>2, LineType, Concat
<1>4. /\ WellFormed(g, torn) /\ Ordered(g) /\ Whole(g, torn) /\ UpTo(g, op.event)
      /\ \E i \in DOMAIN g : g[i] = <<op.event, 2>>
      /\ \A x : (\E i \in DOMAIN h : h[i] = x) => \E i \in DOMAIN g : g[i] = x
  BY <1>1, <1>2, AddLine
<1>5. Len(Line(op.event)) = 2 /\ \A i \in 1 .. 2 : Line(op.event)[i][1] = op.event
  BY DEF Line
<1> HIDE DEF g, h
<1>6. ASSUME NEW i \in 1 .. Len(g)
      PROVE  g[i][1] = op.event \/ \E j \in 1 .. Len(h) : g[i] = h[j]
  <2>1. CASE i <= Len(h)
    BY <1>3, <2>1
  <2>2. CASE i > Len(h)
    <3>1. i - Len(h) \in 1 .. 2 /\ g[i] = Line(op.event)[i - Len(h)]
      BY <1>3, <1>5, <2>2
    <3>2. QED
      BY <1>5, <3>1
  <2>3. QED
    BY <1>3, <2>1, <2>2
<1>7. \A r \in Stream, b \in Bucket : Content(r, b)' =
         IF r = op.stream /\ b = op.bucket THEN g ELSE Content(r, b)
  BY DEF g, h
<1>8. /\ op'.stage \notin {"ensure", "reopen", "put"}
      /\ \/ acked' = acked /\ op'.event = op.event /\ op'.stream = op.stream
         \/ /\ acked' = [acked EXCEPT ![op.stream] = @ \union {op.event}]
            /\ op'.stage \notin {"flush", "sync"}
  <2>1. op \in Call
    BY DEF TypeOK
  <2>2. QED
    BY <2>1, NoOpType DEF Goto, ReturnOk, Call
<1>9. torn \subseteq torn' /\ torn' = torn
  OBVIOUS
<1>10. QED
  BY <1>3, <1>4, <1>6, <1>7, <1>8, <1>9, GrowStep DEF h

(* WriteThroughFails, when it left half a line.                            *)
LEMMA TearStep ==
  ASSUME TypeOK, Shape, ContentSound, AckedKept, op.stage = "put", ReturnErr,
         UNCHANGED << offered, status, spoiled >>, torn' = torn \union {op.event},
         \A r \in Stream, b \in Bucket : Content(r, b)' =
            IF r = op.stream /\ b = op.bucket
            THEN Append(Content(r, b), <<op.event, 1>>) ELSE Content(r, b)
  PROVE  ContentSound' /\ Landed' /\ AckedKept'
<1> DEFINE h == Content(op.stream, op.bucket)
           g == Append(h, <<op.event, 1>>)
<1>1. /\ op.stream \in Stream /\ op.bucket \in Bucket /\ op.event \in Event
      /\ op.event = offered /\ Live /\ Newest = op.event - 1
  BY DEF TypeOK, Call, Shape, InCall, Live, Newest, Pending
<1>2. h \in Seq(Half) /\ WellFormed(h, torn) /\ Ordered(h) /\ Whole(h, torn)
      /\ UpTo(h, op.event - 1)
  BY <1>1, ContentType DEF ContentSound
<1>3. /\ g \in Seq(Half) /\ Len(g) = Len(h) + 1 /\ Len(h) \in Nat
      /\ \A i \in 1 .. Len(h) : g[i] = h[i]
      /\ g[Len(h) + 1] = <<op.event, 1>>
  <2>1. <<op.event, 1>> \in Half
    BY <1>1 DEF Half
  <2>2. QED
    BY <1>2, <2>1
<1>4. /\ WellFormed(g, torn') /\ Ordered(g) /\ Whole(g, torn') /\ UpTo(g, op.event)
      /\ \A x : (\E i \in DOMAIN h : h[i] = x) => \E i \in DOMAIN g : g[i] = x
  BY <1>1, <1>2, AddTear
<1> HIDE DEF g, h
<1>5. ASSUME NEW i \in 1 .. Len(g)
      PROVE  g[i][1] = op.event \/ \E j \in 1 .. Len(h) : g[i] = h[j]
  <2>1. i \in 1 .. Len(h) \/ i = Len(h) + 1
    BY <1>3
  <2>2. QED
    BY <1>3, <2>1
<1>6. \A r \in Stream, b \in Bucket : Content(r, b)' =
         IF r = op.stream /\ b = op.bucket THEN g ELSE Content(r, b)
  BY DEF g, h
<1>7. /\ op'.stage \notin {"ensure", "reopen", "put", "flush", "sync"}
      /\ acked' = acked /\ torn \subseteq torn'
  BY NoOpType DEF ReturnErr
<1>8. QED
  BY <1>3, <1>4, <1>5, <1>6, <1>7, GrowStep DEF h

(* A file holds a prefix of the content.                                   *)
LEMMA FileIsPrefix ==
  ASSUME TypeOK, NEW s \in Stream, NEW b \in Bucket
  PROVE  /\ Len(disk[s][b]) \in 0 .. Len(Content(s, b))
         /\ disk[s][b] = SubSeq(Content(s, b), 1, Len(disk[s][b]))
<1> DEFINE d == disk[s][b]
           u == InBuffer(s, b)
<1>1. d \in Seq(Half) /\ u \in Seq(Half)
  BY ContentType
<1> HIDE DEF d, u
<1>2. /\ Len(d \o u) = Len(d) + Len(u) /\ Len(d) \in Nat /\ Len(u) \in Nat
      /\ d \o u \in Seq(Half) /\ \A i \in 1 .. Len(d) : (d \o u)[i] = d[i]
  BY <1>1, Concat
<1>3. d = SubSeq(d \o u, 1, Len(d))
  <2>1. /\ SubSeq(d \o u, 1, Len(d)) \in Seq(Half)
        /\ Len(SubSeq(d \o u, 1, Len(d))) = Len(d)
        /\ \A i \in 1 .. Len(d) : SubSeq(d \o u, 1, Len(d))[i] = d[i]
    BY <1>2
  <2>2. QED
    BY <1>1, <2>1, SeqEqual
<1>4. QED
  BY <1>2, <1>3 DEF d, u, Content

(* Contents that differ on no file.                                        *)
LEMMA SameContent ==
  ASSUME UNCHANGED << writer, disk >>
  PROVE  \A r \in Stream, b \in Bucket : Content(r, b)' = Content(r, b)
  BY DEF Content, InBuffer

(* A line written to the buffer, or past it to the file, is added to what  *)
(* its stream's current file holds or is to hold.                          *)
LEMMA LineContent ==
  ASSUME TypeOK, Shape, WriteLine \/ WriteThrough
  PROVE  /\ op.stage = "put" /\ op.event \in Event
         /\ writer[op.stream].bucket = op.bucket
         /\ \A r \in Stream, b \in Bucket : Content(r, b)' =
              IF r = op.stream /\ b = op.bucket
              THEN Content(r, b) \o Line(op.event) ELSE Content(r, b)
<1>00. /\ op \in Call /\ op.stream \in Stream /\ op.bucket \in Bucket
       /\ writer \in [Stream -> Writer]
       /\ disk \in [Stream -> [Bucket -> Seq(Half)]]
  BY DEF TypeOK, Call
<1>1. CASE WriteLine
  <2>1. /\ writer[op.stream].open /\ writer[op.stream].bucket = op.bucket
        /\ op.stage = "put" /\ op.event \in Event
    BY <1>1 DEF WriteLine, At, Shape, TypeOK, Call
  <2>2. writer' = [writer EXCEPT ![op.stream].buf = writer[op.stream].buf \o Line(op.event)]
    BY <1>1 DEF WriteLine
  <2>3. \A r \in Stream, b \in Bucket : InBuffer(r, b)' =
           IF r = op.stream /\ b = op.bucket
           THEN InBuffer(r, b) \o Line(op.event) ELSE InBuffer(r, b)
    BY <1>00, <2>1, <2>2 DEF InBuffer, Writer
  <2>4. disk' = disk
    BY <1>1 DEF WriteLine
  <2>5. \A r \in Stream, b \in Bucket :
           (disk[r][b] \o InBuffer(r, b)) \o Line(op.event)
             = disk[r][b] \o (InBuffer(r, b) \o Line(op.event))
    <3>1. SUFFICES ASSUME NEW r \in Stream, NEW b \in Bucket
                   PROVE  (disk[r][b] \o InBuffer(r, b)) \o Line(op.event)
                            = disk[r][b] \o (InBuffer(r, b) \o Line(op.event))
      OBVIOUS
    <3>2. /\ disk[r][b] \in Seq(Half) /\ InBuffer(r, b) \in Seq(Half)
          /\ Line(op.event) \in Seq(Half)
      BY <2>1, ContentType, LineType
    <3>3. \A d, u, l \in Seq(Half) : (d \o u) \o l = d \o (u \o l)
      BY ConcatAssociative, SMTT(30)
    <3>4. QED
      BY <3>2, <3>3, Zenon
  <2>6. \A r \in Stream, b \in Bucket : Content(r, b)' =
           IF r = op.stream /\ b = op.bucket
           THEN Content(r, b) \o Line(op.event) ELSE Content(r, b)
    BY <2>3, <2>4, <2>5 DEF Content
  <2>7. QED
    BY <2>1, <2>6
<1>2. CASE WriteThrough
  <2>1. /\ writer[op.stream].open /\ writer[op.stream].bucket = op.bucket
        /\ op.stage = "put" /\ op.event \in Event
        /\ writer[op.stream].buf = << >>
    <3>1. writer[op.stream].buf \in Seq(Half) /\ Len(writer[op.stream].buf) = 0
      BY <1>00, <1>2, BufferedType DEF WriteThrough, Buffered
    <3>2. QED
      BY <1>2, <3>1, EmptySeq DEF WriteThrough, At, Shape, TypeOK, Call
  <2>2. /\ disk' = [disk EXCEPT ![op.stream][op.bucket] =
                                  disk[op.stream][op.bucket] \o Line(op.event)]
        /\ writer' = writer
    BY <1>2, <2>1 DEF WriteThrough
  <2>3. \A r \in Stream, b \in Bucket : disk'[r][b] =
           IF r = op.stream /\ b = op.bucket
           THEN disk[r][b] \o Line(op.event) ELSE disk[r][b]
    BY <1>00, <2>2
  <2>4. \A r \in Stream, b \in Bucket : InBuffer(r, b)' = InBuffer(r, b)
    BY <2>2 DEF InBuffer
  <2>5. \A r \in Stream, b \in Bucket :
           r = op.stream /\ b = op.bucket => InBuffer(r, b) = << >>
    BY <2>1 DEF InBuffer
  <2>6. \A r \in Stream, b \in Bucket :
           /\ (disk[r][b] \o Line(op.event)) \o << >> = disk[r][b] \o Line(op.event)
           /\ disk[r][b] \o << >> = disk[r][b]
    <3>1. SUFFICES ASSUME NEW r \in Stream, NEW b \in Bucket
                   PROVE  /\ (disk[r][b] \o Line(op.event)) \o << >>
                               = disk[r][b] \o Line(op.event)
                          /\ disk[r][b] \o << >> = disk[r][b]
      OBVIOUS
    <3>2. disk[r][b] \in Seq(Half) /\ disk[r][b] \o Line(op.event) \in Seq(Half)
      BY <1>00, <2>1, LineType, Concat
    <3>3. QED
      BY <3>2, ConcatEmptySeq
  <2>7. \A r \in Stream, b \in Bucket : Content(r, b)' =
           IF r = op.stream /\ b = op.bucket
           THEN Content(r, b) \o Line(op.event) ELSE Content(r, b)
    <3>1. SUFFICES ASSUME NEW r \in Stream, NEW b \in Bucket
                   PROVE  Content(r, b)' =
                            IF r = op.stream /\ b = op.bucket
                            THEN Content(r, b) \o Line(op.event) ELSE Content(r, b)
      OBVIOUS
    <3>2. Content(r, b)' = disk'[r][b] \o InBuffer(r, b)
      BY <2>4 DEF Content
    <3>3. CASE r = op.stream /\ b = op.bucket
      <4>1. InBuffer(r, b) = << >> /\ disk'[r][b] = disk[r][b] \o Line(op.event)
        BY <2>3, <2>5, <3>3
      <4>2. Content(r, b) = disk[r][b]
        BY <2>6, <4>1 DEF Content
      <4>3. Content(r, b)' = disk[r][b] \o Line(op.event)
        BY <2>6, <3>2, <4>1
      <4>4. QED
        BY <3>3, <4>2, <4>3
    <3>4. CASE ~(r = op.stream /\ b = op.bucket)
      BY <2>3, <3>2, <3>4 DEF Content
    <3>5. QED
      BY <3>3, <3>4
  <2>8. QED
    BY <2>1, <2>7
<1>3. QED
  BY <1>1, <1>2

(* Half a line written past the buffer is added to what the file holds.    *)
LEMMA TearContent ==
  ASSUME TypeOK, Shape, op.stage = "put", Buffered(op.stream) = 0, writer' = writer,
         disk' = [disk EXCEPT ![op.stream][writer[op.stream].bucket] =
                                Append(@, <<op.event, 1>>)]
  PROVE  \A r \in Stream, b \in Bucket : Content(r, b)' =
            IF r = op.stream /\ b = op.bucket
            THEN Append(Content(r, b), <<op.event, 1>>) ELSE Content(r, b)
<1>00. /\ op \in Call /\ op.stream \in Stream /\ op.bucket \in Bucket
       /\ writer \in [Stream -> Writer]
       /\ disk \in [Stream -> [Bucket -> Seq(Half)]]
  BY DEF TypeOK, Call
<1>01. /\ writer[op.stream].open /\ writer[op.stream].bucket = op.bucket
      /\ op.event \in Event /\ writer[op.stream].buf = << >>
  <2>1. writer[op.stream].buf \in Seq(Half) /\ Len(writer[op.stream].buf) = 0
    BY <1>00, BufferedType DEF Buffered
  <2>2. QED
    BY <2>1, EmptySeq DEF Shape, TypeOK, Call
<1>1. \A r \in Stream, b \in Bucket : disk'[r][b] =
         IF r = op.stream /\ b = op.bucket
         THEN Append(disk[r][b], <<op.event, 1>>) ELSE disk[r][b]
  BY <1>00, <1>01
<1>2. \A r \in Stream, b \in Bucket : InBuffer(r, b)' = InBuffer(r, b)
  BY DEF InBuffer
<1>3. \A r \in Stream, b \in Bucket :
         r = op.stream /\ b = op.bucket => InBuffer(r, b) = << >>
  BY <1>01 DEF InBuffer
<1>4. <<op.event, 1>> \in Half
  BY <1>01 DEF Half
<1>5. ASSUME NEW d \in Seq(Half)
      PROVE  /\ Append(d, <<op.event, 1>>) \o << >> = Append(d, <<op.event, 1>>)
             /\ d \o << >> = d
  <2>1. Append(d, <<op.event, 1>>) \in Seq(Half)
    BY <1>4, AppendProperties
  <2>2. QED
    BY <2>1, ConcatEmptySeq
<1>6. \A r \in Stream, b \in Bucket : Content(r, b)' =
         IF r = op.stream /\ b = op.bucket
         THEN Append(Content(r, b), <<op.event, 1>>) ELSE Content(r, b)
  <2>1. SUFFICES ASSUME NEW r \in Stream, NEW b \in Bucket
                 PROVE  Content(r, b)' =
                          IF r = op.stream /\ b = op.bucket
                          THEN Append(Content(r, b), <<op.event, 1>>)
                          ELSE Content(r, b)
    OBVIOUS
  <2>2. Content(r, b)' = disk'[r][b] \o InBuffer(r, b) /\ disk[r][b] \in Seq(Half)
    BY <1>00, <1>2 DEF Content
  <2>3. CASE r = op.stream /\ b = op.bucket
    <3>1. /\ InBuffer(r, b) = << >>
          /\ disk'[r][b] = Append(disk[r][b], <<op.event, 1>>)
      BY <1>1, <1>3, <2>3
    <3>2. Content(r, b) = disk[r][b]
      BY <1>5, <2>2, <3>1 DEF Content
    <3>3. Content(r, b)' = Append(disk[r][b], <<op.event, 1>>)
      BY <1>5, <2>2, <3>1
    <3>4. QED
      BY <2>3, <3>2, <3>3
  <2>4. CASE ~(r = op.stream /\ b = op.bucket)
    <3>1. disk'[r][b] = disk[r][b]
      BY <1>1, <2>4, Zenon
    <3>2. Content(r, b)' = Content(r, b)
      BY <1>2, <3>1 DEF Content
    <3>3. QED
      BY <2>4, <3>2, Zenon
  <2>5. QED
    BY <2>3, <2>4
<1>7. QED
  BY <1>6

(* Drop leaves a prefix of what a writer's file was to hold, the whole of  *)
(* it unless the stream is spoiled.                                        *)
LEMMA DropContent ==
  ASSUME TypeOK, Shape, NEW s \in Stream, DropOne(s)
  PROVE  \E c \in Bucket :
           /\ c = writer[s].bucket
           /\ \A r \in Stream, b \in Bucket :
                r # s \/ b # c => Content(r, b)' = Content(r, b)
           /\ \E n \in 0 .. Len(Content(s, c)) :
                /\ Content(s, c)' = SubSeq(Content(s, c), 1, n)
                /\ spoiled' = IF n < Len(Content(s, c)) THEN spoiled \union {s} ELSE spoiled
<1>00. /\ writer \in [Stream -> Writer]
       /\ disk \in [Stream -> [Bucket -> Seq(Half)]]
  BY DEF TypeOK
<1>1. PICK c \in Bucket, u \in Seq(Half) : c = writer[s].bucket /\ u = writer[s].buf
  BY BufferedType
<1>2. PICK k \in 0 .. Len(u) :
        /\ disk' = [disk EXCEPT ![s][c] = @ \o SubSeq(u, 1, k)]
        /\ spoiled' = IF k < Len(u) THEN spoiled \union {s} ELSE spoiled
  BY <1>1 DEF DropOne, Buffered
<1>3. /\ writer[s].open /\ disk[s][c] \in Seq(Half)
      /\ writer' = [writer EXCEPT ![s] = Closed]
      /\ Len(disk[s][c]) \in Nat /\ Len(u) \in Nat
  BY <1>1, BufferedType DEF DropOne, Shape, OpenWriters
<1>4. /\ disk' = [disk EXCEPT ![s][c] = disk[s][c] \o SubSeq(u, 1, k)]
      /\ SubSeq(u, 1, k) \in Seq(Half)
  <2>1. SubSeq(u, 1, k) \in Seq(Half)
    BY CutType
  <2>2. disk' = [disk EXCEPT ![s][c] = disk[s][c] \o SubSeq(u, 1, k)]
    BY <1>2
  <2>3. QED
    BY <2>1, <2>2
<1>5. ASSUME NEW r \in Stream, NEW b \in Bucket, r # s \/ b # c
      PROVE  Content(r, b)' = Content(r, b)
  <2>1. disk'[r][b] = disk[r][b]
    BY <1>00, <1>3, <1>4, <1>5
  <2>2. InBuffer(r, b)' = InBuffer(r, b)
    BY <1>00, <1>1, <1>3, <1>5 DEF InBuffer, Closed
  <2>3. QED
    BY <2>1, <2>2 DEF Content
<1>6. /\ Content(s, c) = disk[s][c] \o u
      /\ Content(s, c)' = disk[s][c] \o SubSeq(u, 1, k)
  <2>1. disk'[s][c] = disk[s][c] \o SubSeq(u, 1, k)
    BY <1>00, <1>3, <1>4
  <2>2. InBuffer(s, c) = u /\ InBuffer(s, c)' = << >>
    BY <1>00, <1>1, <1>3 DEF InBuffer, Closed
  <2>3. (disk[s][c] \o SubSeq(u, 1, k)) \o << >> = disk[s][c] \o SubSeq(u, 1, k)
    BY <1>3, <1>4, Concat, ConcatEmptySeq
  <2>4. QED
    BY <2>1, <2>2, <2>3 DEF Content
<1>7. /\ Content(s, c)' = SubSeq(Content(s, c), 1, Len(disk[s][c]) + k)
      /\ Len(disk[s][c]) + k \in 0 .. Len(Content(s, c))
  <2>1. Len(disk[s][c] \o u) = Len(disk[s][c]) + Len(u)
    BY <1>3, Concat
  <2>2. disk[s][c] \o SubSeq(u, 1, k) = SubSeq(disk[s][c] \o u, 1, Len(disk[s][c]) + k)
    BY <1>3, PrefixOfConcat
  <2>3. \A m, n \in Nat : \A i \in 0 .. n : m + i \in 0 .. m + n
    OBVIOUS
  <2>4. Len(disk[s][c]) + k \in 0 .. Len(disk[s][c]) + Len(u)
    BY <1>3, <2>3
  <2>5. QED
    BY <1>6, <2>1, <2>2, <2>4
<1>8. Len(Content(s, c)) = Len(disk[s][c]) + Len(u) /\ k \in Nat
  BY <1>3, <1>6, Concat
<1>9. k < Len(u) <=> Len(disk[s][c]) + k < Len(Content(s, c))
  BY <1>3, <1>8
<1>10. QED
  BY <1>1, <1>2, <1>5, <1>7, <1>9

(* Every step of the store preserves the inductive invariant.              *)
LEMMA InvariantStep ==
  ASSUME IInv, [Next]_vars
  PROVE  IInv'
<1> USE DEF IInv
<1>0. TypeOK' /\ Shape'
  BY TypeStep, ShapeStep
<1>00. /\ op \in Call /\ op.stream \in Stream /\ op.bucket \in Bucket
       /\ offered \in Nat /\ Newest \in Int
       /\ writer \in [Stream -> Writer]
       /\ disk \in [Stream -> [Bucket -> Seq(Half)]]
  BY DEF TypeOK, Call, Newest
<1> SUFFICES ContentSound' /\ Landed' /\ AckedKept'
  BY <1>0
<1>1. ASSUME NEW s \in Stream, NEW big \in BOOLEAN, BeginWrite(s, big)
      PROVE  ContentSound' /\ Landed' /\ AckedKept'
  <2>1. Newest' = Newest
    BY <1>00, <1>1 DEF BeginWrite, At, Newest, Pending
  <2>2. QED
    BY <1>00, <1>1, <2>1, KeepStep, SameContent DEF BeginWrite, At, Live
<1>2. CASE OpenWriter
  <2>1. \A r \in Stream, b \in Bucket : Content(r, b)' = Content(r, b)
    <3>1. \A r \in Stream, b \in Bucket : InBuffer(r, b)' = InBuffer(r, b)
      BY <1>00, <1>2 DEF OpenWriter, InBuffer, Writer
    <3>2. QED
      BY <1>2, <3>1 DEF OpenWriter, Content
  <2>2. Newest' = Newest
    BY <1>00, <1>2 DEF OpenWriter, At, Goto, Newest, Pending, Call
  <2>3. QED
    BY <1>00, <1>2, <2>1, <2>2, KeepStep DEF OpenWriter, At, Goto, Live, Call
<1>3. CASE SameBucket
  <2>1. Newest' = Newest
    BY <1>00, <1>3 DEF SameBucket, At, Goto, Newest, Pending, Call
  <2>2. QED
    BY <1>00, <1>3, <2>1, KeepStep, SameContent DEF SameBucket, At, Goto, Live, Call
<1>4. CASE RotateFlush
  <2>1. \A r \in Stream, b \in Bucket : Content(r, b)' = Content(r, b)
    BY <1>00, <1>4, BufferedType, WriteOutKeeps DEF RotateFlush, Rotating, Drain
  <2>2. Newest' = Newest
    BY <1>00, <1>4 DEF RotateFlush, At, Goto, Newest, Pending, Call
  <2>3. QED
    BY <1>00, <1>4, <2>1, <2>2, KeepStep DEF RotateFlush, At, Goto, Live, Call
<1>5. CASE RotateReopen
  <2>1. \A r \in Stream, b \in Bucket : Content(r, b)' = Content(r, b)
    <3>1. writer[op.stream].buf = << >>
      BY <1>5 DEF RotateReopen, At, Shape
    <3>2. \A r \in Stream, b \in Bucket : InBuffer(r, b)' = InBuffer(r, b)
      BY <1>00, <1>5, <3>1 DEF RotateReopen, InBuffer, Writer
    <3>3. QED
      BY <1>5, <3>2 DEF RotateReopen, Content
  <2>2. Newest' = Newest
    BY <1>00, <1>5 DEF RotateReopen, At, Goto, Newest, Pending, Call
  <2>3. QED
    BY <1>00, <1>5, <2>1, <2>2, KeepStep DEF RotateReopen, At, Goto, Live, Call
<1>6. CASE WriteLine
  BY <1>6, LineContent, LineStep DEF WriteLine
<1>7. CASE MakeRoom
  <2>1. writer[op.stream].open
    BY <1>7 DEF MakeRoom, At, Shape
  <2>2. \A r \in Stream, b \in Bucket : Content(r, b)' = Content(r, b)
    BY <1>00, <1>7, <2>1, BufferedType, WriteOutKeeps DEF MakeRoom, Drain
  <2>3. Newest' = Newest
    BY <1>7 DEF MakeRoom, Newest, Pending
  <2>4. QED
    BY <1>00, <1>7, <2>2, <2>3, KeepStep DEF MakeRoom, At, Live
<1>8. CASE WriteThrough
  BY <1>8, LineContent, LineStep DEF WriteThrough
<1>9. CASE FlushLine
  <2>1. writer[op.stream].open
    BY <1>9 DEF FlushLine, At, Shape
  <2>2. \A r \in Stream, b \in Bucket : Content(r, b)' = Content(r, b)
    BY <1>00, <1>9, <2>1, BufferedType, WriteOutKeeps DEF FlushLine, Drain
  <2>3. Newest' = Newest
    BY <1>00, <1>9 DEF FlushLine, At, Goto, Newest, Pending, Call
  <2>4. QED
    BY <1>00, <1>9, <2>2, <2>3, KeepStep DEF FlushLine, At, Goto, Live, Call
<1>10. CASE SyncLine
  <2>1. Newest' = Newest
    BY <1>00, <1>10, NoOpType DEF SyncLine, ReturnOk, At, Newest, Pending
  <2>2. QED
    BY <1>00, <1>10, <2>1, NoOpType, KeepStep, SameContent DEF SyncLine, ReturnOk, At, Live
<1>11. CASE OpenOrSyncFails
  <2>1. Newest' = offered /\ Newest <= Newest'
    BY <1>00, <1>11, NoOpType DEF OpenOrSyncFails, ReturnErr, At, Newest, Pending
  <2>2. QED
    BY <1>00, <1>11, <2>1, NoOpType, KeepStep, SameContent
       DEF OpenOrSyncFails, ReturnErr, At, Live
<1>12. CASE FlushFails
  <2>1. writer[op.stream].open
    BY <1>12 DEF FlushFails, FlushDue, Rotating, At, Shape
  <2>2. PICK k \in 0 .. Buffered(op.stream) : WriteOut(op.stream, k)
    BY <1>00, <1>12, BufferedType DEF FlushFails
  <2>3. \A r \in Stream, b \in Bucket : Content(r, b)' = Content(r, b)
    BY <1>00, <2>1, <2>2, WriteOutKeeps
  <2>4. Newest' = offered /\ Newest <= Newest'
    BY <1>00, <1>12, NoOpType DEF FlushFails, ReturnErr, Newest, Pending
  <2>5. QED
    BY <1>00, <1>12, <2>3, <2>4, NoOpType, KeepStep DEF FlushFails, ReturnErr, Live
<1>13. CASE WriteThroughFails
  <2>1. /\ writer[op.stream].open /\ writer[op.stream].bucket = op.bucket
        /\ op.stage = "put" /\ op.event \in Event
        /\ writer[op.stream].buf = << >>
    <3>1. writer[op.stream].buf \in Seq(Half) /\ Len(writer[op.stream].buf) = 0
      BY <1>00, <1>13, BufferedType DEF WriteThroughFails, Buffered
    <3>2. QED
      BY <1>13, <3>1, EmptySeq DEF WriteThroughFails, At, Shape, TypeOK, Call
  <2>2. CASE UNCHANGED << disk, torn >>
    <3>1. Newest' = offered /\ Newest <= Newest'
      BY SMTT(60), <1>00, <1>13, NoOpType DEF WriteThroughFails, ReturnErr, Newest, Pending
    <3>2. QED
      BY <1>00, <1>13, <2>2, <3>1, NoOpType, KeepStep, SameContent
         DEF WriteThroughFails, ReturnErr, Live
  <2>3. CASE /\ disk' = [disk EXCEPT ![op.stream][writer[op.stream].bucket] =
                                       Append(@, <<op.event, 1>>)]
             /\ torn' = torn \union {op.event}
    BY <1>13, <2>1, <2>3, TearContent, TearStep DEF WriteThroughFails, At
  <2>4. QED
    BY <1>13, <2>2, <2>3 DEF WriteThroughFails
<1>14. ASSUME NEW s \in Stream, FlushOne(s) PROVE ContentSound' /\ Landed' /\ AckedKept'
  <2>1. writer[s].open
    BY <1>14 DEF FlushOne, Shape, OpenWriters
  <2>2. \A r \in Stream, b \in Bucket : Content(r, b)' = Content(r, b)
    BY <1>14, <2>1, BufferedType, WriteOutKeeps DEF FlushOne, Drain
  <2>3. Newest' = Newest
    BY <1>14 DEF FlushOne, Newest, Pending
  <2>4. QED
    BY <1>00, <1>14, <2>2, <2>3, KeepStep DEF FlushOne, Live
<1>15. ASSUME NEW s \in Stream, FlushOneFails(s)
       PROVE  ContentSound' /\ Landed' /\ AckedKept'
  <2>1. writer[s].open
    BY <1>15 DEF FlushOneFails, Shape, OpenWriters
  <2>2. PICK k \in 0 .. Buffered(s) : WriteOut(s, k)
    BY <1>15 DEF FlushOneFails
  <2>3. \A r \in Stream, b \in Bucket : Content(r, b)' = Content(r, b)
    BY <2>1, <2>2, WriteOutKeeps
  <2>4. Newest' = offered /\ Newest <= Newest'
    BY <1>00, <1>15, NoOpType DEF FlushOneFails, FlushAllReturns, Newest, Pending
  <2>5. QED
    BY <1>00, <1>15, <2>3, <2>4, NoOpType, KeepStep
       DEF FlushOneFails, FlushAllReturns, Live
<1>16. ASSUME NEW s \in Stream, DropOne(s)
       PROVE  ContentSound' /\ Landed' /\ AckedKept'
  <2>1. PICK c \in Bucket :
          /\ c = writer[s].bucket
          /\ \A r \in Stream, b \in Bucket :
               r # s \/ b # c => Content(r, b)' = Content(r, b)
          /\ \E n \in 0 .. Len(Content(s, c)) :
               /\ Content(s, c)' = SubSeq(Content(s, c), 1, n)
               /\ spoiled' = IF n < Len(Content(s, c)) THEN spoiled \union {s} ELSE spoiled
    BY <1>16, DropContent
  <2>2. PICK n \in 0 .. Len(Content(s, c)) :
          /\ Content(s, c)' = SubSeq(Content(s, c), 1, n)
          /\ spoiled' = IF n < Len(Content(s, c)) THEN spoiled \union {s} ELSE spoiled
    BY <2>1
  <2>3. \A r \in Stream, b \in Bucket : Content(r, b) \in Seq(Half)
    BY ContentType
  <2>4. \A r \in Stream, b \in Bucket : \E m \in 0 .. Len(Content(r, b)) :
           Content(r, b)' = SubSeq(Content(r, b), 1, m)
    <3>1. ASSUME NEW r \in Stream, NEW b \in Bucket, r # s \/ b # c
          PROVE  \E m \in 0 .. Len(Content(r, b)) :
                    Content(r, b)' = SubSeq(Content(r, b), 1, m)
      <4>1. /\ SubSeq(Content(r, b), 1, Len(Content(r, b))) = Content(r, b)
            /\ Len(Content(r, b)) \in 0 .. Len(Content(r, b))
        BY <2>3, LenProperties, SubSeqFull
      <4>2. QED
        BY <2>1, <3>1, <4>1
    <3>2. ASSUME NEW r \in Stream, NEW b \in Bucket, r = s /\ b = c
          PROVE  \E m \in 0 .. Len(Content(r, b)) :
                    Content(r, b)' = SubSeq(Content(r, b), 1, m)
      BY <2>2, <3>2
    <3>3. QED
      BY <3>1, <3>2
  <2>5. Newest' = Newest /\ ~Live' /\ torn' = torn /\ op' = op /\ acked' = acked
    BY <1>16 DEF DropOne, Newest, Pending, Live
  <2>6. ContentSound'
    BY <1>00, <2>4, <2>5, ContentCut
  <2>7. Landed'
    BY <1>16, <2>5 DEF DropOne, Landed, Shape, InCall
  <2>8. \A r \in Stream \ spoiled' : Taken(r) \subseteq Taken(r)'
    <3>1. SUFFICES ASSUME NEW r \in Stream \ spoiled' PROVE Taken(r) \subseteq Taken(r)'
      OBVIOUS
    <3>2. \A b \in Bucket : Content(r, b)' = Content(r, b)
      <4>1. CASE r # s
        BY <2>1, <4>1
      <4>2. CASE r = s /\ n = Len(Content(s, c))
        <5>1. Content(s, c)' = Content(s, c)
          BY <2>2, <2>3, <4>2, SubSeqFull
        <5>2. QED
          BY <2>1, <4>2, <5>1
      <4>3. CASE r = s /\ n < Len(Content(s, c))
        BY <2>2, <4>3
      <4>4. QED
        BY <2>3, <4>1, <4>2, <4>3
    <3>3. QED
      BY <3>2 DEF Taken
  <2>9. spoiled \subseteq spoiled' /\ (status' # "crashed" => status # "crashed")
    BY <1>16, <2>2 DEF DropOne
  <2>10. AckedKept'
    BY <2>5, <2>8, <2>9, AckedStay
  <2>11. QED
    BY <2>6, <2>7, <2>10
<1>17. CASE FlushAllDone
  <2>1. Newest' = offered /\ Newest <= Newest'
    BY <1>00, <1>17, NoOpType DEF FlushAllDone, FlushAllReturns, Newest, Pending
  <2>2. QED
    BY <1>00, <1>17, <2>1, NoOpType, KeepStep, SameContent
       DEF FlushAllDone, FlushAllReturns, Live
<1>18. CASE DropDone
  <2>1. Newest' = Newest
    BY <1>18 DEF DropDone, Newest, Pending
  <2>2. QED
    BY <1>00, <1>18, <2>1, KeepStep, SameContent DEF DropDone, Live
<1>19. CASE BeginFlushAll
  <2>1. Newest' = Newest
    BY <1>00, <1>19, NoOpType DEF BeginFlushAll, At, Newest, Pending
  <2>2. QED
    BY <1>00, <1>19, <2>1, NoOpType, KeepStep, SameContent DEF BeginFlushAll, Live
<1>20. CASE BeginDrop
  <2>1. Newest' = Newest
    BY <1>20 DEF BeginDrop, Newest, Pending
  <2>2. QED
    BY <1>00, <1>20, <2>1, KeepStep, SameContent DEF BeginDrop, Live
<1>21. CASE AdvanceBucket
  <2>1. Newest' = Newest
    BY <1>21 DEF AdvanceBucket, Newest, Pending
  <2>2. QED
    BY <1>00, <1>21, <2>1, KeepStep, SameContent DEF AdvanceBucket, Live
<1>22. CASE Crash
  <2>1. \A r \in Stream, b \in Bucket : \E n \in 0 .. Len(Content(r, b)) :
           Content(r, b)' = SubSeq(Content(r, b), 1, n)
    <3>1. SUFFICES ASSUME NEW r \in Stream, NEW b \in Bucket
                   PROVE  \E n \in 0 .. Len(Content(r, b)) :
                             Content(r, b)' = SubSeq(Content(r, b), 1, n)
      OBVIOUS
    <3>2. InBuffer(r, b)' = << >> /\ disk' = disk
      BY <1>22 DEF Crash, InBuffer, Closed
    <3>3. disk[r][b] \o << >> = disk[r][b]
      BY ContentType, ConcatEmptySeq
    <3>4. Content(r, b)' = disk[r][b]
      BY <3>2, <3>3 DEF Content
    <3>5. QED
      BY <3>4, FileIsPrefix
  <2>2. /\ Newest' = offered /\ Newest <= Newest' /\ ~Live' /\ torn' = torn
        /\ op'.stage = "idle" /\ status' = "crashed"
    BY <1>00, <1>22, NoOpType DEF Crash, Newest, Pending, Live
  <2>3. ContentSound'
    BY <1>00, <2>1, <2>2, ContentCut
  <2>4. QED
    BY <2>2, <2>3 DEF Landed, AckedKept
<1>23. ASSUME NEW s \in Stream, NEW c \in Bucket, LoseUnsynced(s, c)
       PROVE  ContentSound' /\ Landed' /\ AckedKept'
  <2>1. /\ status = "crashed" /\ status' = "crashed" /\ writer' = writer
        /\ torn' = torn /\ op' = op /\ offered' = offered
    BY <1>23 DEF LoseUnsynced
  <2>2. \A r \in Stream, b \in Bucket : InBuffer(r, b) = << >> /\ InBuffer(r, b)' = << >>
    BY <2>1 DEF InBuffer, Shape, OpenWriters
  <2>3. \A r \in Stream, b \in Bucket : disk[r][b] \o << >> = disk[r][b]
    BY ContentType, ConcatEmptySeq
  <2>4. \A r \in Stream, b \in Bucket : disk'[r][b] \o << >> = disk'[r][b]
    <3>1. \A r \in Stream, b \in Bucket : disk'[r][b] \in Seq(Half)
      BY <1>0 DEF TypeOK
    <3>2. QED
      BY <3>1, ConcatEmptySeq
  <2>5. \A r \in Stream, b \in Bucket :
           Content(r, b) = disk[r][b] /\ Content(r, b)' = disk'[r][b]
    BY <2>2, <2>3, <2>4 DEF Content
  <2>6. \A r \in Stream, b \in Bucket : \E n \in 0 .. Len(disk[r][b]) :
           disk'[r][b] = SubSeq(disk[r][b], 1, n)
    <3>1. SUFFICES ASSUME NEW r \in Stream, NEW b \in Bucket
                   PROVE  \E n \in 0 .. Len(disk[r][b]) :
                             disk'[r][b] = SubSeq(disk[r][b], 1, n)
      OBVIOUS
    <3>2. disk[r][b] \in Seq(Half) /\ disk[s][c] \in Seq(Half) /\ synced[s][c] \in Nat
      BY DEF TypeOK
    <3>3. PICK k \in synced[s][c] .. Len(disk[s][c]) - 1 :
            disk' = [disk EXCEPT ![s][c] = SubSeq(@, 1, k)]
      BY <1>23 DEF LoseUnsynced
    <3>4. k \in 0 .. Len(disk[s][c])
      BY <3>2
    <3>5. CASE r = s /\ b = c
      BY <1>00, <3>3, <3>4, <3>5
    <3>6. CASE r # s \/ b # c
      <4>1. disk'[r][b] = disk[r][b]
        BY <1>00, <3>3, <3>6
      <4>2. /\ SubSeq(disk[r][b], 1, Len(disk[r][b])) = disk[r][b]
            /\ Len(disk[r][b]) \in 0 .. Len(disk[r][b])
        BY <3>2, LenProperties, SubSeqFull
      <4>3. QED
        BY <4>1, <4>2
    <3>7. QED
      BY <3>5, <3>6
  <2>7. Newest' = Newest /\ ~Live'
    BY <2>1 DEF Newest, Pending, Live
  <2>8. ContentSound'
    <3>1. \A r \in Stream, b \in Bucket : \E n \in 0 .. Len(Content(r, b)) :
             Content(r, b)' = SubSeq(Content(r, b), 1, n)
      BY <2>5, <2>6
    <3>2. QED
      BY <1>00, <2>1, <2>7, <3>1, ContentCut
  <2>9. Landed'
    BY <2>1 DEF Landed, Shape, InCall
  <2>10. QED
    BY <2>1, <2>8, <2>9 DEF AckedKept
<1>24. CASE UNCHANGED vars
  <2>1. Newest' = Newest
    BY <1>24 DEF vars, Newest, Pending
  <2>2. QED
    BY <1>00, <1>24, <2>1, KeepStep, SameContent DEF vars, Live
<1>25. QED
  BY <1>1, <1>2, <1>3, <1>4, <1>5, <1>6, <1>7, <1>8, <1>9, <1>10, <1>11, <1>12,
     <1>13, <1>14, <1>15, <1>16, <1>17, <1>18, <1>19, <1>20, <1>21, <1>22, <1>23,
     <1>24 DEF Next, CallStep, Finished

-----------------------------------------------------------------------------
(* The theorems.                                                           *)

LEMMA InvariantInit == Init => IInv
<1> SUFFICES ASSUME Init PROVE IInv
  OBVIOUS
<1>1. TypeOK
  <2>1. 0 \in Bucket /\ Closed \in Writer
    BY StorageAssumption DEF Closed, Writer, Bucket
  <2>2. << >> \in Seq(Half) /\ 0 \in Nat /\ 0 \in 0 .. MaxEvents
    BY StorageAssumption
  <2>3. QED
    BY <2>1, <2>2, NoOpIsTyped DEF Init, TypeOK
<1>2. Shape
  BY NoOpType DEF Init, Closed, Shape, InCall, Live, OpenWriters
<1>3. \A s \in Stream, b \in Bucket : Content(s, b) = << >>
  <2>1. << >> \in Seq(Half)
    OBVIOUS
  <2>2. << >> \o << >> = << >>
    BY <2>1, ConcatEmptySeq
  <2>3. QED
    BY <2>2 DEF Init, Closed, Content, InBuffer
<1>4. Len(<< >>) = 0
  OBVIOUS
<1>5. ContentSound
  BY <1>3, <1>4 DEF ContentSound, WellFormed, Ordered, UpTo, Whole, Before
<1>6. Landed /\ AckedKept
  BY NoOpType DEF Init, Landed, AckedKept
<1>7. QED
  BY <1>1, <1>2, <1>5, <1>6 DEF IInv

(* The inductive invariant holds in every state.                           *)
THEOREM Invariant == Spec => []IInv
<1>1. IInv /\ [Next]_vars => IInv'
  BY InvariantStep
<1>2. QED
  BY <1>1, InvariantInit, PTL DEF Spec

(* Every file is sound because it is a prefix of a sound content.          *)
LEMMA FilesSound ==
  ASSUME IInv
  PROVE  LinesIntact /\ OrderKept
<1> USE DEF IInv
<1>1. ASSUME NEW s \in Stream, NEW b \in Bucket
      PROVE  WellFormed(disk[s][b], torn) /\ Ordered(disk[s][b])
  <2>1. /\ Content(s, b) \in Seq(Half)
        /\ WellFormed(Content(s, b), torn) /\ Ordered(Content(s, b))
    BY ContentType DEF ContentSound
  <2>2. PICK n \in 0 .. Len(Content(s, b)) : disk[s][b] = SubSeq(Content(s, b), 1, n)
    BY FileIsPrefix
  <2>3. QED
    BY <2>1, <2>2, PrefixSound
<1>2. ASSUME NEW s \in Stream, NEW a \in Bucket, NEW b \in Bucket, a < b
      PROVE  Before(disk[s][a], disk[s][b])
  <2>1. /\ Content(s, a) \in Seq(Half) /\ Content(s, b) \in Seq(Half)
        /\ Before(Content(s, a), Content(s, b))
    BY <1>2, ContentType DEF ContentSound
  <2>2. PICK m \in 0 .. Len(Content(s, a)) : disk[s][a] = SubSeq(Content(s, a), 1, m)
    BY FileIsPrefix
  <2>3. PICK n \in 0 .. Len(Content(s, b)) : disk[s][b] = SubSeq(Content(s, b), 1, n)
    BY FileIsPrefix
  <2>4. QED
    BY <2>1, <2>2, <2>3, BeforePrefix
<1>3. QED
  BY <1>1, <1>2 DEF LinesIntact, OrderKept

(* No failure and no crash leaves a broken line in a file, except at its   *)
(* end or where an oversize write was torn.                                *)
THEOREM FilesHoldWholeLines == Spec => []LinesIntact
<1>1. IInv => LinesIntact
  BY FilesSound
<1>2. QED
  BY <1>1, Invariant, PTL

(* A file holds its stream's events in the order of the write calls, each  *)
(* at most once, and later buckets hold later events.                      *)
THEOREM FilesKeepOrder == Spec => []OrderKept
<1>1. IInv => OrderKept
  BY FilesSound
<1>2. QED
  BY <1>1, Invariant, PTL

(* An acknowledged event is in its file or its buffer until the process is *)
(* killed or the last flush of its stream fails.                           *)
THEOREM AcknowledgedEventsKept == Spec => []AckedKept
<1>1. IInv => AckedKept
  BY DEF IInv
<1>2. QED
  BY <1>1, Invariant, PTL

-----------------------------------------------------------------------------
(* What the files of the store keep.                                       *)

(* No file is shorter than its synced part.                                *)
SyncedInFile == \A s \in Stream, b \in Bucket : synced[s][b] <= Len(disk[s][b])

Holds(h, e) == \E i \in DOMAIN h : h[i] = <<e, 2>>

(* A call that has only to flush or to sync has put its line where the     *)
(* writer of its stream is, and before the sync nothing is buffered.       *)
LineDue ==
  /\ op.stage \in {"flush", "sync"} => Holds(Content(op.stream, op.bucket), op.event)
  /\ op.stage = "sync" => writer[op.stream].buf = << >>

(* No file is written before its writer has come to its bucket, and drop   *)
(* passes by no open writer and leaves none.                               *)
WritersInTurn ==
  /\ \A s \in Stream, b \in Bucket :
       writer[s].open /\ b > writer[s].bucket => disk[s][b] = << >>
  /\ status = "dropping" => OpenWriters \subseteq todo
  /\ status = "closed" => OpenWriters = {}

DurableInv == IInv /\ SyncedInFile /\ LineDue /\ WritersInTurn /\ FsyncDurable

-----------------------------------------------------------------------------
(* Files only grow.                                                        *)

FilesGrow ==
  \A r \in Stream, b \in Bucket : \E g \in Seq(Half) : disk'[r][b] = disk[r][b] \o g

(* Adding a run to one file is growth, of nothing in the others.           *)
LEMMA AppendGrows ==
  ASSUME TypeOK, NEW s \in Stream, NEW c \in Bucket, NEW h \in Seq(Half),
         disk' = [disk EXCEPT ![s][c] = @ \o h]
  PROVE  FilesGrow
<1>1. SUFFICES ASSUME NEW r \in Stream, NEW b \in Bucket
               PROVE  \E g \in Seq(Half) : disk'[r][b] = disk[r][b] \o g
  BY DEF FilesGrow
<1>2. disk[r][b] \in Seq(Half)
  BY DEF TypeOK
<1>3. CASE r = s /\ b = c
  BY <1>3 DEF TypeOK
<1>4. CASE ~(r = s /\ b = c)
  <2>1. disk'[r][b] = disk[r][b]
    BY <1>4 DEF TypeOK
  <2>2. disk[r][b] = disk[r][b] \o << >> /\ << >> \in Seq(Half)
    BY <1>2, ConcatEmptySeq
  <2>3. QED
    BY <2>1, <2>2
<1>5. QED
  BY <1>3, <1>4

(* Flushing a writer, whole or in part, only adds to its file.             *)
LEMMA WriteOutGrows ==
  ASSUME TypeOK, NEW s \in Stream, NEW k \in 0 .. Buffered(s), WriteOut(s, k)
  PROVE  FilesGrow
<1>1. writer[s].bucket \in Bucket /\ writer[s].buf \in Seq(Half)
  BY BufferedType
<1>2. SubSeq(writer[s].buf, 1, k) \in Seq(Half)
  BY <1>1, CutType DEF Buffered
<1>3. QED
  BY <1>1, <1>2, AppendGrows DEF WriteOut

(* Files that do not change have grown by nothing.                         *)
LEMMA SameGrows == ASSUME TypeOK, disk' = disk PROVE FilesGrow
<1>1. \A r \in Stream, b \in Bucket : disk[r][b] \in Seq(Half)
  BY DEF TypeOK
<1>2. \A r \in Stream, b \in Bucket :
         disk[r][b] = disk[r][b] \o << >> /\ << >> \in Seq(Half)
  BY <1>1, ConcatEmptySeq
<1>3. QED
  BY <1>2 DEF FilesGrow

(* Every step adds to files or leaves them, but the loss of what a crashed *)
(* process had not synced.                                                 *)
LEMMA GrowingStep ==
  ASSUME TypeOK, [Next]_vars
  PROVE  \/ FilesGrow
         \/ status = "crashed" /\ \E s \in Stream, b \in Bucket : LoseUnsynced(s, b)
<1> USE SameGrows
<1>0. op.stream \in Stream /\ op.event \in Event \union {0}
  BY DEF TypeOK, Call
<1>1. ASSUME NEW s \in Stream, NEW big \in BOOLEAN, BeginWrite(s, big) PROVE FilesGrow
  BY <1>1 DEF BeginWrite
<1>2. CASE OpenWriter \/ SameBucket \/ RotateReopen \/ WriteLine \/ SyncLine
           \/ OpenOrSyncFails \/ FlushAllDone \/ DropDone
  BY <1>2 DEF OpenWriter, SameBucket, RotateReopen, WriteLine, SyncLine,
              OpenOrSyncFails, FlushAllDone, DropDone
<1>3. CASE RotateFlush \/ MakeRoom \/ FlushLine
  BY <1>0, <1>3, BufferedType, WriteOutGrows DEF RotateFlush, MakeRoom, FlushLine, Drain
<1>4. CASE WriteThrough
  <2>1. op.event \in Event /\ Line(op.event) \in Seq(Half)
    BY <1>4, BigLineType DEF WriteThrough, At
  <2>2. writer[op.stream].bucket \in Bucket
    BY <1>0, BufferedType
  <2>3. QED
    BY <1>0, <1>4, <2>1, <2>2, AppendGrows DEF WriteThrough
<1>5. CASE FlushFails
  <2>1. PICK k \in 0 .. Buffered(op.stream) - 1 : WriteOut(op.stream, k)
    BY <1>5 DEF FlushFails
  <2>2. k \in 0 .. Buffered(op.stream)
    BY <1>0, BufferedType
  <2>3. QED
    BY <1>0, <2>1, <2>2, WriteOutGrows
<1>6. CASE WriteThroughFails
  <2>1. <<op.event, 1>> \in Half /\ << <<op.event, 1>> >> \in Seq(Half)
    <3>1. op.stage = "put"
      BY <1>6 DEF WriteThroughFails, At
    <3>2. QED
      BY <3>1, BigLineType
  <2>2. writer[op.stream].bucket \in Bucket /\ disk[op.stream][writer[op.stream].bucket] \in Seq(Half)
    BY <1>0, BufferedType
  <2>3. Append(disk[op.stream][writer[op.stream].bucket], <<op.event, 1>>)
          = disk[op.stream][writer[op.stream].bucket] \o << <<op.event, 1>> >>
    BY <2>1, <2>2, AppendIsConcat
  <2>4. CASE disk' = disk
    BY <2>4
  <2>5. CASE disk' = [disk EXCEPT ![op.stream][writer[op.stream].bucket] =
                                    Append(@, <<op.event, 1>>)]
    <3>1. disk' = [disk EXCEPT ![op.stream][writer[op.stream].bucket] =
                                 @ \o << <<op.event, 1>> >>]
      BY <2>3, <2>5
    <3>2. QED
      BY <1>0, <2>1, <2>2, <3>1, AppendGrows
  <2>6. QED
    BY <1>6, <2>4, <2>5 DEF WriteThroughFails
<1>7. ASSUME NEW s \in Stream, FlushOne(s) PROVE FilesGrow
  BY <1>7, BufferedType, WriteOutGrows DEF FlushOne, Drain
<1>8. ASSUME NEW s \in Stream, FlushOneFails(s) PROVE FilesGrow
  BY <1>8, WriteOutGrows DEF FlushOneFails
<1>9. ASSUME NEW s \in Stream, DropOne(s) PROVE FilesGrow
  <2>1. PICK k \in 0 .. Buffered(s) :
          disk' = [disk EXCEPT ![s][writer[s].bucket] = @ \o SubSeq(writer[s].buf, 1, k)]
    BY <1>9 DEF DropOne
  <2>2. writer[s].bucket \in Bucket /\ writer[s].buf \in Seq(Half)
    BY BufferedType
  <2>3. SubSeq(writer[s].buf, 1, k) \in Seq(Half)
    BY <2>2, CutType DEF Buffered
  <2>4. QED
    BY <2>1, <2>2, <2>3, AppendGrows
<1>10. CASE BeginFlushAll \/ BeginDrop \/ AdvanceBucket \/ Crash \/ Finished \/ UNCHANGED vars
  BY <1>10 DEF BeginFlushAll, BeginDrop, AdvanceBucket, Crash, Finished, vars
<1>11. ASSUME NEW s \in Stream, NEW b \in Bucket, LoseUnsynced(s, b)
       PROVE  status = "crashed"
  BY <1>11 DEF LoseUnsynced
<1>12. QED
  BY <1>1, <1>2, <1>3, <1>4, <1>5, <1>6, <1>7, <1>8, <1>9, <1>10, <1>11
     DEF Next, CallStep

(* What a file that has grown held is a prefix of what it holds.           *)
LEMMA GrownIsPrefix ==
  ASSUME NEW d \in Seq(Half), NEW g \in Seq(Half)
  PROVE  /\ Len(d) \in 0 .. Len(d \o g)
         /\ d = SubSeq(d \o g, 1, Len(d))
<1>1. /\ Len(d \o g) = Len(d) + Len(g) /\ Len(d) \in Nat /\ Len(g) \in Nat
      /\ d \o g \in Seq(Half) /\ \A i \in 1 .. Len(d) : (d \o g)[i] = d[i]
  BY Concat
<1>2. /\ SubSeq(d \o g, 1, Len(d)) \in Seq(Half)
      /\ Len(SubSeq(d \o g, 1, Len(d))) = Len(d)
      /\ \A i \in 1 .. Len(d) : SubSeq(d \o g, 1, Len(d))[i] = d[i]
  BY <1>1
<1>3. QED
  BY <1>1, <1>2, SeqEqual

(* Bytes in a file never change: a step of a live process only appends.    *)
THEOREM FilesOnlyGrow == Spec => AppendOnly
<1>1. TypeOK /\ [Next]_vars =>
        [status' # "crashed" => \A s \in Stream, b \in Bucket :
           \E k \in 0 .. Len(disk'[s][b]) : disk[s][b] = SubSeq(disk'[s][b], 1, k)]_vars
  <2>1. SUFFICES ASSUME TypeOK, [Next]_vars, status' # "crashed",
                        NEW s \in Stream, NEW b \in Bucket
                 PROVE  \E k \in 0 .. Len(disk'[s][b]) :
                           disk[s][b] = SubSeq(disk'[s][b], 1, k)
    OBVIOUS
  <2>2. FilesGrow
    BY <2>1, GrowingStep DEF LoseUnsynced
  <2>3. PICK g \in Seq(Half) : disk'[s][b] = disk[s][b] \o g
    BY <2>2 DEF FilesGrow
  <2>4. disk[s][b] \in Seq(Half)
    BY <2>1 DEF TypeOK
  <2>5. QED
    BY <2>3, <2>4, GrownIsPrefix
<1>2. QED
  BY <1>1, TypeCorrect, PTL DEF Spec, AppendOnly

-----------------------------------------------------------------------------
(* Which step does what.                                                   *)

(* Every flush, whole or cut short, is of a writer that is open.           *)
FlushStep ==
  \/ RotateFlush \/ MakeRoom \/ FlushLine \/ FlushFails
  \/ \E s \in Stream : FlushOne(s) \/ FlushOneFails(s)

LEMMA FlushesOpenWriter ==
  ASSUME TypeOK, Shape, FlushStep
  PROVE  \E s \in Stream : \E k \in 0 .. Buffered(s) : writer[s].open /\ WriteOut(s, k)
<1>0. op.stream \in Stream
  BY DEF TypeOK, Call
<1>1. CASE RotateFlush \/ MakeRoom \/ FlushLine
  <2>1. writer[op.stream].open
    BY <1>1 DEF RotateFlush, Rotating, MakeRoom, FlushLine, At, Shape
  <2>2. QED
    BY <1>0, <1>1, <2>1, BufferedType DEF RotateFlush, MakeRoom, FlushLine, Drain
<1>2. CASE FlushFails
  <2>1. writer[op.stream].open
    BY <1>2 DEF FlushFails, FlushDue, Rotating, At, Shape
  <2>2. \E k \in 0 .. Buffered(op.stream) : WriteOut(op.stream, k)
    BY <1>0, <1>2, BufferedType DEF FlushFails
  <2>3. QED
    BY <1>0, <2>1, <2>2
<1>3. ASSUME NEW s \in Stream, FlushOne(s) \/ FlushOneFails(s)
      PROVE  \E k \in 0 .. Buffered(s) : writer[s].open /\ WriteOut(s, k)
  BY <1>3, BufferedType DEF FlushOne, FlushOneFails, Drain, Shape, OpenWriters
<1>4. QED
  BY <1>1, <1>2, <1>3 DEF FlushStep

(* Opening a writer or moving an empty one to its next file changes no     *)
(* content.                                                                *)
LEMMA RotationContent ==
  ASSUME TypeOK, Shape, OpenWriter \/ RotateReopen
  PROVE  \A r \in Stream, b \in Bucket : Content(r, b)' = Content(r, b)
<1>0. /\ op.stream \in Stream /\ op.bucket \in Bucket
      /\ writer \in [Stream -> Writer]
  BY DEF TypeOK, Call
<1>1. CASE OpenWriter
  <2>1. \A r \in Stream, b \in Bucket : InBuffer(r, b)' = InBuffer(r, b)
    BY <1>0, <1>1 DEF OpenWriter, InBuffer, Writer
  <2>2. QED
    BY <1>1, <2>1 DEF OpenWriter, Content
<1>2. CASE RotateReopen
  <2>1. writer[op.stream].buf = << >>
    BY <1>2 DEF RotateReopen, At, Shape
  <2>2. \A r \in Stream, b \in Bucket : InBuffer(r, b)' = InBuffer(r, b)
    BY <1>0, <1>2, <2>1 DEF RotateReopen, InBuffer, Writer
  <2>3. QED
    BY <1>2, <2>2 DEF RotateReopen, Content
<1>3. QED
  BY <1>1, <1>2

-----------------------------------------------------------------------------
(* Durability.                                                             *)

Durable(s, e) ==
  \E b \in Bucket : \E i \in 1 .. synced[s][b] :
    i \in DOMAIN disk[s][b] /\ disk[s][b][i] = <<e, 2>>

(* What a file holds it still holds when it has grown, at the same place.  *)
LEMMA GrownHolds ==
  ASSUME NEW d \in Seq(Half), NEW g \in Seq(Half)
  PROVE  /\ \A i \in DOMAIN d : i \in DOMAIN (d \o g) /\ (d \o g)[i] = d[i]
         /\ \A e : Holds(d, e) => Holds(d \o g, e)
         /\ Len(d) <= Len(d \o g)
<1>1. /\ Len(d \o g) = Len(d) + Len(g) /\ Len(d) \in Nat /\ Len(g) \in Nat
      /\ d \o g \in Seq(Half) /\ \A i \in 1 .. Len(d) : (d \o g)[i] = d[i]
  BY Concat
<1>2. DOMAIN d = 1 .. Len(d) /\ DOMAIN (d \o g) = 1 .. Len(d \o g)
  BY <1>1
<1>3. \A i \in DOMAIN d : i \in DOMAIN (d \o g) /\ (d \o g)[i] = d[i]
  BY <1>1, <1>2
<1>4. QED
  BY <1>1, <1>3 DEF Holds

(* Files that grow and are synced further keep what is durable.            *)
LEMMA DurableStays ==
  ASSUME TypeOK, FilesGrow,
         \A s \in Stream, b \in Bucket :
           synced'[s][b] \in Nat /\ synced[s][b] <= synced'[s][b]
  PROVE  \A s \in Stream, e \in Event : Durable(s, e) => Durable(s, e)'
<1>1. SUFFICES ASSUME NEW s \in Stream, NEW e \in Event, Durable(s, e) PROVE Durable(s, e)'
  OBVIOUS
<1>2. PICK b \in Bucket : \E i \in 1 .. synced[s][b] :
        i \in DOMAIN disk[s][b] /\ disk[s][b][i] = <<e, 2>>
  BY <1>1 DEF Durable
<1>20. PICK i \in 1 .. synced[s][b] : i \in DOMAIN disk[s][b] /\ disk[s][b][i] = <<e, 2>>
  BY <1>2
<1>3. PICK g \in Seq(Half) : disk'[s][b] = disk[s][b] \o g
  BY DEF FilesGrow
<1>4. disk[s][b] \in Seq(Half) /\ synced[s][b] \in Nat
  BY DEF TypeOK
<1>5. i \in DOMAIN disk'[s][b] /\ disk'[s][b][i] = <<e, 2>>
  BY <1>20, <1>3, <1>4, GrownHolds
<1>6. i \in 1 .. synced'[s][b]
  BY <1>20, <1>4
<1>7. QED
  BY <1>5, <1>6 DEF Durable

(* A step that syncs nothing keeps both properties of the synced part, if  *)
(* it acknowledges nothing or the process does not sync at all.            *)
LEMMA UnsyncedStep ==
  ASSUME TypeOK, SyncedInFile, FsyncDurable, FilesGrow, synced' = synced,
         fsync' = fsync, fsync => acked' = acked
  PROVE  SyncedInFile' /\ FsyncDurable'
<1>1. SyncedInFile'
  <2>1. SUFFICES ASSUME NEW s \in Stream, NEW b \in Bucket
                 PROVE  synced[s][b] <= Len(disk'[s][b])
    BY DEF SyncedInFile
  <2>2. PICK g \in Seq(Half) : disk'[s][b] = disk[s][b] \o g
    BY DEF FilesGrow
  <2>3. disk[s][b] \in Seq(Half) /\ synced[s][b] \in Nat /\ synced[s][b] <= Len(disk[s][b])
    BY DEF TypeOK, SyncedInFile
  <2>4. Len(disk'[s][b]) = Len(disk[s][b]) + Len(g) /\ Len(disk[s][b]) \in Nat /\ Len(g) \in Nat
    BY <2>2, <2>3, Concat
  <2>5. QED
    BY <2>3, <2>4
<1>2. FsyncDurable'
  <2>1. SUFFICES ASSUME fsync, NEW s \in Stream, NEW e \in acked[s]
                 PROVE  Durable(s, e)'
    BY DEF FsyncDurable, Durable
  <2>2. e \in Event /\ Durable(s, e)
    BY <2>1 DEF FsyncDurable, Durable, TypeOK
  <2>3. \A r \in Stream, b \in Bucket :
           synced'[r][b] \in Nat /\ synced[r][b] <= synced'[r][b]
    BY DEF TypeOK
  <2>4. QED
    BY <2>2, <2>3, DurableStays
<1>3. QED
  BY <1>1, <1>2

(* LineDue after a step, the stream and the bucket of the call being named.*)
LEMMA LineDueAfter ==
  ASSUME NEW r \in Stream, NEW b \in Bucket, r = op'.stream, b = op'.bucket,
         Holds(Content(r, b)', op'.event),
         op'.stage = "sync" => writer'[r].buf = << >>
  PROVE  LineDue'
  BY DEF LineDue, Holds, Content, InBuffer

(* LineDue in the same terms before it.                                    *)
LEMMA LineDueBefore ==
  ASSUME LineDue, op.stage \in {"flush", "sync"},
         NEW r \in Stream, NEW b \in Bucket, r = op.stream, b = op.bucket
  PROVE  /\ Holds(Content(r, b), op.event)
         /\ op.stage = "sync" => writer[r].buf = << >>
  BY DEF LineDue, Holds, Content, InBuffer

(* A run that ends in a line holds it.                                     *)
LEMMA LineIsHeld ==
  ASSUME NEW h \in Seq(Half), NEW e \in Event
  PROVE  Holds(h \o Line(e), e)
<1>1. Line(e) \in Seq(Half) /\ Len(Line(e)) = 2 /\ Line(e)[2] = <<e, 2>>
  BY LineType DEF Line
<1>2. /\ Len(h \o Line(e)) = Len(h) + 2 /\ Len(h) \in Nat /\ h \o Line(e) \in Seq(Half)
      /\ (h \o Line(e))[Len(h) + 2] = Line(e)[Len(h) + 2 - Len(h)]
  <2>1. PICK l \in Seq(Half) : l = Line(e) /\ Len(l) = 2
    BY <1>1
  <2>2. /\ Len(h \o l) = Len(h) + Len(l) /\ Len(h) \in Nat /\ h \o l \in Seq(Half)
        /\ \A i \in Len(h) + 1 .. Len(h) + Len(l) : (h \o l)[i] = l[i - Len(h)]
    BY Concat, Zenon
  <2>3. Len(h) + 2 \in Len(h) + 1 .. Len(h) + Len(l)
    BY <2>1, <2>2
  <2>4. QED
    BY <2>1, <2>2, <2>3
<1>3. DOMAIN (h \o Line(e)) = 1 .. Len(h) + 2 /\ Len(h) + 2 - Len(h) = 2
  BY <1>2
<1>4. Len(h) + 2 \in DOMAIN (h \o Line(e)) /\ (h \o Line(e))[Len(h) + 2] = <<e, 2>>
  BY <1>1, <1>2, <1>3
<1>5. QED
  BY <1>4 DEF Holds

(* A call that has only to flush or to sync keeps its place: the steps of  *)
(* the call move its line to the file, and no other step comes between.    *)
LEMMA LineDueStep ==
  ASSUME IInv, LineDue, [Next]_vars
  PROVE  LineDue'
<1> USE DEF IInv
<1>0. /\ op \in Call /\ op.stream \in Stream /\ op.bucket \in Bucket
      /\ writer \in [Stream -> Writer]
  BY DEF TypeOK, Call
<1>00. PICK r \in Stream, b \in Bucket : r = op.stream /\ b = op.bucket
  BY <1>0
<1>01. Content(r, b) \in Seq(Half)
  BY ContentType
<1>1. ASSUME op'.stage \notin {"flush", "sync"} PROVE LineDue'
  BY <1>1 DEF LineDue
<1>2. CASE WriteLine \/ WriteThrough
  <2>1. op.event \in Event /\ Content(r, b)' = Content(r, b) \o Line(op.event)
    BY <1>2, <1>00, LineContent
  <2>2. Holds(Content(r, b)', op.event)
    BY <2>1, <1>01, LineIsHeld
  <2>3. op'.stage = "idle" \/ op' = [op EXCEPT !.stage = "flush"]
    BY <1>2, NoOpType DEF WriteLine, WriteThrough, ReturnOk, Goto
  <2>4. CASE op'.stage = "idle"
    BY <2>4, <1>1
  <2>5. CASE op' = [op EXCEPT !.stage = "flush"]
    <3>1. /\ op'.stage = "flush" /\ op'.stream = r /\ op'.bucket = b
          /\ op'.event = op.event
      BY <1>0, <1>00, <2>5 DEF Call
    <3>2. QED
      BY <2>2, <3>1, LineDueAfter
  <2>6. QED
    BY <2>3, <2>4, <2>5
<1>3. CASE FlushLine
  <2>1. /\ op.stage = "flush" /\ op' = [op EXCEPT !.stage = "sync"]
        /\ writer[op.stream].open /\ WriteOut(op.stream, Buffered(op.stream))
    BY <1>3 DEF FlushLine, Drain, Goto, At, Shape
  <2>2. op'.stage = "sync" /\ op'.stream = r /\ op'.bucket = b /\ op'.event = op.event
    BY <1>0, <1>00, <2>1 DEF Call
  <2>3. /\ Content(r, b)' = Content(r, b)
        /\ writer'[r].buf = << >>
    BY <1>00, <2>1, BufferedType, WriteOutKeeps, WriteOutShape
  <2>4. Holds(Content(r, b), op.event)
    BY <1>00, <2>1, LineDueBefore
  <2>5. QED
    BY <2>2, <2>3, <2>4, LineDueAfter
<1>4. CASE op' = op /\ UNCHANGED << writer, disk >>
  <2>1. CASE op.stage \in {"flush", "sync"}
    <3>1. Content(r, b)' = Content(r, b)
      BY <1>4, SameContent
    <3>2. /\ Holds(Content(r, b), op.event)
          /\ op.stage = "sync" => writer[r].buf = << >>
      BY <1>00, <2>1, LineDueBefore
    <3>3. QED
      BY <1>00, <1>4, <3>1, <3>2, LineDueAfter
  <2>2. CASE op.stage \notin {"flush", "sync"}
    BY <1>1, <1>4, <2>2
  <2>3. QED
    BY <2>1, <2>2
<1>5. CASE op' = op /\ status \notin {"running", "flushed"}
  <2>1. op'.stage \notin {"flush", "sync"}
    BY <1>5 DEF Shape, InCall
  <2>2. QED
    BY <1>1, <2>1
<1>6. CASE \/ \E s \in Stream, big \in BOOLEAN : BeginWrite(s, big)
           \/ OpenWriter \/ SameBucket \/ RotateFlush \/ RotateReopen \/ MakeRoom
           \/ SyncLine \/ OpenOrSyncFails \/ FlushFails \/ WriteThroughFails
           \/ \E s \in Stream : FlushOneFails(s)
           \/ FlushAllDone \/ BeginFlushAll \/ Crash
  <2>1. CASE OpenWriter \/ SameBucket \/ RotateFlush \/ RotateReopen
    <3>1. op' = [op EXCEPT !.stage = "put"] \/ op' = [op EXCEPT !.stage = "reopen"]
      BY <2>1 DEF OpenWriter, SameBucket, RotateFlush, RotateReopen, Goto
    <3>2. op'.stage \in {"put", "reopen"}
      BY <1>0, <3>1 DEF Call
    <3>3. QED
      BY <1>1, <3>2
  <2>2. CASE SyncLine \/ OpenOrSyncFails \/ FlushFails \/ WriteThroughFails
             \/ (\E s \in Stream : FlushOneFails(s)) \/ FlushAllDone \/ Crash
    <3>1. op' = NoOp
      BY <2>2 DEF SyncLine, OpenOrSyncFails, FlushFails, WriteThroughFails, FlushOneFails,
                  FlushAllReturns, FlushAllDone, Crash, ReturnErr, ReturnOk
    <3>2. QED
      BY <1>1, <3>1, NoOpType
  <2>3. CASE MakeRoom
    BY <1>1, <2>3 DEF MakeRoom, At
  <2>4. CASE \E s \in Stream, big \in BOOLEAN : BeginWrite(s, big)
    BY <1>1, <2>4 DEF BeginWrite
  <2>5. CASE BeginFlushAll
    <3>1. op' = [NoOp EXCEPT !.stage = "flush_all"]
      BY <2>5 DEF BeginFlushAll
    <3>2. op'.stage = "flush_all"
      BY <3>1 DEF NoOp
    <3>3. QED
      BY <1>1, <3>2
  <2>6. QED
    BY <1>6, <2>1, <2>2, <2>3, <2>4, <2>5
<1>7. CASE \E s \in Stream : FlushOne(s) \/ DropOne(s)
  BY <1>5, <1>7 DEF FlushOne, DropOne
<1>8. CASE \E s \in Stream, c \in Bucket : LoseUnsynced(s, c)
  BY <1>5, <1>8 DEF LoseUnsynced
<1>9. CASE DropDone \/ BeginDrop \/ AdvanceBucket \/ UNCHANGED vars
  BY <1>4, <1>9 DEF DropDone, BeginDrop, AdvanceBucket, vars
<1>10. QED
  BY <1>2, <1>3, <1>6, <1>7, <1>8, <1>9 DEF Next, CallStep, Finished

(* No step writes ahead of a writer, and drop forgets none.                *)
LEMMA WritersInTurnStep ==
  ASSUME IInv, Shape', WritersInTurn, [Next]_vars
  PROVE  WritersInTurn'
<1> USE DEF IInv
<1>0. /\ writer \in [Stream -> Writer]
      /\ disk \in [Stream -> [Bucket -> Seq(Half)]]
  BY DEF TypeOK
<1>1. CASE Live'
  <2>1. \A s \in Stream, b \in Bucket :
           writer'[s].open /\ b > writer'[s].bucket => disk'[s][b] = << >>
    BY <1>1 DEF Shape
  <2>2. QED
    BY <1>1, <2>1 DEF Live, WritersInTurn
<1>2. CASE status' = "crashed"
  <2>1. \A s \in Stream : ~writer'[s].open
    BY <1>2 DEF Shape, OpenWriters
  <2>2. QED
    BY <1>2, <2>1 DEF WritersInTurn, OpenWriters
<1>3. CASE BeginDrop
  <2>1. /\ Live /\ writer' = writer /\ disk' = disk /\ todo' = OpenWriters
        /\ status' = "dropping"
    BY <1>3 DEF BeginDrop, Live
  <2>2. QED
    BY <2>1 DEF Shape, WritersInTurn, OpenWriters
<1>4. ASSUME NEW s \in Stream, DropOne(s) PROVE WritersInTurn'
  <2>1. /\ writer' = [writer EXCEPT ![s] = Closed] /\ status' = status
        /\ status = "dropping" /\ todo' = todo \ {s}
    BY <1>4 DEF DropOne
  <2>2. PICK h : disk' = [disk EXCEPT ![s][writer[s].bucket] = h]
    BY <1>4 DEF DropOne
  <2>3. \A r \in Stream : r # s => writer'[r] = writer[r] /\ disk'[r] = disk[r]
    BY <1>0, <2>1, <2>2
  <2>4. ~writer'[s].open
    BY <1>0, <2>1 DEF Closed
  <2>5. \A r \in Stream, b \in Bucket :
           writer'[r].open /\ b > writer'[r].bucket => disk'[r][b] = << >>
    BY <2>3, <2>4 DEF WritersInTurn
  <2>6. OpenWriters' \subseteq todo'
    BY <2>1, <2>3, <2>4 DEF WritersInTurn, OpenWriters
  <2>7. QED
    BY <2>1, <2>5, <2>6 DEF WritersInTurn
<1>5. CASE UNCHANGED << writer, disk, status, todo >>
  BY <1>5 DEF WritersInTurn, OpenWriters
<1>6. CASE \/ \E s \in Stream, big \in BOOLEAN : BeginWrite(s, big)
           \/ OpenWriter \/ SameBucket \/ RotateFlush \/ RotateReopen \/ WriteLine \/ MakeRoom
           \/ WriteThrough \/ FlushLine
           \/ SyncLine \/ OpenOrSyncFails \/ FlushFails \/ WriteThroughFails
           \/ BeginFlushAll \/ AdvanceBucket
  <2>1. InCall \/ status \in {"running", "flushed"}
    BY <1>6 DEF BeginWrite, OpenWriter, SameBucket, RotateFlush, RotateReopen, WriteLine,
           WriteThrough, FlushLine, MakeRoom, SyncLine, OpenOrSyncFails, FlushFails, FlushDue,
           WriteThroughFails, BeginFlushAll, AdvanceBucket, At, InCall
  <2>2. status \in {"running", "flushed"}
    BY <2>1 DEF Shape
  <2>3. status' = status \/ status' = "flushing"
    BY <1>6 DEF BeginWrite, OpenWriter, SameBucket, RotateFlush, RotateReopen, WriteLine,
           WriteThrough, FlushLine, MakeRoom, SyncLine, OpenOrSyncFails, FlushFails,
           WriteThroughFails, BeginFlushAll, AdvanceBucket
  <2>4. QED
    BY <1>1, <2>2, <2>3 DEF Live
<1>7. CASE FlushAllDone \/ \E s \in Stream : FlushOne(s) \/ FlushOneFails(s)
  BY <1>1, <1>7 DEF FlushAllDone, FlushOne, FlushOneFails, FlushAllReturns, Live
<1>8. CASE Crash \/ \E s \in Stream, c \in Bucket : LoseUnsynced(s, c)
  BY <1>2, <1>8 DEF Crash, LoseUnsynced
<1>9. CASE DropDone
  BY <1>9 DEF DropDone, WritersInTurn, OpenWriters
<1>10. CASE UNCHANGED vars
  BY <1>5, <1>10 DEF vars
<1>11. QED
  BY <1>3, <1>4, <1>6, <1>7, <1>8, <1>9, <1>10 DEF Next, CallStep, Finished

(* sync_data makes durable all that its file holds, the line of the call   *)
(* among it.                                                               *)
LEMMA SyncLineDurable ==
  ASSUME IInv, SyncedInFile, LineDue, FsyncDurable, SyncLine
  PROVE  SyncedInFile' /\ FsyncDurable'
<1> USE DEF IInv
<1>1. PICK s \in Stream : s = op.stream
  BY DEF TypeOK, Call
<1>2. PICK c \in Bucket : c = writer[s].bucket
  BY BufferedType
<1>3. /\ disk[s][c] \in Seq(Half) /\ op.event \in Event
      /\ synced \in [Stream -> [Bucket -> Nat]] /\ acked \in [Stream -> SUBSET Event]
  BY DEF TypeOK, Call, SyncLine, At
<1>4. /\ synced' = [synced EXCEPT ![s][c] = Len(disk[s][c])]
      /\ disk' = disk /\ op.stage = "sync" /\ fsync' = fsync
      /\ acked' = [acked EXCEPT ![s] = @ \union {op.event}]
  BY <1>1, <1>2 DEF SyncLine, ReturnOk, At
<1>5. \A r \in Stream, b \in Bucket :
         synced'[r][b] = IF r = s /\ b = c THEN Len(disk[r][b]) ELSE synced[r][b]
  BY <1>3, <1>4
<1>6. \A r \in Stream, b \in Bucket : disk[r][b] \in Seq(Half) /\ Len(disk[r][b]) \in Nat
  BY DEF TypeOK
<1>7. SyncedInFile'
  BY <1>4, <1>5, <1>6 DEF SyncedInFile
<1>8. \A r \in Stream, b \in Bucket :
         synced'[r][b] \in Nat /\ synced[r][b] <= synced'[r][b]
  BY <1>3, <1>5, <1>6 DEF SyncedInFile
<1>9. FilesGrow
  BY <1>4, SameGrows
<1>10. PICK e0 \in Event : e0 = op.event
  BY <1>3
<1>11. Durable(s, e0)'
  <2>1. c = op.bucket /\ writer[s].open
    BY <1>1, <1>2, <1>4 DEF Shape
  <2>2. Holds(Content(s, c), e0) /\ writer[s].buf = << >>
    BY <1>1, <1>4, <1>10, <2>1, LineDueBefore
  <2>3. disk[s][c] \o << >> = disk[s][c]
    BY <1>3, ConcatEmptySeq
  <2>4. Content(s, c) = disk[s][c]
    BY <1>2, <2>1, <2>2, <2>3 DEF Content, InBuffer
  <2>5. PICK i \in DOMAIN disk[s][c] : disk[s][c][i] = <<e0, 2>>
    BY <2>2, <2>4 DEF Holds
  <2>6. i \in 1 .. synced'[s][c]
    BY <1>3, <1>5, <2>5
  <2>7. \E j \in 1 .. synced'[s][c] :
           j \in DOMAIN disk'[s][c] /\ disk'[s][c][j] = <<e0, 2>>
    BY <1>4, <2>5, <2>6
  <2>8. QED
    BY <2>7 DEF Durable
<1>12. FsyncDurable'
  <2>1. SUFFICES ASSUME fsync, NEW r \in Stream, NEW e \in acked'[r]
                 PROVE  Durable(r, e)'
    BY <1>4 DEF FsyncDurable, Durable
  <2>2. CASE e \in acked[r]
    <3>1. e \in Event /\ Durable(r, e)
      BY <1>3, <2>1, <2>2 DEF FsyncDurable, Durable
    <3>2. QED
      BY <1>8, <1>9, <3>1, DurableStays
  <2>3. CASE e \notin acked[r]
    <3>1. r = s /\ e = e0
      BY <1>3, <1>4, <1>10, <2>1, <2>3
    <3>2. QED
      BY <1>11, <3>1
  <2>4. QED
    BY <2>2, <2>3
<1>13. QED
  BY <1>7, <1>12

(* So does the sync of a file that flush_all has flushed.                  *)
LEMMA FlushOneDurable ==
  ASSUME IInv, SyncedInFile, FsyncDurable, NEW s \in Stream, FlushOne(s)
  PROVE  SyncedInFile' /\ FsyncDurable'
<1> USE DEF IInv
<1>1. PICK c \in Bucket : c = writer[s].bucket
  BY BufferedType
<1>2. /\ writer[s].buf \in Seq(Half) /\ disk \in [Stream -> [Bucket -> Seq(Half)]]
      /\ synced \in [Stream -> [Bucket -> Nat]] /\ acked \in [Stream -> SUBSET Event]
  BY BufferedType DEF TypeOK
<1>3. /\ WriteOut(s, Buffered(s)) /\ fsync' = fsync /\ acked' = acked
      /\ synced' = IF fsync THEN [synced EXCEPT ![s][c] = Len(disk[s][c]) + Buffered(s)]
                            ELSE synced
  BY <1>1 DEF FlushOne, Drain
<1>4. FilesGrow
  BY <1>3, BufferedType, WriteOutGrows
<1>5. CASE ~fsync
  BY <1>3, <1>4, <1>5, UnsyncedStep
<1>6. CASE fsync
  <2>1. disk'[s][c] = disk[s][c] \o writer[s].buf
    <3>1. SubSeq(writer[s].buf, 1, Len(writer[s].buf)) = writer[s].buf
      BY <1>2, SubSeqFull
    <3>2. disk' = [disk EXCEPT ![s][c] = @ \o writer[s].buf]
      BY <1>1, <1>3, <3>1 DEF WriteOut, Buffered
    <3>3. QED
      BY <1>2, <3>2
  <2>2. Len(disk'[s][c]) = Len(disk[s][c]) + Buffered(s)
    BY <1>2, <2>1, Concat DEF Buffered
  <2>3. \A r \in Stream, b \in Bucket :
           synced'[r][b] = IF r = s /\ b = c THEN Len(disk'[s][c]) ELSE synced[r][b]
    BY <1>2, <1>3, <1>6, <2>2
  <2>4. \A r \in Stream, b \in Bucket :
           /\ Len(disk[r][b]) \in Nat /\ Len(disk'[r][b]) \in Nat
           /\ Len(disk[r][b]) <= Len(disk'[r][b])
           /\ synced[r][b] \in Nat /\ synced[r][b] <= Len(disk[r][b])
    <3>1. SUFFICES ASSUME NEW r \in Stream, NEW b \in Bucket
                   PROVE  /\ Len(disk[r][b]) \in Nat /\ Len(disk'[r][b]) \in Nat
                          /\ Len(disk[r][b]) <= Len(disk'[r][b])
                          /\ synced[r][b] \in Nat /\ synced[r][b] <= Len(disk[r][b])
      OBVIOUS
    <3>2. PICK g \in Seq(Half) : disk'[r][b] = disk[r][b] \o g
      BY <1>4 DEF FilesGrow
    <3>3. disk[r][b] \in Seq(Half) /\ synced[r][b] \in Nat
      BY <1>2
    <3>4. /\ Len(disk'[r][b]) = Len(disk[r][b]) + Len(g)
          /\ Len(disk[r][b]) \in Nat /\ Len(g) \in Nat
      BY <3>2, <3>3, Concat
    <3>5. QED
      BY <3>3, <3>4 DEF SyncedInFile
  <2>5. \A r \in Stream, b \in Bucket :
           /\ synced'[r][b] \in Nat /\ synced[r][b] <= synced'[r][b]
           /\ synced'[r][b] <= Len(disk'[r][b])
    <3>1. SUFFICES ASSUME NEW r \in Stream, NEW b \in Bucket
                   PROVE  /\ synced'[r][b] \in Nat /\ synced[r][b] <= synced'[r][b]
                          /\ synced'[r][b] <= Len(disk'[r][b])
      OBVIOUS
    <3>2. /\ Len(disk[r][b]) \in Nat /\ Len(disk'[r][b]) \in Nat
          /\ Len(disk[r][b]) <= Len(disk'[r][b])
          /\ synced[r][b] \in Nat /\ synced[r][b] <= Len(disk[r][b])
      BY <2>4, Zenon
    <3>3. CASE r = s /\ b = c
      <4>1. synced'[r][b] = Len(disk'[r][b])
        BY <2>3, <3>3, Zenon
      <4>2. QED
        BY <3>2, <4>1
    <3>4. CASE ~(r = s /\ b = c)
      <4>1. synced'[r][b] = synced[r][b]
        BY <2>3, <3>4, Zenon
      <4>2. QED
        BY <3>2, <4>1
    <3>5. QED
      BY <3>3, <3>4
  <2>6. SyncedInFile'
    BY <2>5 DEF SyncedInFile
  <2>7. FsyncDurable'
    <3>1. SUFFICES ASSUME fsync, NEW r \in Stream, NEW e \in acked[r]
                   PROVE  Durable(r, e)'
      BY <1>3 DEF FsyncDurable, Durable
    <3>2. e \in Event /\ Durable(r, e)
      BY <1>2, <3>1 DEF FsyncDurable, Durable
    <3>3. QED
      BY <1>4, <2>5, <3>2, DurableStays
  <2>8. QED
    BY <2>6, <2>7
<1>7. QED
  BY <1>5, <1>6

(* A power failure takes nothing that was synced.                          *)
LEMMA LossIsUnsynced ==
  ASSUME IInv, SyncedInFile, FsyncDurable, NEW s \in Stream, NEW c \in Bucket,
         LoseUnsynced(s, c)
  PROVE  SyncedInFile' /\ FsyncDurable'
<1> USE DEF IInv
<1>1. /\ disk \in [Stream -> [Bucket -> Seq(Half)]]
      /\ synced \in [Stream -> [Bucket -> Nat]] /\ acked \in [Stream -> SUBSET Event]
      /\ synced' = synced /\ acked' = acked /\ fsync' = fsync
  BY DEF TypeOK, LoseUnsynced
<1>2. PICK k \in synced[s][c] .. Len(disk[s][c]) - 1 :
        disk' = [disk EXCEPT ![s][c] = SubSeq(@, 1, k)]
  BY DEF LoseUnsynced
<1>3. /\ disk[s][c] \in Seq(Half) /\ synced[s][c] \in Nat /\ k \in Nat
      /\ synced[s][c] <= k /\ k <= Len(disk[s][c])
  BY <1>1, <1>2
<1>4. \A r \in Stream, b \in Bucket :
         disk'[r][b] = IF r = s /\ b = c THEN SubSeq(disk[s][c], 1, k) ELSE disk[r][b]
  BY <1>1, <1>2
<1>5. /\ Len(SubSeq(disk[s][c], 1, k)) = k
      /\ DOMAIN SubSeq(disk[s][c], 1, k) = 1 .. k
      /\ \A i \in 1 .. k : SubSeq(disk[s][c], 1, k)[i] = disk[s][c][i]
  BY <1>3
<1>6. SyncedInFile'
  BY <1>1, <1>3, <1>4, <1>5 DEF SyncedInFile
<1>7. FsyncDurable'
  <2>1. SUFFICES ASSUME fsync, NEW r \in Stream, NEW e \in acked[r]
                 PROVE  \E b \in Bucket : \E i \in 1 .. synced[r][b] :
                          i \in DOMAIN disk'[r][b] /\ disk'[r][b][i] = <<e, 2>>
    BY <1>1 DEF FsyncDurable
  <2>2. PICK b \in Bucket : \E i \in 1 .. synced[r][b] :
          i \in DOMAIN disk[r][b] /\ disk[r][b][i] = <<e, 2>>
    BY <2>1 DEF FsyncDurable
  <2>3. PICK i \in 1 .. synced[r][b] : i \in DOMAIN disk[r][b] /\ disk[r][b][i] = <<e, 2>>
    BY <2>2
  <2>4. CASE r = s /\ b = c
    <3>1. i \in 1 .. k
      BY <1>3, <2>3, <2>4
    <3>2. i \in DOMAIN disk'[r][b] /\ disk'[r][b][i] = <<e, 2>>
      BY <1>4, <1>5, <2>3, <2>4, <3>1
    <3>3. QED
      BY <3>2
  <2>5. CASE ~(r = s /\ b = c)
    BY <1>4, <2>3, <2>5
  <2>6. QED
    BY <2>4, <2>5
<1>8. QED
  BY <1>6, <1>7

(* Every other step syncs nothing, and acknowledges nothing with fsync.    *)
LEMMA DurableStep ==
  ASSUME DurableInv, [Next]_vars
  PROVE  DurableInv'
<1> USE DEF DurableInv
<1>1. IInv'
  BY InvariantStep
<1>2. LineDue'
  BY LineDueStep
<1>3. WritersInTurn'
  BY <1>1, WritersInTurnStep DEF IInv
<1>4. SyncedInFile' /\ FsyncDurable'
  <2>1. CASE SyncLine
    BY <2>1, SyncLineDurable
  <2>2. ASSUME NEW s \in Stream, FlushOne(s) PROVE SyncedInFile' /\ FsyncDurable'
    BY <2>2, FlushOneDurable
  <2>3. ASSUME NEW s \in Stream, NEW c \in Bucket, LoseUnsynced(s, c)
        PROVE  SyncedInFile' /\ FsyncDurable'
    BY <2>3, LossIsUnsynced
  <2>4. ASSUME synced' = synced, fsync' = fsync, fsync => acked' = acked, FilesGrow
        PROVE  SyncedInFile' /\ FsyncDurable'
    BY <2>4, UnsyncedStep DEF IInv
  <2>5. CASE FilesGrow
    <3>1. ASSUME NEW s \in Stream, NEW big \in BOOLEAN, BeginWrite(s, big)
          PROVE  SyncedInFile' /\ FsyncDurable'
      BY <2>4, <2>5, <3>1 DEF BeginWrite
    <3>2. CASE OpenWriter \/ SameBucket \/ RotateFlush \/ RotateReopen \/ MakeRoom \/ FlushLine
               \/ OpenOrSyncFails \/ FlushFails \/ WriteThroughFails
      BY <2>4, <2>5, <3>2
         DEF OpenWriter, SameBucket, RotateFlush, RotateReopen, MakeRoom, FlushLine,
             OpenOrSyncFails, FlushFails, WriteThroughFails, ReturnErr
    <3>3. CASE WriteLine \/ WriteThrough
      BY <2>4, <2>5, <3>3 DEF WriteLine, WriteThrough
    <3>4. ASSUME NEW s \in Stream, FlushOneFails(s) \/ DropOne(s)
          PROVE  SyncedInFile' /\ FsyncDurable'
      BY <2>4, <2>5, <3>4 DEF FlushOneFails, DropOne
    <3>5. CASE FlushAllDone \/ DropDone \/ BeginFlushAll \/ BeginDrop \/ AdvanceBucket
               \/ Crash \/ UNCHANGED vars
      BY <2>4, <2>5, <3>5
         DEF FlushAllDone, DropDone, BeginFlushAll, BeginDrop, AdvanceBucket, Crash, vars
    <3>6. QED
      BY <2>1, <2>2, <2>3, <3>1, <3>2, <3>3, <3>4, <3>5 DEF Next, CallStep, Finished
  <2>6. QED
    BY <2>3, <2>5, GrowingStep DEF IInv
<1>5. QED
  BY <1>1, <1>2, <1>3, <1>4

LEMMA DurableInit == Init => DurableInv
<1>1. Init => IInv
  BY InvariantInit
<1>2. Init => SyncedInFile /\ LineDue /\ WritersInTurn /\ FsyncDurable
  BY NoOpType DEF Init, SyncedInFile, LineDue, WritersInTurn, FsyncDurable, Closed
<1>3. QED
  BY <1>1, <1>2 DEF DurableInv

(* The stronger inductive invariant holds in every state.                  *)
THEOREM DurableInvariant == Spec => []DurableInv
<1>1. Init => DurableInv
  BY DurableInit
<1>2. DurableInv /\ [Next]_vars => DurableInv'
  BY DurableStep
<1>3. QED
  BY <1>1, <1>2, PTL DEF Spec

(* With fsync_on_write, an event whose write returned Ok is in the synced  *)
(* part of its file, in every state: a power failure cannot take it.       *)
THEOREM FsyncedEventsDurable == Spec => []FsyncDurable
<1>1. DurableInv => FsyncDurable
  BY DEF DurableInv
<1>2. QED
  BY <1>1, DurableInvariant, PTL

-----------------------------------------------------------------------------
(* The log of EventLog.                                                    *)

(* A log is what is held in contents, the saved part what is held in files.*)
LEMMA LogsHold ==
  ASSUME NEW s \in Stream
  PROVE  /\ \A e : e \in Taken(s) <=> e \in Event /\ \E b \in Bucket : Holds(Content(s, b), e)
         /\ \A e : e \in Filed(s) <=> e \in Event /\ \E b \in Bucket : Holds(disk[s][b], e)
  BY DEF Taken, Filed, Holds

(* A line that is added holds its event and no other.                      *)
LEMMA LineHolds ==
  ASSUME NEW h \in Seq(Half), NEW e \in Event
  PROVE  \A x : Holds(h \o Line(e), x) <=> Holds(h, x) \/ x = e
<1>1. /\ Line(e) \in Seq(Half) /\ Len(Line(e)) = 2
      /\ Line(e)[1] = <<e, 1>> /\ Line(e)[2] = <<e, 2>>
  BY LineType DEF Line
<1>2. /\ Len(h \o Line(e)) = Len(h) + 2 /\ Len(h) \in Nat /\ h \o Line(e) \in Seq(Half)
      /\ \A i \in 1 .. Len(h) : (h \o Line(e))[i] = h[i]
      /\ \A i \in Len(h) + 1 .. Len(h) + 2 : (h \o Line(e))[i] = Line(e)[i - Len(h)]
      /\ DOMAIN h = 1 .. Len(h)
  <2>1. /\ Len(h \o Line(e)) = Len(h) + Len(Line(e)) /\ Len(h) \in Nat
        /\ h \o Line(e) \in Seq(Half)
        /\ \A i \in 1 .. Len(h) : (h \o Line(e))[i] = h[i]
        /\ \A i \in Len(h) + 1 .. Len(h) + Len(Line(e)) :
             (h \o Line(e))[i] = Line(e)[i - Len(h)]
    BY <1>1, Concat
  <2>2. QED
    BY <1>1, <2>1
<1>3. ASSUME NEW x, NEW i \in DOMAIN (h \o Line(e)), (h \o Line(e))[i] = <<x, 2>>
      PROVE  Holds(h, x) \/ x = e
  <2>1. i \in 1 .. Len(h) \/ i = Len(h) + 1 \/ i = Len(h) + 2
    BY <1>2
  <2>2. CASE i \in 1 .. Len(h)
    BY <1>2, <1>3, <2>2 DEF Holds
  <2>3. CASE i = Len(h) + 1
    <3>1. (h \o Line(e))[i] = <<e, 1>>
      BY <1>1, <1>2, <2>3
    <3>2. QED
      BY <1>3, <3>1
  <2>4. CASE i = Len(h) + 2
    <3>1. (h \o Line(e))[i] = <<e, 2>>
      BY <1>1, <1>2, <2>4
    <3>2. QED
      BY <1>3, <3>1
  <2>5. QED
    BY <2>1, <2>2, <2>3, <2>4
<1>4. \A x : Holds(h, x) => Holds(h \o Line(e), x)
  BY <1>1, GrownHolds
<1>5. Holds(h \o Line(e), e)
  BY LineIsHeld
<1>6. QED
  BY <1>3, <1>4, <1>5 DEF Holds

(* Half a line that is added holds no event.                               *)
LEMMA TearHolds ==
  ASSUME NEW h \in Seq(Half), NEW e \in Event
  PROVE  \A x : Holds(Append(h, <<e, 1>>), x) <=> Holds(h, x)
<1>1. <<e, 1>> \in Half
  BY DEF Half
<1>2. /\ Len(Append(h, <<e, 1>>)) = Len(h) + 1 /\ Len(h) \in Nat
      /\ \A i \in 1 .. Len(h) : Append(h, <<e, 1>>)[i] = h[i]
      /\ Append(h, <<e, 1>>)[Len(h) + 1] = <<e, 1>>
      /\ DOMAIN Append(h, <<e, 1>>) = 1 .. Len(h) + 1 /\ DOMAIN h = 1 .. Len(h)
  BY <1>1, AppendProperties
<1>3. \A x : <<e, 1>> # <<x, 2>>
  OBVIOUS
<1>4. QED
  BY <1>2, <1>3 DEF Holds

(* A file holds nothing its content does not.                              *)
LEMMA FiledIsTaken ==
  ASSUME TypeOK, NEW s \in Stream
  PROVE  /\ \A b \in Bucket : \A e : Holds(disk[s][b], e) => Holds(Content(s, b), e)
         /\ Filed(s) \subseteq Taken(s)
<1>1. ASSUME NEW b \in Bucket, NEW e, Holds(disk[s][b], e)
      PROVE  Holds(Content(s, b), e)
  <2>1. disk[s][b] \in Seq(Half) /\ InBuffer(s, b) \in Seq(Half)
    BY ContentType
  <2>2. QED
    BY <1>1, <2>1, GrownHolds DEF Content
<1>2. ASSUME NEW e \in Filed(s) PROVE e \in Taken(s)
  <2>1. e \in Event /\ \E b \in Bucket : Holds(disk[s][b], e)
    BY LogsHold
  <2>2. \E b \in Bucket : Holds(Content(s, b), e)
    BY <1>1, <2>1
  <2>3. QED
    BY <2>1, <2>2, LogsHold
<1>3. QED
  BY <1>1, <1>2

(* With nothing in its buffer a stream's contents are its files.           *)
LEMMA EmptyBuffer ==
  ASSUME TypeOK, NEW s \in Stream, writer[s].open => writer[s].buf = << >>
  PROVE  /\ \A b \in Bucket : Content(s, b) = disk[s][b]
         /\ Filed(s) = Taken(s)
<1>1. ASSUME NEW b \in Bucket PROVE Content(s, b) = disk[s][b]
  <2>1. disk[s][b] \in Seq(Half) /\ InBuffer(s, b) = << >>
    BY ContentType DEF InBuffer
  <2>2. QED
    BY <2>1, ConcatEmptySeq DEF Content
<1>2. \A e : e \in Filed(s) <=> e \in Taken(s)
  <2>1. \A e : (\E b \in Bucket : Holds(Content(s, b), e))
                 <=> \E b \in Bucket : Holds(disk[s][b], e)
    BY <1>1
  <2>2. QED
    BY <2>1, LogsHold
<1>3. Filed(s) \subseteq Taken(s) /\ Taken(s) \subseteq Filed(s)
  BY <1>2
<1>4. QED
  BY <1>1, <1>3

(* Contents that are in order from bucket to bucket hold older events in   *)
(* what comes before a cut in the last of them than in what comes behind.  *)
LEMMA CutIsOldest ==
  ASSUME NEW f \in [Bucket -> Seq(Half)], NEW c \in Bucket, NEW n \in 0 .. Len(f[c]),
         \A b \in Bucket : Ordered(f[b]),
         \A a, b \in Bucket : a < b => Before(f[a], f[b]),
         \A b \in Bucket : b > c => f[b] = << >>,
         NEW S, \A e : e \in S <=> e \in Event /\ \E b \in Bucket : Holds(f[b], e),
         NEW P, \A e : e \in P <=> e \in Event /\ \E b \in Bucket :
                         Holds(IF b = c THEN SubSeq(f[c], 1, n) ELSE f[b], e)
  PROVE  Recorded!Oldest(P, S)
<1>1. f[c] \in Seq(Half) /\ Len(f[c]) \in Nat /\ n \in Nat /\ n <= Len(f[c])
  OBVIOUS
<1>2. /\ DOMAIN SubSeq(f[c], 1, n) = 1 .. n /\ DOMAIN f[c] = 1 .. Len(f[c])
      /\ \A i \in 1 .. n : SubSeq(f[c], 1, n)[i] = f[c][i]
  BY <1>1
<1>3. \A x : Holds(SubSeq(f[c], 1, n), x) => Holds(f[c], x)
  BY <1>1, <1>2 DEF Holds
<1>4. P \subseteq S
  BY <1>3
<1>5. ASSUME NEW x \in P, NEW y \in S \ P PROVE x < y
  <2>0. x \in Event /\ y \in Event /\ x # y
    BY <1>5
  <2>1. PICK d \in Bucket : Holds(f[d], y)
    BY <1>5
  <2>2. PICK j \in DOMAIN f[d] : f[d][j] = <<y, 2>>
    BY <2>1 DEF Holds
  <2>3. d = c
    BY <1>5, <2>0, <2>1
  <2>4. j \in 1 .. Len(f[c]) /\ ~(j <= n)
    <3>1. j \in 1 .. Len(f[c])
      BY <1>2, <2>2, <2>3
    <3>2. ~Holds(SubSeq(f[c], 1, n), y)
      BY <1>5, <2>0
    <3>3. j \notin 1 .. n
      BY <1>2, <2>2, <2>3, <3>2 DEF Holds
    <3>4. QED
      BY <1>1, <3>1, <3>3
  <2>5. PICK b \in Bucket : Holds(IF b = c THEN SubSeq(f[c], 1, n) ELSE f[b], x)
    BY <1>5
  <2>6. CASE b = c
    <3>1. PICK i \in 1 .. n : f[c][i] = <<x, 2>>
      BY <1>2, <2>5, <2>6 DEF Holds
    <3>2. i \in 1 .. Len(f[c]) /\ i < j
      BY <1>1, <2>4, <3>1
    <3>3. f[c][i][1] <= f[c][j][1]
      BY <2>4, <3>2 DEF Ordered
    <3>4. x <= y
      BY <2>2, <2>3, <3>1, <3>3
    <3>5. QED
      BY <2>0, <3>4 DEF Event
  <2>7. CASE b # c
    <3>1. PICK i \in DOMAIN f[b] : f[b][i] = <<x, 2>>
      BY <2>5, <2>7 DEF Holds
    <3>2. i \in 1 .. Len(f[b])
      BY <3>1
    <3>3. ~(b > c)
      BY <3>2
    <3>4. b < c
      BY <2>7, <3>3 DEF Bucket
    <3>5. f[b][i][1] < f[c][j][1]
      BY <2>4, <3>2, <3>4 DEF Before
    <3>6. QED
      BY <2>2, <2>3, <3>1, <3>5
  <2>8. QED
    BY <2>6, <2>7
<1>6. QED
  BY <1>4, <1>5 DEF Recorded!Oldest

(* What is in the files of a stream is older than what is in its buffer.   *)
FiledOldest == \A s \in Stream : Recorded!Oldest(Filed(s), Taken(s))

LEMMA FiledIsOldest == DurableInv => FiledOldest
<1>1. SUFFICES ASSUME DurableInv, NEW s \in Stream
               PROVE  Recorded!Oldest(Filed(s), Taken(s))
  BY DEF FiledOldest
<1> USE DEF DurableInv, IInv
<1>2. CASE ~writer[s].open
  <2>1. Filed(s) = Taken(s)
    BY <1>1, <1>2, EmptyBuffer
  <2>2. QED
    BY <2>1 DEF Recorded!Oldest
<1>3. CASE writer[s].open
  <2>1. PICK c \in Bucket : c = writer[s].bucket
    BY <1>1, BufferedType
  <2>2. PICK f : f = [b \in Bucket |-> Content(s, b)]
    OBVIOUS
  <2>3. f \in [Bucket -> Seq(Half)] /\ \A b \in Bucket : f[b] = Content(s, b)
    <3>1. \A b \in Bucket : Content(s, b) \in Seq(Half)
      BY <1>1, ContentType
    <3>2. QED
      BY <2>2, <3>1
  <2>4. /\ \A b \in Bucket : Ordered(f[b])
        /\ \A a, b \in Bucket : a < b => Before(f[a], f[b])
    BY <1>1, <2>3 DEF ContentSound
  <2>5. \A b \in Bucket : disk[s][b] \in Seq(Half)
    BY <1>1, ContentType
  <2>6. \A b \in Bucket : b # c => f[b] = disk[s][b]
    <3>1. SUFFICES ASSUME NEW b \in Bucket, b # c PROVE f[b] = disk[s][b]
      OBVIOUS
    <3>2. InBuffer(s, b) = << >>
      BY <2>1, <3>1 DEF InBuffer
    <3>3. disk[s][b] \o << >> = disk[s][b]
      BY <2>5, ConcatEmptySeq
    <3>4. QED
      BY <2>3, <3>2, <3>3 DEF Content
  <2>7. \A b \in Bucket : b > c => f[b] = << >>
    <3>1. \A b \in Bucket : b > c => disk[s][b] = << >> /\ b # c
      BY <1>1, <1>3, <2>1 DEF WritersInTurn, Bucket
    <3>2. QED
      BY <2>6, <3>1
  <2>8. PICK n \in 0 .. Len(f[c]) : disk[s][c] = SubSeq(f[c], 1, n)
    BY <1>1, <2>3, FileIsPrefix
  <2>9. \A e : e \in Taken(s) <=> e \in Event /\ \E b \in Bucket : Holds(f[b], e)
    BY <2>3, LogsHold
  <2>10. \A e : e \in Filed(s) <=> e \in Event /\ \E b \in Bucket :
                   Holds(IF b = c THEN SubSeq(f[c], 1, n) ELSE f[b], e)
    <3>1. \A b \in Bucket : disk[s][b] = IF b = c THEN SubSeq(f[c], 1, n) ELSE f[b]
      BY <2>6, <2>8
    <3>2. \A e : e \in Filed(s) <=> e \in Event /\ \E b \in Bucket : Holds(disk[s][b], e)
      BY LogsHold
    <3>3. QED
      BY <3>1, <3>2
  <2>11. QED
    BY <2>3, <2>4, <2>7, <2>9, <2>10, CutIsOldest
<1>4. QED
  BY <1>2, <1>3

(* The same after a step.                                                  *)
LEMMA FiledIsOldestNext == DurableInv' => FiledOldest'
  BY FiledIsOldest, PTL

(* What the abstract variables are when the logs of one stream, or of      *)
(* none, change.                                                           *)
LEMMA LogChange ==
  ASSUME NEW s \in Stream, NEW X, NEW Y,
         \A r \in Stream : Taken(r)' = (IF r = s THEN X ELSE Taken(r)),
         \A r \in Stream : Filed(r)' = (IF r = s THEN Y ELSE Filed(r))
  PROVE  Log' = [Log EXCEPT ![s] = X] /\ Saved' = [Saved EXCEPT ![s] = Y]
  BY DEF Log, Saved
LEMMA LogStutter ==
  ASSUME \A r \in Stream : Taken(r)' = Taken(r),
         \A r \in Stream : Filed(r)' = Filed(r)
  PROVE  Log' = Log /\ Saved' = Saved
  BY DEF Log, Saved
LEMMA SameFiled ==
  ASSUME disk' = disk PROVE \A r \in Stream : Filed(r)' = Filed(r)
  BY DEF Filed
LEMMA SameTaken ==
  ASSUME \A r \in Stream, b \in Bucket : Content(r, b)' = Content(r, b)
  PROVE  \A r \in Stream : Taken(r)' = Taken(r)
  BY DEF Taken

(* A flush saves more of one log.                                          *)
LEMMA FlushSaves ==
  ASSUME DurableInv, DurableInv', FlushStep
  PROVE  Recorded!Next
<1> USE DEF DurableInv, IInv
<1>1. PICK s \in Stream : \E k \in 0 .. Buffered(s) : writer[s].open /\ WriteOut(s, k)
  BY FlushesOpenWriter
<1>2. PICK k \in 0 .. Buffered(s) : writer[s].open /\ WriteOut(s, k)
  BY <1>1
<1>3. \A r \in Stream : Taken(r)' = Taken(r)
  BY <1>2, WriteOutKeeps, SameTaken
<1>4. PICK P : P = Filed(s)'
  OBVIOUS
<1>5. \A r \in Stream : Filed(r)' = (IF r = s THEN P ELSE Filed(r))
  <2>1. ASSUME NEW r \in Stream, r # s PROVE Filed(r)' = Filed(r)
    <3>1. disk'[r] = disk[r]
      BY <1>2, <2>1 DEF WriteOut, TypeOK
    <3>2. QED
      BY <3>1 DEF Filed
  <2>2. QED
    BY <1>4, <2>1
<1>6. Filed(s) \subseteq P
  <2>1. SUFFICES ASSUME NEW e \in Filed(s) PROVE e \in Filed(s)'
    BY <1>4
  <2>2. PICK b \in Bucket : e \in Event /\ Holds(disk[s][b], e)
    BY LogsHold
  <2>3. FilesGrow
    BY <1>2, WriteOutGrows
  <2>4. PICK g \in Seq(Half) : disk'[s][b] = disk[s][b] \o g
    BY <2>3 DEF FilesGrow
  <2>5. disk[s][b] \in Seq(Half)
    BY ContentType
  <2>6. Holds(disk'[s][b], e)
    BY <2>2, <2>4, <2>5, GrownHolds
  <2>7. QED
    BY <2>2, <2>6 DEF Filed, Holds
<1>7. Recorded!Oldest(P, Taken(s))
  <2>1. FiledOldest'
    BY FiledIsOldestNext
  <2>2. QED
    BY <1>3, <1>4, <2>1 DEF FiledOldest, Recorded!Oldest
<1>8. Phase = "recording" /\ Phase' = "recording"
  <2>1. /\ status \in {"running", "flushing", "flushed"}
        /\ status' \in {"running", "flushing", "flushed"}
    BY DEF FlushStep, RotateFlush, MakeRoom, FlushLine, FlushFails, FlushDue, FlushOne,
           FlushOneFails, FlushAllReturns, At, Shape, InCall
  <2>2. QED
    BY <2>1 DEF Phase
<1>9. Log' = Log /\ Saved' = [Saved EXCEPT ![s] = P] /\ Log[s] = Taken(s) /\ Saved[s] = Filed(s)
  <2>1. Log' = Log
    BY <1>3 DEF Log
  <2>2. Saved' = [Saved EXCEPT ![s] = P]
    BY <1>5 DEF Saved
  <2>3. QED
    BY <2>1, <2>2 DEF Log, Saved
<1>10. P \in SUBSET Log[s]
  BY <1>7, <1>9 DEF Recorded!Oldest
<1>11. Recorded!Save(s)
  BY <1>6, <1>7, <1>8, <1>9, <1>10 DEF Recorded!Save
<1>12. QED
  BY <1>11 DEF Recorded!Next

(* A line that is written is taken, and saved at once if nothing is before *)
(* it.                                                                     *)
LEMMA LineTakes ==
  ASSUME DurableInv, WriteLine \/ WriteThrough
  PROVE  Recorded!Next
<1> USE DEF DurableInv, IInv
<1>1. PICK s \in Stream, c \in Bucket : s = op.stream /\ c = op.bucket
  BY DEF TypeOK, Call
<1>2. PICK e \in Event : e = op.event
  BY LineContent
<1>3. /\ op.stage = "put" /\ writer[s].bucket = c
      /\ \A r \in Stream, b \in Bucket : Content(r, b)' =
           IF r = s /\ b = c THEN Content(r, b) \o Line(e) ELSE Content(r, b)
  BY <1>1, <1>2, LineContent
<1>4. \A r \in Stream, b \in Bucket : Content(r, b) \in Seq(Half)
  BY ContentType
<1>5. \A r \in Stream : Taken(r)' = IF r = s THEN Taken(s) \union {e} ELSE Taken(r)
  <2>1. ASSUME NEW r \in Stream, r # s PROVE Taken(r)' = Taken(r)
    <3>1. \A b \in Bucket : Content(r, b)' = Content(r, b)
      BY <1>3, <2>1
    <3>2. QED
      BY <3>1 DEF Taken
  <2>2. ASSUME NEW x \in Event
        PROVE  (\E b \in Bucket : Holds(Content(s, b)', x))
                 <=> (\E b \in Bucket : Holds(Content(s, b), x)) \/ x = e
    <3>1. Holds(Content(s, c) \o Line(e), x) <=> Holds(Content(s, c), x) \/ x = e
      BY <1>4, LineHolds
    <3>2. Content(s, c)' = Content(s, c) \o Line(e)
      BY <1>3
    <3>3. \A b \in Bucket : b # c => Content(s, b)' = Content(s, b)
      BY <1>3
    <3>4. QED
      BY <3>1, <3>2, <3>3
  <2>3. \A x \in Event : x \in Taken(s)' <=> \E b \in Bucket : Holds(Content(s, b)', x)
    BY DEF Taken, Holds, Content, InBuffer
  <2>4. Taken(s)' \subseteq Event
    BY DEF Taken, Event
  <2>5. Taken(s) \subseteq Event /\ \A x \in Event :
           x \in Taken(s) <=> \E b \in Bucket : Holds(Content(s, b), x)
    BY LogsHold
  <2>6. \A x : x \in Taken(s)' <=> x \in Taken(s) \union {e}
    BY <2>2, <2>3, <2>4, <2>5
  <2>7. QED
    BY <2>1, <2>6
<1>6. \A x \in Taken(s) : x < e
  <2>1. SUFFICES ASSUME NEW x \in Taken(s) PROVE x < e
    OBVIOUS
  <2>2. PICK b \in Bucket : x \in Event /\ Holds(Content(s, b), x)
    BY LogsHold
  <2>3. PICK i \in DOMAIN Content(s, b) : Content(s, b)[i] = <<x, 2>>
    BY <2>2 DEF Holds
  <2>4. i \in 1 .. Len(Content(s, b)) /\ UpTo(Content(s, b), Newest)
    BY <1>4, <2>3 DEF ContentSound
  <2>5. Newest = e - 1
    BY <1>2, <1>3 DEF Shape, InCall, Newest, Pending
  <2>6. x <= e - 1
    BY <2>3, <2>4, <2>5 DEF UpTo
  <2>7. QED
    BY <2>2, <2>6 DEF Event
<1>7. Phase = "recording" /\ Phase' = Phase
  BY <1>3 DEF Shape, InCall, Phase, WriteLine, WriteThrough
<1>8. \/ \A r \in Stream : Filed(r)' = Filed(r)
      \/ /\ Filed(s) = Taken(s)
         /\ \A r \in Stream : Filed(r)' = IF r = s THEN Filed(s) \union {e} ELSE Filed(r)
  <2>1. CASE WriteLine
    BY <2>1, SameFiled DEF WriteLine
  <2>2. CASE WriteThrough
    <3>1. writer[s].buf = << >>
      <4>1. writer[s].buf \in Seq(Half) /\ Len(writer[s].buf) = 0
        BY <1>1, <2>2, BufferedType DEF WriteThrough, Buffered
      <4>2. QED
        BY <4>1, EmptySeq
    <3>2. Filed(s) = Taken(s)
      BY <3>1, EmptyBuffer
    <3>3. \A r \in Stream, b \in Bucket :
             disk'[r][b] = IF r = s /\ b = c THEN disk[s][c] \o Line(e) ELSE disk[r][b]
      <4>1. disk' = [disk EXCEPT ![s][c] = disk[s][c] \o Line(e)]
        <5>1. disk' = [disk EXCEPT ![op.stream][writer[op.stream].bucket] =
                                     disk[op.stream][writer[op.stream].bucket] \o Line(op.event)]
          BY <2>2 DEF WriteThrough
        <5>2. QED
          BY <1>1, <1>2, <1>3, <5>1
      <4>2. disk \in [Stream -> [Bucket -> Seq(Half)]]
        BY <1>1 DEF TypeOK
      <4>3. QED
        BY <4>1, <4>2
    <3>4. disk[s][c] \in Seq(Half)
      BY ContentType
    <3>5. \A r \in Stream : Filed(r)' = IF r = s THEN Filed(s) \union {e} ELSE Filed(r)
      <4>1. ASSUME NEW r \in Stream, r # s PROVE Filed(r)' = Filed(r)
        BY <3>3, <4>1 DEF Filed
      <4>2. ASSUME NEW x \in Event
            PROVE  (\E b \in Bucket : Holds(disk'[s][b], x))
                     <=> (\E b \in Bucket : Holds(disk[s][b], x)) \/ x = e
        <5>1. Holds(disk[s][c] \o Line(e), x) <=> Holds(disk[s][c], x) \/ x = e
          BY <3>4, LineHolds
        <5>2. disk'[s][c] = disk[s][c] \o Line(e)
          BY <3>3
        <5>3. \A b \in Bucket : b # c => disk'[s][b] = disk[s][b]
          BY <3>3
        <5>4. QED
          BY <5>1, <5>2, <5>3
      <4>3. /\ Filed(s)' \subseteq Event
            /\ \A x \in Event : x \in Filed(s)' <=> \E b \in Bucket : Holds(disk'[s][b], x)
        BY DEF Filed, Holds, Event
      <4>4. Filed(s) \subseteq Event /\ \A x \in Event :
               x \in Filed(s) <=> \E b \in Bucket : Holds(disk[s][b], x)
        BY LogsHold
      <4>5. \A x : x \in Filed(s)' <=> x \in Filed(s) \union {e}
        BY <4>2, <4>3, <4>4
      <4>6. QED
        BY <4>1, <4>5
    <3>6. QED
      BY <3>2, <3>5
  <2>3. QED
    BY <2>1, <2>2
<1>9. Log' = [Log EXCEPT ![s] = Log[s] \union {e}] /\ Log[s] = Taken(s) /\ Saved[s] = Filed(s)
  <2>1. Log[s] = Taken(s) /\ Saved[s] = Filed(s)
    BY DEF Log, Saved
  <2>2. Log' = [Log EXCEPT ![s] = Taken(s) \union {e}]
    BY <1>5 DEF Log
  <2>3. QED
    BY <2>1, <2>2
<1>10. \/ Saved' = Saved
       \/ Saved[s] = Log[s] /\ Saved' = [Saved EXCEPT ![s] = Saved[s] \union {e}]
  <2>1. CASE \A r \in Stream : Filed(r)' = Filed(r)
    BY <2>1 DEF Saved
  <2>2. CASE /\ Filed(s) = Taken(s)
             /\ \A r \in Stream : Filed(r)' = IF r = s THEN Filed(s) \union {e} ELSE Filed(r)
    <3>1. Saved' = [Saved EXCEPT ![s] = Filed(s) \union {e}]
      BY <2>2 DEF Saved
    <3>2. QED
      BY <1>9, <2>2, <3>1
  <2>3. QED
    BY <1>8, <2>1, <2>2
<1>11. Recorded!Take(s, e)
  BY <1>6, <1>7, <1>9, <1>10 DEF Recorded!Take
<1>12. QED
  BY <1>11 DEF Recorded!Next

(* Streams with nothing in their buffers, before a step and after it.      *)
NothingBuffered ==
  \A s \in Stream : (writer[s].open => writer[s].buf = << >>) => Filed(s) = Taken(s)

LEMMA NothingBufferedIsFiled == TypeOK => NothingBuffered
  BY EmptyBuffer DEF NothingBuffered

LEMMA NothingBufferedNext == TypeOK' => NothingBuffered'
  BY NothingBufferedIsFiled, PTL

(* What is in a file stays there when files grow.                          *)
LEMMA FiledStays ==
  ASSUME TypeOK, FilesGrow, NEW s \in Stream
  PROVE  Filed(s) \subseteq Filed(s)'
<1>1. SUFFICES ASSUME NEW e \in Filed(s) PROVE e \in Filed(s)'
  OBVIOUS
<1>2. PICK b \in Bucket : e \in Event /\ Holds(disk[s][b], e)
  BY LogsHold
<1>3. PICK g \in Seq(Half) : disk'[s][b] = disk[s][b] \o g
  BY DEF FilesGrow
<1>4. disk[s][b] \in Seq(Half)
  BY ContentType
<1>5. Holds(disk'[s][b], e)
  BY <1>2, <1>3, <1>4, GrownHolds
<1>6. QED
  BY <1>2, <1>5 DEF Filed, Holds

(* The last flush of a stream settles it: what it did not write is gone    *)
(* with the writer, and that is the newest of the log.                     *)
LEMMA DropSettles ==
  ASSUME DurableInv, DurableInv', NEW s \in Stream, DropOne(s)
  PROVE  Recorded!Next
<1> USE DEF DurableInv, IInv
<1>1. PICK c \in Bucket :
        /\ c = writer[s].bucket
        /\ \A r \in Stream, b \in Bucket : r # s \/ b # c => Content(r, b)' = Content(r, b)
        /\ \E n \in 0 .. Len(Content(s, c)) :
             /\ Content(s, c)' = SubSeq(Content(s, c), 1, n)
             /\ spoiled' = IF n < Len(Content(s, c)) THEN spoiled \union {s} ELSE spoiled
  BY DropContent
<1>2. PICK n \in 0 .. Len(Content(s, c)) : Content(s, c)' = SubSeq(Content(s, c), 1, n)
  BY <1>1
<1>3. /\ writer[s].open /\ status = "dropping" /\ status' = status
      /\ writer' = [writer EXCEPT ![s] = Closed]
  BY DEF DropOne, Shape, OpenWriters
<1>4. PICK P : P = Taken(s)'
  OBVIOUS
<1>5. \A r \in Stream : Taken(r)' = IF r = s THEN P ELSE Taken(r)
  <2>1. ASSUME NEW r \in Stream, r # s PROVE Taken(r)' = Taken(r)
    <3>1. \A b \in Bucket : Content(r, b)' = Content(r, b)
      BY <1>1, <2>1
    <3>2. QED
      BY <3>1 DEF Taken
  <2>2. QED
    BY <1>4, <2>1
<1>6. PICK k \in 0 .. Buffered(s) :
        disk' = [disk EXCEPT ![s][writer[s].bucket] = @ \o SubSeq(writer[s].buf, 1, k)]
  BY DEF DropOne
<1>7. \A r \in Stream : Filed(r)' = IF r = s THEN P ELSE Filed(r)
  <2>1. ASSUME NEW r \in Stream, r # s PROVE Filed(r)' = Filed(r)
    <3>1. disk'[r] = disk[r]
      BY <1>6, <2>1 DEF TypeOK
    <3>2. QED
      BY <3>1 DEF Filed
  <2>2. Filed(s)' = P
    <3>1. ~writer'[s].open
      BY <1>3 DEF TypeOK, Closed
    <3>2. NothingBuffered'
      BY NothingBufferedNext
    <3>3. QED
      BY <1>4, <3>1, <3>2 DEF NothingBuffered
  <2>3. QED
    BY <2>1, <2>2
<1>8. Filed(s) \subseteq P
  <2>1. writer[s].bucket \in Bucket /\ SubSeq(writer[s].buf, 1, k) \in Seq(Half)
    BY <1>6, BufferedType, CutType DEF Buffered
  <2>2. FilesGrow
    BY <1>6, <2>1, AppendGrows
  <2>3. Filed(s) \subseteq Filed(s)'
    BY <2>2, FiledStays
  <2>4. QED
    BY <1>7, <2>3
<1>9. Recorded!Oldest(P, Taken(s))
  <2>1. PICK f : f = [b \in Bucket |-> Content(s, b)]
    OBVIOUS
  <2>2. f \in [Bucket -> Seq(Half)] /\ \A b \in Bucket : f[b] = Content(s, b)
    <3>1. \A b \in Bucket : Content(s, b) \in Seq(Half)
      BY ContentType
    <3>2. QED
      BY <2>1, <3>1
  <2>3. /\ \A b \in Bucket : Ordered(f[b])
        /\ \A a, b \in Bucket : a < b => Before(f[a], f[b])
    BY <2>2 DEF ContentSound
  <2>4. \A b \in Bucket : b > c => f[b] = << >>
    <3>1. SUFFICES ASSUME NEW b \in Bucket, b > c PROVE f[b] = << >>
      OBVIOUS
    <3>2. b # c /\ disk[s][b] = << >>
      BY <1>1, <1>3, <3>1 DEF WritersInTurn, Bucket
    <3>3. InBuffer(s, b) = << >>
      BY <1>1, <3>2 DEF InBuffer
    <3>4. << >> \in Seq(Half) /\ << >> \o << >> = << >>
      BY ConcatEmptySeq
    <3>5. QED
      BY <2>2, <3>2, <3>3, <3>4 DEF Content
  <2>5. \A e : e \in Taken(s) <=> e \in Event /\ \E b \in Bucket : Holds(f[b], e)
    BY <2>2, LogsHold
  <2>6. \A b \in Bucket : Content(s, b)' = IF b = c THEN SubSeq(f[c], 1, n) ELSE f[b]
    BY <1>1, <1>2, <2>2
  <2>7. \A e : e \in P <=> e \in Event /\ \E b \in Bucket :
                 Holds(IF b = c THEN SubSeq(f[c], 1, n) ELSE f[b], e)
    <3>1. \A e : e \in P <=> e \in Event /\ \E b \in Bucket : Holds(Content(s, b)', e)
      BY <1>4 DEF Taken, Holds, Content, InBuffer
    <3>2. QED
      BY <2>6, <3>1
  <2>8. n \in 0 .. Len(f[c])
    BY <2>2
  <2>9. QED
    BY <2>2, <2>3, <2>4, <2>5, <2>7, <2>8, CutIsOldest
<1>10. Phase = "closing" /\ Phase' = Phase
  BY <1>3 DEF Phase
<1>11. /\ Log' = [Log EXCEPT ![s] = P] /\ Saved' = [Saved EXCEPT ![s] = P]
       /\ Log[s] = Taken(s) /\ Saved[s] = Filed(s)
  <2>1. Log' = [Log EXCEPT ![s] = P]
    BY <1>5 DEF Log
  <2>2. Saved' = [Saved EXCEPT ![s] = P]
    BY <1>7 DEF Saved
  <2>3. QED
    BY <2>1, <2>2 DEF Log, Saved
<1>12. P \in SUBSET Log[s]
  BY <1>9, <1>11 DEF Recorded!Oldest
<1>13. Recorded!Settle(s)
  BY <1>8, <1>9, <1>10, <1>11, <1>12 DEF Recorded!Settle
<1>14. QED
  BY <1>13 DEF Recorded!Next

(* The death of the process, and the end of drop, leave what is saved.     *)
LEMMA ExitEnds ==
  ASSUME DurableInv, DurableInv', Crash \/ DropDone
  PROVE  Recorded!Next
<1> USE DEF DurableInv, IInv
<1>1. disk' = disk
  BY DEF Crash, DropDone
<1>2. \A r \in Stream : Filed(r)' = Filed(r)
  BY <1>1, SameFiled
<1>3. \A r \in Stream : ~writer'[r].open
  <2>1. CASE Crash
    BY <2>1 DEF Crash, Closed
  <2>2. CASE DropDone
    BY <2>2 DEF DropDone, WritersInTurn, OpenWriters
  <2>3. QED
    BY <2>1, <2>2
<1>4. \A r \in Stream : Taken(r)' = Filed(r)
  <2>1. NothingBuffered'
    BY NothingBufferedNext
  <2>2. QED
    BY <1>2, <1>3, <2>1 DEF NothingBuffered
<1>5. Log' = Saved /\ Saved' = Saved
  BY <1>2, <1>4 DEF Log, Saved
<1>6. Phase # "ended" /\ Phase' = "ended"
  BY DEF Crash, DropDone, Phase
<1>7. Recorded!End
  BY <1>5, <1>6 DEF Recorded!End
<1>8. QED
  BY <1>7 DEF Recorded!Next

(* A power failure takes a stretch of one log: what it leaves of the file  *)
(* is older, and the other files have only older or only newer events.     *)
LEMMA PowerLossLoses ==
  ASSUME DurableInv, DurableInv', NEW s \in Stream, NEW c \in Bucket, LoseUnsynced(s, c)
  PROVE  Recorded!Next
<1> USE DEF DurableInv, IInv
<1>1. /\ status = "crashed" /\ status' = "crashed" /\ writer' = writer
      /\ disk \in [Stream -> [Bucket -> Seq(Half)]]
      /\ synced[s][c] \in Nat
  BY DEF LoseUnsynced, TypeOK
<1>2. PICK h \in Seq(Half) : h = disk[s][c]
  BY <1>1
<1>3. PICK k \in synced[s][c] .. Len(h) - 1 :
        disk' = [disk EXCEPT ![s][c] = SubSeq(h, 1, k)]
  BY <1>1, <1>2 DEF LoseUnsynced
<1>4. /\ k \in Nat /\ k + 1 \in 1 .. Len(h) /\ Len(h) \in 1 .. Len(h) /\ k <= Len(h)
      /\ Len(h) \in Nat
  BY <1>1, <1>2, <1>3
<1>5. \A r \in Stream, b \in Bucket :
         disk'[r][b] = IF r = s /\ b = c THEN SubSeq(h, 1, k) ELSE disk[r][b]
  BY <1>1, <1>3
<1>6. /\ DOMAIN SubSeq(h, 1, k) = 1 .. k /\ DOMAIN h = 1 .. Len(h)
      /\ \A i \in 1 .. k : SubSeq(h, 1, k)[i] = h[i]
  BY <1>2, <1>4
<1>7. PICK first \in Event, last \in Event : first = h[k + 1][1] /\ last = h[Len(h)][1]
  <2>1. h[k + 1] \in Half /\ h[Len(h)] \in Half
    BY <1>2, <1>4
  <2>2. QED
    BY <2>1 DEF Half
<1>8. /\ WellFormed(h, torn) /\ Ordered(h)
      /\ \A b \in Bucket : b < c => Before(disk[s][b], h)
      /\ \A b \in Bucket : b > c => Before(h, disk[s][b])
  BY <1>2, FilesSound DEF LinesIntact, OrderKept, Bucket
<1>9. ASSUME NEW x \in Event, NEW i \in 1 .. Len(h), h[i] = <<x, 2>>
      PROVE  i > k <=> x \in first .. last
  <2>1. CASE i > k
    <3>1. i = k + 1 \/ k + 1 < i
      BY <1>4, <2>1
    <3>2. i = Len(h) \/ i < Len(h)
      BY <1>4
    <3>3. first <= x
      BY <1>4, <1>7, <1>8, <1>9, <3>1 DEF Ordered, Event
    <3>4. x <= last
      BY <1>4, <1>7, <1>8, <1>9, <3>2 DEF Ordered, Event
    <3>5. QED
      BY <2>1, <3>3, <3>4 DEF Event
  <2>2. CASE ~(i > k)
    <3>1. i < k + 1
      BY <1>4, <2>2
    <3>2. h[i][1] <= h[k + 1][1] /\ h[i] # h[k + 1]
      BY <1>4, <1>8, <3>1 DEF Ordered
    <3>3. x <= first
      BY <1>7, <1>9, <3>2
    <3>4. ASSUME x = first PROVE FALSE
      <4>1. h[k + 1] \in Half
        BY <1>2, <1>4
      <4>2. h[k + 1] = <<x, 1>>
        BY <1>7, <1>9, <3>2, <3>4, <4>1 DEF Half
      <4>3. i > 1 /\ h[i - 1] = <<x, 1>>
        BY <1>8, <1>9 DEF WellFormed
      <4>4. i - 1 \in 1 .. Len(h) /\ i - 1 < k + 1
        BY <1>4, <3>1, <4>3
      <4>5. h[i - 1] # h[k + 1]
        BY <1>4, <1>8, <4>4 DEF Ordered
      <4>6. QED
        BY <4>2, <4>3, <4>5
    <3>5. x < first
      BY <3>3, <3>4 DEF Event
    <3>6. QED
      BY <2>2, <3>5 DEF Event
  <2>3. QED
    BY <2>1, <2>2
<1>10. ASSUME NEW x \in Event, NEW b \in Bucket, b # c, Holds(disk[s][b], x)
       PROVE  x \notin first .. last
  <2>1. PICK i \in DOMAIN disk[s][b] : disk[s][b][i] = <<x, 2>>
    BY <1>10 DEF Holds
  <2>2. i \in 1 .. Len(disk[s][b])
    BY <1>1, <2>1
  <2>3. CASE b < c
    <3>1. disk[s][b][i][1] < h[k + 1][1]
      BY <1>4, <1>8, <2>2, <2>3 DEF Before
    <3>2. QED
      BY <1>7, <2>1, <3>1 DEF Event
  <2>4. CASE b > c
    <3>1. h[Len(h)][1] < disk[s][b][i][1]
      BY <1>4, <1>8, <2>2, <2>4 DEF Before
    <3>2. QED
      BY <1>7, <2>1, <3>1 DEF Event
  <2>5. QED
    BY <1>10, <2>3, <2>4 DEF Bucket
<1>11. \A x \in Event :
          Holds(SubSeq(h, 1, k), x) <=> Holds(h, x) /\ x \notin first .. last
  <2>1. SUFFICES ASSUME NEW x \in Event
                 PROVE  Holds(SubSeq(h, 1, k), x) <=> Holds(h, x) /\ x \notin first .. last
    OBVIOUS
  <2>2. ASSUME Holds(SubSeq(h, 1, k), x) PROVE Holds(h, x) /\ x \notin first .. last
    <3>1. PICK i \in 1 .. k : SubSeq(h, 1, k)[i] = <<x, 2>>
      BY <1>6, <2>2 DEF Holds
    <3>2. i \in 1 .. Len(h) /\ h[i] = <<x, 2>> /\ ~(i > k)
      BY <1>4, <1>6, <3>1
    <3>3. x \notin first .. last
      BY <1>9, <3>2
    <3>4. QED
      BY <1>6, <3>2, <3>3 DEF Holds
  <2>3. ASSUME Holds(h, x), x \notin first .. last PROVE Holds(SubSeq(h, 1, k), x)
    <3>1. PICK i \in 1 .. Len(h) : h[i] = <<x, 2>>
      BY <1>6, <2>3 DEF Holds
    <3>2. ~(i > k)
      BY <1>9, <2>3, <3>1
    <3>3. i \in 1 .. k
      BY <1>4, <3>2
    <3>4. QED
      BY <1>6, <3>1, <3>3 DEF Holds
  <2>4. QED
    BY <2>2, <2>3
<1>12. \A r \in Stream : Filed(r)' =
          IF r = s THEN Filed(s) \ (first .. last) ELSE Filed(r)
  <2>1. ASSUME NEW r \in Stream, r # s PROVE Filed(r)' = Filed(r)
    BY <1>5, <2>1 DEF Filed
  <2>2. ASSUME NEW x \in Event
        PROVE  (\E b \in Bucket : Holds(disk'[s][b], x))
                 <=> (\E b \in Bucket : Holds(disk[s][b], x)) /\ x \notin first .. last
    <3>1. disk'[s][c] = SubSeq(h, 1, k) /\ disk[s][c] = h
      BY <1>2, <1>5
    <3>2. \A b \in Bucket : b # c => disk'[s][b] = disk[s][b]
      BY <1>5
    <3>3. QED
      BY <1>10, <1>11, <3>1, <3>2
  <2>3. /\ Filed(s)' \subseteq Event
        /\ \A x \in Event : x \in Filed(s)' <=> \E b \in Bucket : Holds(disk'[s][b], x)
    BY DEF Filed, Holds, Event
  <2>4. Filed(s) \subseteq Event /\ \A x \in Event :
           x \in Filed(s) <=> \E b \in Bucket : Holds(disk[s][b], x)
    BY LogsHold
  <2>5. \A x : x \in Filed(s)' <=> x \in Filed(s) \ (first .. last)
    BY <2>2, <2>3, <2>4
  <2>6. QED
    BY <2>1, <2>5
<1>13. \A r \in Stream : Taken(r) = Filed(r) /\ Taken(r)' = Filed(r)'
  <2>1. \A r \in Stream : ~writer[r].open /\ ~writer'[r].open
    BY <1>1 DEF Shape, OpenWriters
  <2>2. NothingBuffered /\ NothingBuffered'
    BY NothingBufferedIsFiled, NothingBufferedNext
  <2>3. QED
    BY <2>1, <2>2 DEF NothingBuffered
<1>14. /\ Log' = [Log EXCEPT ![s] = Log[s] \ (first .. last)]
       /\ Saved' = [Saved EXCEPT ![s] = Saved[s] \ (first .. last)]
  <2>1. Log[s] = Filed(s) /\ Saved[s] = Filed(s)
    BY <1>13 DEF Log, Saved
  <2>2. \A r \in Stream : Taken(r)' =
           IF r = s THEN Filed(s) \ (first .. last) ELSE Taken(r)
    BY <1>12, <1>13
  <2>3. Log' = [Log EXCEPT ![s] = Filed(s) \ (first .. last)]
    BY <2>2 DEF Log
  <2>4. Saved' = [Saved EXCEPT ![s] = Filed(s) \ (first .. last)]
    BY <1>12 DEF Saved
  <2>5. QED
    BY <2>1, <2>3, <2>4
<1>15. Phase = "ended" /\ Phase' = Phase
  BY <1>1 DEF Phase
<1>16. Recorded!Lose(s)
  BY <1>14, <1>15 DEF Recorded!Lose
<1>17. QED
  BY <1>16 DEF Recorded!Next

(* A torn line is in no log.                                               *)
LEMMA TearChangesNoLog ==
  ASSUME DurableInv, WriteThroughFails
  PROVE  UNCHANGED << Log, Saved, Phase >>
<1> USE DEF DurableInv, IInv
<1>1. Phase' = Phase
  BY DEF WriteThroughFails, Phase
<1>2. PICK s \in Stream, c \in Bucket : s = op.stream /\ c = op.bucket
  BY DEF TypeOK, Call
<1>3. /\ op.stage = "put" /\ writer' = writer /\ writer[s].bucket = c
      /\ Buffered(s) = 0 /\ op.event \in Event
  BY <1>2, BigLineType DEF WriteThroughFails, At, Shape
<1>4. CASE disk' = disk
  <2>1. \A r \in Stream : Taken(r)' = Taken(r)
    BY <1>3, <1>4, SameContent, SameTaken
  <2>2. \A r \in Stream : Filed(r)' = Filed(r)
    BY <1>4, SameFiled
  <2>3. QED
    BY <1>1, <2>1, <2>2 DEF Log, Saved
<1>5. CASE disk' = [disk EXCEPT ![op.stream][writer[op.stream].bucket] =
                                  Append(@, <<op.event, 1>>)]
  <2>1. PICK e \in Event : e = op.event
    BY <1>3
  <2>2. \A r \in Stream, b \in Bucket : Content(r, b)' =
           IF r = s /\ b = c THEN Append(Content(r, b), <<e, 1>>) ELSE Content(r, b)
    BY <1>2, <1>3, <1>5, <2>1, TearContent
  <2>3. \A r \in Stream, b \in Bucket : disk'[r][b] =
           IF r = s /\ b = c THEN Append(disk[r][b], <<e, 1>>) ELSE disk[r][b]
    BY <1>2, <1>3, <1>5, <2>1 DEF TypeOK
  <2>4. ASSUME NEW r \in Stream, NEW b \in Bucket, NEW x
        PROVE  /\ Holds(Content(r, b)', x) <=> Holds(Content(r, b), x)
               /\ Holds(disk'[r][b], x) <=> Holds(disk[r][b], x)
    <3>1. Content(r, b) \in Seq(Half) /\ disk[r][b] \in Seq(Half)
      BY ContentType
    <3>2. /\ Holds(Append(Content(r, b), <<e, 1>>), x) <=> Holds(Content(r, b), x)
          /\ Holds(Append(disk[r][b], <<e, 1>>), x) <=> Holds(disk[r][b], x)
      BY <3>1, TearHolds
    <3>3. CASE r = s /\ b = c
      BY <2>2, <2>3, <3>2, <3>3
    <3>4. CASE ~(r = s /\ b = c)
      BY <2>2, <2>3, <3>4
    <3>5. QED
      BY <3>3, <3>4
  <2>5. \A r \in Stream : \A x : x \in Taken(r)' <=> x \in Event /\ \E b \in Bucket : Holds(Content(r, b)', x)
    BY DEF Taken, Holds, Content, InBuffer
  <2>6. \A r \in Stream : \A x : x \in Filed(r)' <=> x \in Event /\ \E b \in Bucket : Holds(disk'[r][b], x)
    BY DEF Filed, Holds
  <2>7. \A r \in Stream : \A x : (x \in Taken(r)' <=> x \in Taken(r)) /\ (x \in Filed(r)' <=> x \in Filed(r))
    BY <2>4, <2>5, <2>6, LogsHold
  <2>8. \A r \in Stream : Taken(r)' = Taken(r) /\ Filed(r)' = Filed(r)
    BY <2>7
  <2>9. QED
    BY <1>1, <2>8 DEF Log, Saved
<1>6. QED
  BY <1>4, <1>5 DEF WriteThroughFails

(* The store implements EventLog, one log per stream.                      *)
LEMMA LogStep ==
  ASSUME DurableInv, DurableInv', [Next]_vars
  PROVE  Recorded!Next \/ UNCHANGED << Log, Saved, Phase >>
<1> USE DEF DurableInv, IInv
<1>1. CASE FlushStep
  BY <1>1, FlushSaves
<1>2. CASE WriteLine \/ WriteThrough
  BY <1>2, LineTakes
<1>3. ASSUME NEW s \in Stream, DropOne(s) PROVE Recorded!Next
  BY <1>3, DropSettles
<1>4. CASE Crash \/ DropDone
  BY <1>4, ExitEnds
<1>5. ASSUME NEW s \in Stream, NEW c \in Bucket, LoseUnsynced(s, c) PROVE Recorded!Next
  BY <1>5, PowerLossLoses
<1>6. CASE WriteThroughFails
  BY <1>6, TearChangesNoLog
<1>7. CASE BeginDrop
  <2>1. /\ UNCHANGED << writer, disk >> /\ status = "flushed" /\ status' = "dropping"
    BY <1>7 DEF BeginDrop
  <2>2. Log' = Log /\ Saved' = Saved
    BY <2>1, SameContent, SameTaken, SameFiled, LogStutter
  <2>3. Phase = "recording" /\ Phase' = "closing"
    BY <2>1 DEF Phase
  <2>4. Recorded!Close
    BY <2>2, <2>3 DEF Recorded!Close
  <2>5. QED
    BY <2>4 DEF Recorded!Next
<1>8. CASE OpenWriter \/ RotateReopen
  <2>1. disk' = disk /\ status' = status
    BY <1>8 DEF OpenWriter, RotateReopen
  <2>2. Log' = Log /\ Saved' = Saved
    BY <1>8, <2>1, RotationContent, SameTaken, SameFiled, LogStutter
  <2>3. QED
    BY <2>1, <2>2 DEF Phase
<1>9. ASSUME UNCHANGED << writer, disk >>, Phase' = Phase
      PROVE  UNCHANGED << Log, Saved, Phase >>
  BY <1>9, SameContent, SameTaken, SameFiled, LogStutter
<1>10. CASE \/ \E s \in Stream, big \in BOOLEAN : BeginWrite(s, big)
            \/ SameBucket \/ SyncLine \/ OpenOrSyncFails \/ FlushAllDone \/ BeginFlushAll
            \/ AdvanceBucket \/ UNCHANGED vars
  <2>1. UNCHANGED << writer, disk >>
    BY <1>10 DEF BeginWrite, SameBucket, SyncLine, OpenOrSyncFails, FlushAllDone,
                 BeginFlushAll, AdvanceBucket, vars
  <2>2. \/ status' = status
        \/ /\ status \in {"running", "flushing"}
           /\ status' \in {"flushing", "flushed"}
    BY <1>10 DEF BeginWrite, SameBucket, SyncLine, OpenOrSyncFails, FlushAllDone,
                 FlushAllReturns, BeginFlushAll, AdvanceBucket, vars
  <2>3. Phase' = Phase
    BY <2>2 DEF Phase
  <2>4. QED
    BY <1>9, <2>1, <2>3
<1>11. QED
  BY <1>1, <1>2, <1>3, <1>4, <1>5, <1>6, <1>7, <1>8, <1>10
     DEF Next, CallStep, Finished, FlushStep

LEMMA LogInit == Init => Recorded!Init
<1> SUFFICES ASSUME Init PROVE Recorded!Init
  OBVIOUS
<1>1. \A s \in Stream, b \in Bucket : disk[s][b] = << >>
  BY DEF Init
<1>2. \A s \in Stream : writer[s].buf = << >>
  BY DEF Init, Closed
<1>3. TypeOK
  BY InvariantInit DEF IInv
<1>4. \A s \in Stream : Filed(s) = {} /\ Taken(s) = Filed(s)
  <2>1. SUFFICES ASSUME NEW s \in Stream PROVE Filed(s) = {} /\ Taken(s) = Filed(s)
    OBVIOUS
  <2>2. Taken(s) = Filed(s)
    BY <1>2, <1>3, EmptyBuffer
  <2>3. Filed(s) = {}
    BY <1>1 DEF Filed
  <2>4. QED
    BY <2>2, <2>3
<1>5. Log = [s \in Stream |-> {}] /\ Saved = [s \in Stream |-> {}]
  BY <1>4 DEF Log, Saved
<1>6. Phase = "recording"
  BY DEF Init, Phase
<1>7. QED
  BY <1>5, <1>6 DEF Recorded!Init

(* Every behaviour of the store is one of EventLog: per stream a log to    *)
(* which only newer events are added, of which ever more of the oldest is  *)
(* in the files, and which loses nothing but what was not in them.         *)
THEOREM StoreImplementsEventLog == Spec => RecordsLog
<1>1. Init => Recorded!Init
  BY LogInit
<1>2. DurableInv /\ DurableInv' /\ [Next]_vars => [Recorded!Next]_(Recorded!logVars)
  BY LogStep DEF Recorded!logVars
<1>3. QED
  BY <1>1, <1>2, DurableInvariant, PTL DEF Spec, RecordsLog, Recorded!Spec

-----------------------------------------------------------------------------
(* What a torn line costs.                                                 *)

(* A set is no larger than one it maps into without a collision.           *)
LEMMA NoLarger ==
  ASSUME NEW S, NEW T, IsFiniteSet(T), NEW f \in [S -> T],
         \A x, y \in S : f[x] = f[y] => x = y
  PROVE  IsFiniteSet(S) /\ Cardinality(S) <= Cardinality(T)
<1>1. f \in Injection(S, T)
  BY DEF Injection, IsInjective
<1>2. QED
  BY <1>1, FS_Injection

(* The line of event e stands behind the torn half of event t.             *)
Glued(s, e, t) ==
  \E b \in Bucket : \E j \in 2 .. Len(disk[s][b]) :
    disk[s][b][j] = <<e, 1>> /\ disk[s][b][j - 1] = <<t, 1>>

(* A line in a file that is not readable is glued to a torn half.          *)
LEMMA UnreadableIsGlued ==
  ASSUME IInv, NEW s \in Stream, NEW e \in Filed(s), e \notin Readable(s)
  PROVE  \E t \in torn : Glued(s, e, t)
<1>1. PICK b \in Bucket : e \in Event /\ Holds(disk[s][b], e)
  BY LogsHold
<1>2. PICK h \in Seq(Half) : h = disk[s][b]
  BY DEF IInv, TypeOK
<1>3. PICK i \in 1 .. Len(h) : h[i] = <<e, 2>>
  BY <1>1, <1>2 DEF Holds
<1>4. WellFormed(h, torn)
  BY <1>2, FilesSound DEF LinesIntact
<1>5. i > 1 /\ h[i - 1] = <<e, 1>> /\ i - 1 \in 1 .. Len(h) - 1 /\ Len(h) \in Nat
  BY <1>2, <1>3, <1>4 DEF WellFormed
<1>6. ~(i - 1 > 1 => h[i - 2][2] = 2)
  <2>1. SUFFICES ASSUME i - 1 > 1 => h[i - 2][2] = 2 PROVE FALSE
    OBVIOUS
  <2>2. /\ disk[s][b][i - 1] = <<e, 1>>
        /\ disk[s][b][i - 1 + 1] = <<e, 2>>
        /\ i - 1 > 1 => disk[s][b][i - 1 - 1][2] = 2
    <3>1. i - 1 + 1 = i /\ i - 1 - 1 = i - 2
      OBVIOUS
    <3>2. QED
      BY <1>2, <1>3, <1>5, <2>1, <3>1
  <2>3. e \in Readable(s)
    BY <1>1, <1>2, <1>5, <2>2 DEF Readable
  <2>4. QED
    BY <2>3
<1>7. i - 2 \in 1 .. Len(h) /\ i - 2 < Len(h) /\ h[i - 2][2] # 2 /\ i - 2 + 1 = i - 1
  BY <1>5, <1>6
<1>8. h[i - 2] \in Half
  BY <1>2, <1>7
<1>9. PICK t \in Event : h[i - 2] = <<t, 1>>
  BY <1>7, <1>8 DEF Half
<1>10. t \in torn
  BY <1>4, <1>5, <1>7, <1>9 DEF WellFormed
<1>11. /\ i - 1 \in 2 .. Len(disk[s][b]) /\ disk[s][b][i - 1] = <<e, 1>>
       /\ disk[s][b][i - 1 - 1] = <<t, 1>>
  BY <1>2, <1>5, <1>7, <1>9
<1>12. QED
  BY <1>10, <1>11 DEF Glued

(* One torn half is in one place and has one line glued to it.             *)
LEMMA OneIsGlued ==
  ASSUME IInv, NEW s \in Stream, NEW e, NEW x, NEW t \in Event,
         Glued(s, e, t), Glued(s, x, t)
  PROVE  e = x
<1>0. disk \in [Stream -> [Bucket -> Seq(Half)]]
  BY DEF IInv, TypeOK
<1>1. PICK a \in Bucket : \E i \in 2 .. Len(disk[s][a]) :
        disk[s][a][i] = <<e, 1>> /\ disk[s][a][i - 1] = <<t, 1>>
  BY DEF Glued
<1>2. PICK i \in 2 .. Len(disk[s][a]) :
        disk[s][a][i] = <<e, 1>> /\ disk[s][a][i - 1] = <<t, 1>>
  BY <1>1
<1>3. PICK b \in Bucket : \E j \in 2 .. Len(disk[s][b]) :
        disk[s][b][j] = <<x, 1>> /\ disk[s][b][j - 1] = <<t, 1>>
  BY DEF Glued
<1>4. PICK j \in 2 .. Len(disk[s][b]) :
        disk[s][b][j] = <<x, 1>> /\ disk[s][b][j - 1] = <<t, 1>>
  BY <1>3
<1>5. /\ \A c \in Bucket : Ordered(disk[s][c])
      /\ \A c, d \in Bucket : c < d => Before(disk[s][c], disk[s][d])
  BY FilesSound DEF OrderKept
<1>6. i - 1 \in 1 .. Len(disk[s][a]) /\ j - 1 \in 1 .. Len(disk[s][b])
  BY <1>0
<1>7. a = b
  <2>1. ~(a < b)
    <3>1. SUFFICES ASSUME a < b PROVE FALSE
      OBVIOUS
    <3>2. disk[s][a][i - 1][1] < disk[s][b][j - 1][1]
      BY <1>5, <1>6, <3>1 DEF Before
    <3>3. QED
      BY <1>2, <1>4, <3>2 DEF Event
  <2>2. ~(b < a)
    <3>1. SUFFICES ASSUME b < a PROVE FALSE
      OBVIOUS
    <3>2. disk[s][b][j - 1][1] < disk[s][a][i - 1][1]
      BY <1>5, <1>6, <3>1 DEF Before
    <3>3. QED
      BY <1>2, <1>4, <3>2 DEF Event
  <2>3. QED
    BY <2>1, <2>2 DEF Bucket
<1>8. i - 1 = j - 1
  <2>1. ~(i - 1 < j - 1)
    BY <1>2, <1>4, <1>5, <1>6, <1>7 DEF Ordered
  <2>2. ~(j - 1 < i - 1)
    BY <1>2, <1>4, <1>5, <1>6, <1>7 DEF Ordered
  <2>3. QED
    BY <2>1, <2>2
<1>9. i = j
  BY <1>8
<1>10. QED
  BY <1>2, <1>4, <1>7, <1>9

(* After an orderly exit a torn line has cost at most one acknowledged     *)
(* event of each stream, the one glued to it.                              *)
THEOREM TearsCostOneEventEach == Spec => []OneVictimPerTear
<1>1. DurableInv => OneVictimPerTear
  <2>1. SUFFICES ASSUME DurableInv, status = "closed", NEW s \in Stream \ spoiled
                 PROVE  Cardinality(acked[s] \ Readable(s)) <= Cardinality(torn)
    BY DEF OneVictimPerTear
  <2> USE DEF DurableInv
  <2>2. acked[s] \subseteq Filed(s)
    <3>1. acked[s] \subseteq Taken(s)
      BY <2>1 DEF IInv, AckedKept
    <3>2. ~writer[s].open
      BY <2>1 DEF WritersInTurn, OpenWriters
    <3>3. QED
      BY <2>1, <3>1, <3>2, EmptyBuffer DEF IInv
  <2>3. PICK S : S = acked[s] \ Readable(s)
    OBVIOUS
  <2>4. \A e \in S : \E t \in torn : Glued(s, e, t)
    BY <2>1, <2>2, <2>3, UnreadableIsGlued
  <2>5. PICK f : f = [e \in S |-> CHOOSE t \in torn : Glued(s, e, t)]
    OBVIOUS
  <2>6. f \in [S -> torn] /\ \A e \in S : Glued(s, e, f[e])
    BY <2>4, <2>5
  <2>7. \A e, x \in S : f[e] = f[x] => e = x
    <3>1. SUFFICES ASSUME NEW e \in S, NEW x \in S, f[e] = f[x] PROVE e = x
      OBVIOUS
    <3>2. f[e] \in Event /\ Glued(s, e, f[e]) /\ Glued(s, x, f[e])
      BY <2>1, <2>6, <3>1 DEF IInv, TypeOK
    <3>3. QED
      BY <2>1, <3>2, OneIsGlued
  <2>8. IsFiniteSet(torn)
    <3>1. IsFiniteSet(Event)
      BY StorageAssumption, FS_Interval DEF Event
    <3>2. QED
      BY <2>1, <3>1, FS_Subset DEF IInv, TypeOK
  <2>9. QED
    BY <2>3, <2>6, <2>7, <2>8, NoLarger
<1>2. QED
  BY <1>1, DurableInvariant, PTL

-----------------------------------------------------------------------------
(* The recording tasks and the shutdown.                                   *)

(* The events some part of which a stream's files and buffer hold.         *)
Present(s) ==
  {e \in Event : \E b \in Bucket : \E i \in 1 .. Len(Content(s, b)) :
                    Content(s, b)[i][1] = e}

(* An event is where it was written: home is its stream.                   *)
AtHome ==
  /\ \A s \in Stream : \A e \in Present(s) : e \in 1 .. offered /\ home[e] = s
  /\ InCall => home[op.event] = op.stream

(* Time stamps are of the past.                                            *)
StampsPast ==
  /\ \A t \in Task : frame[t].ts <= clock
  /\ \A e \in 1 .. offered : stamp[e] <= clock

(* A frame at work is the newest that its streams have heard of.           *)
FrameNewest ==
  \A t \in Task : frame[t].left > 0 =>
    \A e \in 1 .. offered : home[e] \in StreamsOf[t] => stamp[e] <= frame[t].ts

(* A stream's events are stamped in the order of their writes.             *)
StampsInOrder ==
  \A d, e \in 1 .. offered : d < e /\ home[d] = home[e] => stamp[d] <= stamp[e]

(* What the frames at work still have to write.                            *)
Owed == {p \in Task \X (1 .. MaxItems) : p[2] <= frame[p[1]].left}

(* Every event a stamped frame consists of is offered or still owed, and   *)
(* a task that has ended owes none.                                        *)
NoneForgotten ==
  /\ status # "crashed" => IsFiniteSet(Owed) /\ Cardinality(Owed) = due - offered
  /\ \A t \in Task \ alive : frame[t].left = 0
  /\ status \in {"dropping", "closed"} => alive = {}

(* Where no call can fail, every offered event is acknowledged once its    *)
(* call has returned.                                                      *)
NothingFailed ==
  ~IoErrors =>
    /\ torn = {} /\ spoiled = {}
    /\ status # "crashed" =>
         \A e \in 1 .. offered : e \in acked[home[e]] \/ (InCall /\ e = op.event)

RecorderInv ==
  /\ DurableInv /\ RecorderTypeOK /\ AtHome
  /\ StampsPast /\ FrameNewest /\ StampsInOrder
  /\ NoneForgotten /\ NothingFailed

-----------------------------------------------------------------------------
(* A step of the recorder is a step of the store.                          *)
LEMMA StorageStep ==
  ASSUME [RecorderNext]_recorderVars
  PROVE  [Next]_vars
<1>1. CASE \E t \in Task, items \in 1 .. MaxItems : Stamp(t, items)
  BY <1>1 DEF Stamp
<1>2. ASSUME NEW t \in Task, NEW s \in Stream, NEW big \in BOOLEAN,
             big => Oversize, WriteOne(t, s, big)
      PROVE  Next
  BY <1>2 DEF WriteOne, Next
<1>3. CASE Tick \/ Signal \/ \E t \in Task : TaskEnds(t)
  BY <1>3 DEF Tick, Signal, TaskEnds
<1>4. CASE FlushAfterJoin \/ LastHandleDropped \/ ProcessDies
  BY <1>4 DEF FlushAfterJoin, LastHandleDropped, ProcessDies, Next
<1>5. CASE \/ CallStep \/ AdvanceBucket \/ Finished
           \/ \E s \in Stream, b \in Bucket : LoseUnsynced(s, b)
  BY <1>5 DEF Next
<1>6. CASE UNCHANGED recorderVars
  BY <1>6 DEF recorderVars
<1>7. QED
  BY <1>1, <1>2, <1>3, <1>4, <1>5, <1>6 DEF RecorderNext

(* The store alone: what its theorems say holds of the recorder.           *)
THEOREM RecorderRunsStore == RecorderSpec => Spec
<1>1. RecorderInit => Init
  BY DEF RecorderInit
<1>2. [RecorderNext]_recorderVars => [Next]_vars
  BY StorageStep
<1>3. QED
  BY <1>1, <1>2, PTL DEF RecorderSpec, Spec

-----------------------------------------------------------------------------
(* What the files and buffers hold.                                        *)

(* A half that is held belongs to an event that is present.                *)
LEMMA HeldIsPresent ==
  ASSUME TypeOK, NEW s \in Stream, NEW b \in Bucket, NEW i \in 1 .. Len(Content(s, b))
  PROVE  Content(s, b)[i][1] \in Present(s)
<1>1. Content(s, b) \in Seq(Half)
  BY ContentType
<1>2. Content(s, b)[i] \in Half
  BY <1>1
<1>3. QED
  BY <1>2 DEF Present, Half

(* Contents that stay, or are cut, bring no event.                         *)
LEMMA CutBringsNone ==
  ASSUME TypeOK, TypeOK',
         \A r \in Stream, b \in Bucket : \E n \in 0 .. Len(Content(r, b)) :
            Content(r, b)' = SubSeq(Content(r, b), 1, n)
  PROVE  \A r \in Stream : Present(r)' \subseteq Present(r)
<1>1. SUFFICES ASSUME NEW r \in Stream, NEW e \in Event, NEW b \in Bucket,
                      NEW i \in 1 .. Len(Content(r, b)'), Content(r, b)'[i][1] = e
               PROVE  e \in Present(r)
  BY Zenon DEF Present
<1>2. PICK n \in 0 .. Len(Content(r, b)) : Content(r, b)' = SubSeq(Content(r, b), 1, n)
  OBVIOUS
<1>3. Content(r, b) \in Seq(Half)
  BY ContentType
<1>4. i \in 1 .. n /\ i \in 1 .. Len(Content(r, b)) /\ Content(r, b)'[i] = Content(r, b)[i]
  BY <1>2, <1>3
<1>5. QED
  BY <1>1, <1>4 DEF Present

(* So do contents that do not change.                                      *)
LEMMA SameBringsNone ==
  ASSUME \A r \in Stream, b \in Bucket : Content(r, b)' = Content(r, b)
  PROVE  \A r \in Stream : Present(r)' \subseteq Present(r)
  BY DEF Present

(* A step adds a run to one content; the halves of a run are one event's.  *)
AddsTo(s, c, g) ==
  \A r \in Stream, b \in Bucket : Content(r, b)' =
    IF r = s /\ b = c THEN Content(r, b) \o g ELSE Content(r, b)
PartOf(g, e) == \A i \in 1 .. Len(g) : g[i][1] = e

(* What is added to one content brings the event it is part of.            *)
LEMMA AddedBringsOwn ==
  ASSUME TypeOK, NEW s \in Stream, NEW c \in Bucket, NEW e \in Event, NEW g \in Seq(Half),
         PartOf(g, e), AddsTo(s, c, g)
  PROVE  \A r \in Stream : \A x \in Present(r)' : x \in Present(r) \/ (r = s /\ x = e)
<1> USE DEF AddsTo, PartOf
<1>0. \A r \in Stream : \A x \in Present(r)' :
         x \in Event /\ \E b \in Bucket : \E i \in 1 .. Len(Content(r, b)') :
                           Content(r, b)'[i][1] = x
  BY DEF Present, Content, InBuffer
<1>1. SUFFICES ASSUME NEW r \in Stream, NEW x \in Event, NEW b \in Bucket,
                      NEW i \in 1 .. Len(Content(r, b)'), Content(r, b)'[i][1] = x
               PROVE  x \in Present(r) \/ (r = s /\ x = e)
  BY <1>0
<1>2. CASE r = s /\ b = c
  <2>1. Content(r, b) \in Seq(Half) /\ Content(r, b)' = Content(r, b) \o g
    BY <1>2, ContentType
  <2>2. /\ Len(Content(r, b)') = Len(Content(r, b)) + Len(g)
        /\ Len(Content(r, b)) \in Nat /\ Len(g) \in Nat
        /\ \A j \in 1 .. Len(Content(r, b)) : Content(r, b)'[j] = Content(r, b)[j]
        /\ \A j \in Len(Content(r, b)) + 1 .. Len(Content(r, b)) + Len(g) :
              Content(r, b)'[j] = g[j - Len(Content(r, b))]
    BY <2>1, Concat
  <2>3. CASE i <= Len(Content(r, b))
    BY <1>1, <2>2, <2>3 DEF Present
  <2>4. CASE i > Len(Content(r, b))
    <3>1. i - Len(Content(r, b)) \in 1 .. Len(g)
      BY <2>2, <2>4
    <3>2. Content(r, b)'[i] = g[i - Len(Content(r, b))]
      BY <2>2, <2>4
    <3>3. QED
      BY <1>1, <1>2, <3>1, <3>2
  <2>5. QED
    BY <2>2, <2>3, <2>4
<1>3. CASE ~(r = s /\ b = c)
  BY <1>1, <1>3 DEF Present
<1>4. QED
  BY <1>2, <1>3

(* A step brings no event but that of the call that holds the mutex.       *)
LEMMA StepBringsOwn ==
  ASSUME IInv, TypeOK', [Next]_vars, NEW r \in Stream, NEW x \in Present(r)'
  PROVE  x \in Present(r) \/ (InCall /\ r = op.stream /\ x = op.event)
<1> USE DEF IInv
<1>1. PICK s \in Stream, c \in Bucket : s = op.stream /\ c = op.bucket
  BY DEF TypeOK, Call
<1>2. CASE WriteLine \/ WriteThrough
  <2>1. PICK e \in Event : e = op.event
    BY <1>2, LineContent
  <2>3. PICK g \in Seq(Half) : g = Line(e) /\ PartOf(g, e)
    <3>1. Line(e) \in Seq(Half) /\ \A i \in 1 .. Len(Line(e)) : Line(e)[i][1] = e
      BY LineType DEF Line
    <3>2. QED
      BY <3>1 DEF PartOf
  <2>2. op.stage = "put" /\ AddsTo(s, c, g)
    BY <1>1, <1>2, <2>1, <2>3, LineContent DEF AddsTo
  <2>4. \A q \in Stream : \A y \in Present(q)' : y \in Present(q) \/ (q = s /\ y = e)
    BY <2>2, <2>3, AddedBringsOwn
  <2>5. QED
    BY <1>1, <2>1, <2>2, <2>4 DEF InCall
<1>3. CASE WriteThroughFails /\ disk' # disk
  <2>1. PICK e \in Event : e = op.event /\ <<e, 1>> \in Half
    BY <1>3, BigLineType DEF WriteThroughFails, At
  <2>2. /\ op.stage = "put" /\ Buffered(op.stream) = 0 /\ writer' = writer
        /\ disk' = [disk EXCEPT ![op.stream][writer[op.stream].bucket] =
                                  Append(@, <<op.event, 1>>)]
    BY <1>3 DEF WriteThroughFails, At
  <2>3. \A q \in Stream, b \in Bucket : Content(q, b)' =
           IF q = s /\ b = c THEN Append(Content(q, b), <<e, 1>>) ELSE Content(q, b)
    BY <1>1, <2>1, <2>2, TearContent
  <2>4. \A q \in Stream, b \in Bucket :
           Append(Content(q, b), <<e, 1>>) = Content(q, b) \o << <<e, 1>> >>
    <3>1. SUFFICES ASSUME NEW q \in Stream, NEW b \in Bucket
                   PROVE  Append(Content(q, b), <<e, 1>>) = Content(q, b) \o << <<e, 1>> >>
      OBVIOUS
    <3>2. Content(q, b) \in Seq(Half)
      BY ContentType
    <3>3. QED
      BY <2>1, <3>2, AppendIsConcat
  <2>5. PICK g \in Seq(Half) : g = << <<e, 1>> >> /\ PartOf(g, e)
    <3>1. /\ << <<e, 1>> >> \in Seq(Half)
          /\ \A i \in 1 .. Len(<< <<e, 1>> >>) : << <<e, 1>> >>[i][1] = e
      BY <2>1
    <3>2. QED
      BY <3>1 DEF PartOf
  <2>6. AddsTo(s, c, g)
    BY <2>3, <2>4, <2>5 DEF AddsTo
  <2>7. \A q \in Stream : \A y \in Present(q)' : y \in Present(q) \/ (q = s /\ y = e)
    BY <2>5, <2>6, AddedBringsOwn
  <2>8. QED
    BY <1>1, <2>1, <2>2, <2>7 DEF InCall
<1>4. CASE \/ SameBucket \/ SyncLine \/ OpenOrSyncFails \/ FlushAllDone \/ DropDone
           \/ \E q \in Stream, big \in BOOLEAN : BeginWrite(q, big)
           \/ BeginFlushAll \/ BeginDrop \/ AdvanceBucket \/ Finished
           \/ UNCHANGED vars \/ (WriteThroughFails /\ disk' = disk)
  <2>1. UNCHANGED << writer, disk >>
    BY <1>4 DEF SameBucket, SyncLine, OpenOrSyncFails, FlushAllDone, DropDone, BeginWrite,
           BeginFlushAll, BeginDrop, AdvanceBucket, Finished, vars, WriteThroughFails
  <2>2. QED
    BY <2>1, SameContent, SameBringsNone
<1>5. CASE OpenWriter \/ RotateReopen
  BY <1>5, RotationContent, SameBringsNone
<1>6. CASE FlushStep
  <2>1. \A q \in Stream, b \in Bucket : Content(q, b)' = Content(q, b)
    BY <1>6, FlushesOpenWriter, WriteOutKeeps
  <2>2. QED
    BY <2>1, SameBringsNone
<1>7. CASE \/ Crash \/ \E q \in Stream : DropOne(q)
           \/ \E q \in Stream, b \in Bucket : LoseUnsynced(q, b)
  <2>1. SUFFICES ASSUME NEW q \in Stream, NEW b \in Bucket
                 PROVE  \E n \in 0 .. Len(Content(q, b)) :
                           Content(q, b)' = SubSeq(Content(q, b), 1, n)
    BY CutBringsNone
  <2>2. /\ Content(q, b) \in Seq(Half) /\ Len(Content(q, b)) \in Nat
        /\ Len(Content(q, b)) \in 0 .. Len(Content(q, b))
        /\ Content(q, b) = SubSeq(Content(q, b), 1, Len(Content(q, b)))
    BY ContentType
  <2>3. CASE Content(q, b)' = Content(q, b)
    BY <2>2, <2>3
  <2>4. CASE Crash
    <3>1. disk' = disk /\ ~writer'[q].open
      BY <2>4 DEF Crash, Closed
    <3>2. Content(q, b)' = disk[q][b] \o << >>
      BY <3>1 DEF Content, InBuffer
    <3>3. disk[q][b] \in Seq(Half)
      BY ContentType
    <3>4. Content(q, b)' = disk[q][b]
      BY <3>2, <3>3, ConcatEmptySeq
    <3>5. QED
      BY <3>4, FileIsPrefix
  <2>5. ASSUME NEW d \in Stream, DropOne(d)
        PROVE  \E n \in 0 .. Len(Content(q, b)) :
                  Content(q, b)' = SubSeq(Content(q, b), 1, n)
    BY <2>2, <2>5, DropContent
  <2>6. ASSUME NEW d \in Stream, NEW a \in Bucket, LoseUnsynced(d, a)
        PROVE  \E n \in 0 .. Len(Content(q, b)) :
                  Content(q, b)' = SubSeq(Content(q, b), 1, n)
    <3>1. /\ writer' = writer /\ status = "crashed"
          /\ disk \in [Stream -> [Bucket -> Seq(Half)]] /\ synced[d][a] \in Nat
      BY <2>6 DEF LoseUnsynced, TypeOK
    <3>2. PICK k \in synced[d][a] .. Len(disk[d][a]) - 1 :
            disk' = [disk EXCEPT ![d][a] = SubSeq(@, 1, k)]
      BY <2>6 DEF LoseUnsynced
    <3>3. ~writer[q].open /\ writer[q].buf = << >>
      BY <3>1 DEF Shape, OpenWriters
    <3>4. Content(q, b) = disk[q][b] /\ disk[q][b] \in Seq(Half)
      BY <3>1, <3>3, EmptyBuffer
    <3>5. Content(q, b)' = disk'[q][b] \o << >>
      BY <3>1, <3>3 DEF Content, InBuffer
    <3>6. disk'[q][b] \in Seq(Half)
      BY DEF TypeOK
    <3>7. Content(q, b)' = disk'[q][b]
      BY <3>5, <3>6, ConcatEmptySeq
    <3>8. CASE q = d /\ b = a
      <4>1. disk'[q][b] = SubSeq(disk[q][b], 1, k)
        BY <3>1, <3>2, <3>8
      <4>2. k \in 0 .. Len(disk[q][b])
        BY <3>1, <3>2, <3>4, <3>8
      <4>3. QED
        BY <3>4, <3>7, <4>1, <4>2
    <3>9. CASE ~(q = d /\ b = a)
      BY <2>2, <3>1, <3>2, <3>4, <3>7, <3>9
    <3>10. QED
      BY <3>8, <3>9
  <2>7. QED
    BY <1>7, <2>4, <2>5, <2>6
<1>8. QED
  BY <1>2, <1>3, <1>4, <1>5, <1>6, <1>7 DEF Next, CallStep, FlushStep

-----------------------------------------------------------------------------
(* What a step that begins no write does with the calls.                   *)
LEMMA CallMovesOn ==
  ASSUME IInv, [Next]_vars, offered' = offered
  PROVE  /\ \A r \in Stream : acked[r] \subseteq acked'[r]
         /\ InCall' => InCall /\ op'.event = op.event /\ op'.stream = op.stream
         /\ ~IoErrors => torn' = torn /\ spoiled' = spoiled
         /\ ~IoErrors /\ InCall /\ ~InCall' /\ status' # "crashed" =>
              op.event \in acked'[op.stream]
<1> USE DEF IInv
<1>0. /\ op \in Call /\ op.stream \in Stream /\ offered \in Nat
      /\ acked \in [Stream -> SUBSET Event]
  BY DEF TypeOK, Call
<1>00. NoOp.stage = "idle"
  BY NoOpType
<1>1. ASSUME NEW s \in Stream, NEW big \in BOOLEAN, BeginWrite(s, big) PROVE FALSE
  BY <1>0, <1>1 DEF BeginWrite
<1>2. CASE OpenWriter \/ SameBucket \/ RotateFlush \/ RotateReopen \/ FlushLine \/ MakeRoom
  <2>1. UNCHANGED << acked, torn, spoiled >>
    BY <1>2 DEF OpenWriter, SameBucket, RotateFlush, RotateReopen, FlushLine, MakeRoom
  <2>2. \/ op' = op
        \/ Goto("put") \/ Goto("reopen") \/ Goto("sync")
    BY <1>2 DEF OpenWriter, SameBucket, RotateFlush, RotateReopen, FlushLine, MakeRoom
  <2>3. InCall
    BY <1>2 DEF OpenWriter, SameBucket, RotateFlush, RotateReopen, FlushLine, MakeRoom,
           At, InCall
  <2>4. InCall' /\ op'.event = op.event /\ op'.stream = op.stream
    BY <1>0, <2>2, <2>3 DEF Goto, InCall, Call
  <2>5. QED
    BY <2>1, <2>3, <2>4
<1>3. CASE WriteLine \/ WriteThrough \/ SyncLine
  <2>1. torn' = torn /\ spoiled' = spoiled /\ InCall
    BY <1>3 DEF WriteLine, WriteThrough, SyncLine, At, InCall
  <2>2. \/ Goto("flush") /\ acked' = acked
        \/ ReturnOk
    BY <1>3 DEF WriteLine, WriteThrough, SyncLine
  <2>3. CASE Goto("flush") /\ acked' = acked
    BY <1>0, <2>1, <2>3 DEF Goto, InCall, Call
  <2>4. CASE ReturnOk
    <3>1. /\ ~InCall'
          /\ acked' = [acked EXCEPT ![op.stream] = @ \union {op.event}]
      BY <1>00, <2>4 DEF ReturnOk, InCall
    <3>2. \A r \in Stream : acked[r] \subseteq acked'[r]
      BY <1>0, <3>1
    <3>3. op.event \in acked'[op.stream]
      BY <1>0, <3>1
    <3>4. QED
      BY <2>1, <3>1, <3>2, <3>3
  <2>5. QED
    BY <2>2, <2>3, <2>4
<1>4. CASE OpenOrSyncFails \/ FlushFails \/ WriteThroughFails
  <2>1. IoErrors /\ op' = NoOp /\ acked' = acked
    BY <1>4 DEF OpenOrSyncFails, FlushFails, WriteThroughFails, ReturnErr
  <2>2. ~InCall'
    BY <1>00, <2>1 DEF InCall
  <2>3. QED
    BY <2>1, <2>2
<1>5. CASE \E s \in Stream : FlushOneFails(s)
  <2>1. IoErrors /\ op' = NoOp /\ acked' = acked
    BY <1>5 DEF FlushOneFails, FlushAllReturns
  <2>2. ~InCall'
    BY <1>00, <2>1 DEF InCall
  <2>3. QED
    BY <2>1, <2>2
<1>6. CASE FlushAllDone \/ BeginFlushAll
  <2>1. UNCHANGED << acked, torn, spoiled >> /\ status \in {"flushing", "running"}
    BY <1>6 DEF FlushAllDone, BeginFlushAll
  <2>2. op'.stage \in {"idle", "flush_all"}
    BY <1>00, <1>6, NoOpIsTyped DEF FlushAllDone, FlushAllReturns, BeginFlushAll, NoOp
  <2>3. ~InCall
    BY <1>6 DEF FlushAllDone, BeginFlushAll, At, Shape, InCall
  <2>4. QED
    BY <2>1, <2>2, <2>3 DEF InCall
<1>7. CASE Crash
  <2>1. UNCHANGED << acked, torn, spoiled >> /\ status' = "crashed" /\ ~InCall'
    BY <1>00, <1>7 DEF Crash, InCall
  <2>2. QED
    BY <2>1
<1>8. CASE \/ \E s \in Stream : FlushOne(s)
           \/ DropDone \/ BeginDrop \/ AdvanceBucket \/ Finished \/ UNCHANGED vars
           \/ \E s \in Stream, b \in Bucket : LoseUnsynced(s, b)
  <2>1. UNCHANGED << op, acked, torn, spoiled >>
    BY <1>8 DEF FlushOne, DropDone, BeginDrop, AdvanceBucket, Finished, LoseUnsynced, vars
  <2>2. QED
    BY <2>1 DEF InCall
<1>9. ASSUME NEW s \in Stream, DropOne(s)
      PROVE  /\ UNCHANGED << op, acked, torn >>
             /\ ~IoErrors => spoiled' = spoiled
  <2>1. UNCHANGED << op, acked, torn >>
    BY <1>9 DEF DropOne
  <2>2. PICK k \in 0 .. Buffered(s) :
          /\ k = Buffered(s) \/ IoErrors
          /\ spoiled' = IF k < Buffered(s) THEN spoiled \union {s} ELSE spoiled
    BY <1>9 DEF DropOne
  <2>3. Buffered(s) \in Nat
    BY BufferedType
  <2>4. QED
    BY <2>1, <2>2, <2>3
<1>10. CASE \E s \in Stream : DropOne(s)
  BY <1>9, <1>10 DEF InCall
<1>11. QED
  BY <1>1, <1>2, <1>3, <1>4, <1>5, <1>6, <1>7, <1>8, <1>10 DEF Next, CallStep

(* The steps of the store that are none of a task's.                       *)
StoreMoves ==
  /\ UNCHANGED taskVars
  /\ \/ FlushAfterJoin \/ LastHandleDropped \/ CallStep \/ AdvanceBucket \/ Finished
     \/ \E s \in Stream, b \in Bucket : LoseUnsynced(s, b)

(* They offer no event, and the store is dropped only behind the tasks.    *)
LEMMA StoreOffersNone ==
  ASSUME StoreMoves
  PROVE  /\ [Next]_vars /\ offered' = offered
         /\ status' # "crashed" => status # "crashed"
         /\ status' \in {"dropping", "closed"} =>
              alive = {} \/ status \in {"dropping", "closed"}
<1>1. CASE FlushAfterJoin \/ LastHandleDropped
  BY <1>1 DEF FlushAfterJoin, LastHandleDropped, BeginFlushAll, BeginDrop, Next
<1>2. CASE AdvanceBucket \/ Finished \/ \E s \in Stream, b \in Bucket : LoseUnsynced(s, b)
  <2>1. Next
    BY <1>2 DEF Next
  <2>2. offered' = offered /\ status' = status
    BY <1>2 DEF AdvanceBucket, Finished, LoseUnsynced, vars
  <2>3. QED
    BY <2>1, <2>2
<1>3. CASE CallStep
  <2>1. Next
    BY <1>3 DEF Next
  <2>2. CASE OpenWriter \/ SameBucket \/ RotateFlush \/ RotateReopen
             \/ WriteLine \/ MakeRoom \/ WriteThrough \/ FlushLine \/ SyncLine
             \/ OpenOrSyncFails \/ FlushFails \/ WriteThroughFails
    <3>1. offered' = offered /\ status' = status
      BY <2>2 DEF OpenWriter, SameBucket, RotateFlush, RotateReopen, WriteLine, MakeRoom,
             WriteThrough, FlushLine, SyncLine, OpenOrSyncFails, FlushFails, WriteThroughFails
    <3>2. QED
      BY <2>1, <3>1
  <2>3. CASE \E s \in Stream : FlushOne(s) \/ FlushOneFails(s) \/ DropOne(s)
    <3>1. offered' = offered /\ (status' = status \/
                                 (status = "flushing" /\ status' = "flushed"))
      BY <2>3 DEF FlushOne, FlushOneFails, DropOne, FlushAllReturns
    <3>2. QED
      BY <2>1, <3>1
  <2>4. CASE FlushAllDone \/ DropDone
    BY <2>1, <2>4 DEF FlushAllDone, FlushAllReturns, DropDone
  <2>5. QED
    BY <1>3, <2>2, <2>3, <2>4 DEF CallStep
<1>4. QED
  BY <1>1, <1>2, <1>3 DEF StoreMoves

(* The steps of the recorder, by whom they are.                            *)
LEMMA RecorderCases ==
  ASSUME [RecorderNext]_recorderVars
  PROVE  \/ \E t \in Task, items \in 1 .. MaxItems : Stamp(t, items)
         \/ \E t \in Task, s \in Stream, big \in BOOLEAN :
              (big => Oversize) /\ WriteOne(t, s, big)
         \/ \E t \in Task : TaskEnds(t)
         \/ Tick \/ Signal \/ StoreMoves \/ ProcessDies \/ UNCHANGED recorderVars
  BY DEF RecorderNext, StoreMoves, FlushAfterJoin, LastHandleDropped

-----------------------------------------------------------------------------
(* The parts of the invariant, step by step.                               *)

(* The types of the tasks' variables.                                      *)
LEMMA RecorderTypeStep ==
  ASSUME RecorderTypeOK, TypeOK', [RecorderNext]_recorderVars
  PROVE  RecorderTypeOK'
<1> USE RecorderAssumption DEF RecorderTypeOK
<1>0. /\ offered \in Nat /\ MaxEvents \in Nat
      /\ frame \in [Task -> [ts : 0 .. MaxClock, left : 0 .. MaxItems]]
  BY StorageAssumption DEF TypeOK
<1>1. ASSUME NEW t \in Task, NEW items \in 1 .. MaxItems, Stamp(t, items)
      PROVE  RecorderTypeOK'
  <2>1. /\ UNCHANGED << vars, clock, user, alive, signalled, stamp, home >>
        /\ frame' = [frame EXCEPT ![t] = [ts |-> clock, left |-> items]]
        /\ due' = due + items /\ due + items <= MaxEvents
    BY <1>1 DEF Stamp
  <2>2. [ts |-> clock, left |-> items] \in [ts : 0 .. MaxClock, left : 0 .. MaxItems]
    OBVIOUS
  <2>3. frame' \in [Task -> [ts : 0 .. MaxClock, left : 0 .. MaxItems]]
    BY <1>0, <2>1, <2>2
  <2>4. due' \in 0 .. MaxEvents
    BY <1>0, <2>1
  <2>5. offered' = offered
    BY <2>1 DEF vars
  <2>6. QED
    BY <2>1, <2>3, <2>4, <2>5
<1>2. ASSUME NEW t \in Task, NEW s \in Stream, NEW big \in BOOLEAN, WriteOne(t, s, big)
      PROVE  RecorderTypeOK'
  <2>1. /\ UNCHANGED << clock, alive, signalled, due >>
        /\ frame[t].left > 0
        /\ frame' = [frame EXCEPT ![t].left = @ - 1]
        /\ stamp' = Append(stamp, frame[t].ts) /\ home' = Append(home, s)
        /\ user' = t /\ offered' = offered + 1
    BY <1>2 DEF WriteOne, BeginWrite
  <2>2. frame[t].ts \in 0 .. MaxClock /\ frame[t].left \in 0 .. MaxItems
    BY <1>0
  <2>3. frame' \in [Task -> [ts : 0 .. MaxClock, left : 0 .. MaxItems]]
    <3>1. PICK k : k = frame[t].left
      OBVIOUS
    <3>2. k \in 0 .. MaxItems /\ k > 0 /\ MaxItems \in Nat
      BY <2>1, <2>2, <3>1, RecorderAssumption, Zenon
    <3>3. k - 1 \in 0 .. MaxItems
      BY <3>2
    <3>4. [frame[t] EXCEPT !.left = k - 1] \in [ts : 0 .. MaxClock, left : 0 .. MaxItems]
      BY <1>0, <3>3
    <3>5. frame' = [frame EXCEPT ![t] = [frame[t] EXCEPT !.left = k - 1]]
      BY <2>1, <3>1
    <3>6. QED
      BY <1>0, <3>4, <3>5
  <2>4. stamp' \in Seq(0 .. MaxClock) /\ Len(stamp') = offered'
    BY <2>1, <2>2
  <2>5. home' \in Seq(Stream) /\ Len(home') = offered'
    BY <2>1
  <2>6. QED
    BY <2>1, <2>3, <2>4, <2>5
<1>3. ASSUME NEW t \in Task, TaskEnds(t) PROVE RecorderTypeOK'
  BY <1>3 DEF TaskEnds, vars
<1>4. CASE Tick \/ Signal
  <2>1. /\ UNCHANGED << vars, frame, user, alive, stamp, home, due >>
        /\ clock' = clock \/ (clock < MaxClock /\ clock' = clock + 1)
        /\ signalled' = signalled \/ signalled' = TRUE
    BY <1>4 DEF Tick, Signal
  <2>2. clock' \in 0 .. MaxClock
    BY <2>1
  <2>3. signalled' \in BOOLEAN
    BY <2>1
  <2>4. offered' = offered
    BY <2>1 DEF vars
  <2>5. QED
    BY <2>1, <2>2, <2>3, <2>4
<1>5. CASE StoreMoves
  <2>1. offered' = offered /\ UNCHANGED taskVars
    BY <1>5, StoreOffersNone DEF StoreMoves
  <2>2. QED
    BY <2>1 DEF taskVars
<1>6. CASE ProcessDies
  <2>1. /\ UNCHANGED << clock, user, signalled, stamp, home, due, offered >>
        /\ alive' = {} /\ frame' = [t \in Task |-> Idle]
    BY <1>6 DEF ProcessDies, Crash
  <2>2. Idle \in [ts : 0 .. MaxClock, left : 0 .. MaxItems]
    BY DEF Idle
  <2>3. QED
    BY <2>1, <2>2
<1>7. CASE UNCHANGED recorderVars
  BY <1>7 DEF recorderVars, taskVars, vars
<1>8. QED
  BY <1>1, <1>2, <1>3, <1>4, <1>5, <1>6, <1>7, RecorderCases

(* What a write adds to the histories, and that no other step adds to them.*)
LEMMA HistoryStep ==
  ASSUME RecorderTypeOK, [RecorderNext]_recorderVars
  PROVE  \/ UNCHANGED << offered, stamp, home >>
         \/ \E t \in Task, s \in Stream, big \in BOOLEAN :
              /\ WriteOne(t, s, big)
              /\ offered' = offered + 1 /\ offered \in Nat
              /\ stamp'[offered + 1] = frame[t].ts /\ home'[offered + 1] = s
              /\ \A e \in 1 .. offered : stamp'[e] = stamp[e] /\ home'[e] = home[e]
<1>1. ASSUME NEW t \in Task, NEW s \in Stream, NEW big \in BOOLEAN, WriteOne(t, s, big)
      PROVE  /\ offered' = offered + 1 /\ offered \in Nat
             /\ stamp'[offered + 1] = frame[t].ts /\ home'[offered + 1] = s
             /\ \A e \in 1 .. offered : stamp'[e] = stamp[e] /\ home'[e] = home[e]
  <2>1. /\ stamp' = Append(stamp, frame[t].ts) /\ home' = Append(home, s)
        /\ offered' = offered + 1
    BY <1>1 DEF WriteOne, BeginWrite
  <2>2. /\ stamp \in Seq(0 .. MaxClock) /\ home \in Seq(Stream) /\ offered \in Nat
        /\ Len(stamp) = offered /\ Len(home) = offered /\ frame[t].ts \in 0 .. MaxClock
    BY DEF RecorderTypeOK, TypeOK
  <2>3. QED
    BY <2>1, <2>2
<1>2. CASE \/ \E t \in Task, items \in 1 .. MaxItems : Stamp(t, items)
           \/ \E t \in Task : TaskEnds(t)
           \/ Tick \/ Signal
  BY <1>2 DEF Stamp, TaskEnds, Tick, Signal, vars
<1>3. CASE StoreMoves
  BY <1>3, StoreOffersNone DEF StoreMoves, taskVars
<1>4. CASE ProcessDies \/ UNCHANGED recorderVars
  BY <1>4 DEF ProcessDies, Crash, recorderVars, taskVars, vars
<1>5. QED
  BY <1>1, <1>2, <1>3, <1>4, RecorderCases

(* Every event stays where it was written.                                 *)
LEMMA AtHomeStep ==
  ASSUME IInv, TypeOK', RecorderTypeOK, AtHome, [RecorderNext]_recorderVars
  PROVE  AtHome'
<1> USE DEF IInv
<1>0. [Next]_vars
  BY StorageStep
<1>1. ASSUME NEW r \in Stream, NEW x \in Present(r)'
      PROVE  x \in 1 .. offered /\ home[x] = r
  <2>1. CASE x \in Present(r)
    BY <2>1 DEF AtHome
  <2>2. CASE InCall /\ r = op.stream /\ x = op.event
    <3>1. op.event = offered /\ op.event \in Event /\ offered \in Nat
      BY <2>2 DEF Shape, TypeOK, Call, InCall
    <3>2. QED
      BY <2>2, <3>1 DEF AtHome, Event
  <2>3. QED
    BY <1>0, <2>1, <2>2, StepBringsOwn
<1>2. CASE UNCHANGED << offered, stamp, home >>
  <2>1. InCall' => InCall /\ op'.event = op.event /\ op'.stream = op.stream
    BY <1>0, <1>2, CallMovesOn
  <2>2. InCall' => home'[op'.event] = op'.stream
    BY <1>2, <2>1 DEF AtHome
  <2>3. \A r \in Stream : \A x \in Present(r)' : x \in 1 .. offered' /\ home'[x] = r
    BY <1>1, <1>2
  <2>4. QED
    BY <2>2, <2>3 DEF AtHome
<1>3. ASSUME NEW t \in Task, NEW s \in Stream, NEW big \in BOOLEAN,
             WriteOne(t, s, big),
             offered' = offered + 1, offered \in Nat, home'[offered + 1] = s,
             \A e \in 1 .. offered : home'[e] = home[e]
      PROVE  AtHome'
  <2>1. op'.event = offered + 1 /\ op'.stream = s
    BY <1>3 DEF WriteOne, BeginWrite
  <2>2. InCall' => home'[op'.event] = op'.stream
    BY <1>3, <2>1
  <2>3. \A r \in Stream : \A x \in Present(r)' : x \in 1 .. offered' /\ home'[x] = r
    BY <1>1, <1>3
  <2>4. QED
    BY <2>2, <2>3 DEF AtHome
<1>4. QED
  BY <1>2, <1>3, HistoryStep

(* Stamps are of the past, a frame at work has the newest of its streams,  *)
(* and so a stream's events are stamped in the order of their writes.      *)
LEMMA StampsStep ==
  ASSUME RecorderTypeOK, StampsPast, FrameNewest, StampsInOrder,
         [RecorderNext]_recorderVars
  PROVE  StampsPast' /\ FrameNewest' /\ StampsInOrder'
<1> USE DEF StampsPast, FrameNewest, StampsInOrder
<1>0. /\ frame \in [Task -> [ts : 0 .. MaxClock, left : 0 .. MaxItems]]
      /\ clock \in Nat /\ offered \in Nat
      /\ \A t \in Task : frame[t].ts \in Nat /\ frame[t].left \in Nat
      /\ \A e \in 1 .. offered : stamp[e] \in Nat
  BY RecorderAssumption DEF RecorderTypeOK, TypeOK
<1>1. ASSUME NEW t \in Task, NEW items \in 1 .. MaxItems, Stamp(t, items)
      PROVE  StampsPast' /\ FrameNewest' /\ StampsInOrder'
  <2>1. /\ UNCHANGED << clock, stamp, home, offered >>
        /\ frame' = [frame EXCEPT ![t] = [ts |-> clock, left |-> items]]
    BY <1>1 DEF Stamp, vars
  <2>2. \A u \in Task : frame'[u] = IF u = t THEN [ts |-> clock, left |-> items]
                                             ELSE frame[u]
    BY <1>0, <2>1
  <2>3. QED
    BY <1>0, <2>1, <2>2
<1>2. ASSUME NEW t \in Task, NEW s \in Stream, NEW big \in BOOLEAN,
             WriteOne(t, s, big),
             offered' = offered + 1, offered \in Nat,
             stamp'[offered + 1] = frame[t].ts, home'[offered + 1] = s,
             \A e \in 1 .. offered : stamp'[e] = stamp[e] /\ home'[e] = home[e]
      PROVE  StampsPast' /\ FrameNewest' /\ StampsInOrder'
  <2>1. /\ clock' = clock /\ s \in StreamsOf[t] /\ frame[t].left > 0
        /\ frame' = [frame EXCEPT ![t].left = @ - 1]
    BY <1>2 DEF WriteOne
  <2>2. \A u \in Task : /\ frame'[u].ts = frame[u].ts
                        /\ frame'[u].left > 0 => frame[u].left > 0
    BY <1>0, <2>1
  <2>3. \A u \in Task : s \in StreamsOf[u] => u = t
    BY <2>1, OwnStreams
  <2>4. \A e \in 1 .. offered' : e \in 1 .. offered \/ e = offered + 1
    BY <1>2
  <2>5. StampsPast'
    BY <1>0, <1>2, <2>1, <2>2, <2>4
  <2>6. FrameNewest'
    <3>1. SUFFICES ASSUME NEW u \in Task, frame'[u].left > 0, NEW e \in 1 .. offered',
                          home'[e] \in StreamsOf[u]
                   PROVE  stamp'[e] <= frame'[u].ts
      OBVIOUS
    <3>2. CASE e \in 1 .. offered
      BY <1>2, <2>2, <3>1, <3>2
    <3>3. CASE e = offered + 1
      BY <1>0, <1>2, <2>2, <2>3, <3>1, <3>3
    <3>4. QED
      BY <2>4, <3>2, <3>3
  <2>7. StampsInOrder'
    <3>1. SUFFICES ASSUME NEW d \in 1 .. offered', NEW e \in 1 .. offered', d < e,
                          home'[d] = home'[e]
                   PROVE  stamp'[d] <= stamp'[e]
      OBVIOUS
    <3>2. d \in 1 .. offered
      BY <1>2, <3>1
    <3>3. CASE e \in 1 .. offered
      BY <1>2, <3>1, <3>2, <3>3
    <3>4. CASE e = offered + 1
      BY <1>2, <2>1, <3>1, <3>2, <3>4
    <3>5. QED
      BY <2>4, <3>3, <3>4
  <2>8. QED
    BY <2>5, <2>6, <2>7
<1>3. CASE Tick
  <2>1. UNCHANGED << frame, stamp, home, offered >> /\ clock' = clock + 1
    BY <1>3 DEF Tick, vars
  <2>2. QED
    BY <1>0, <2>1
<1>4. CASE Signal \/ \E t \in Task : TaskEnds(t)
  BY <1>4 DEF Signal, TaskEnds, vars
<1>5. CASE StoreMoves
  <2>1. offered' = offered /\ UNCHANGED taskVars
    BY <1>5, StoreOffersNone DEF StoreMoves
  <2>2. QED
    BY <2>1 DEF taskVars
<1>6. CASE ProcessDies
  <2>1. /\ UNCHANGED << clock, stamp, home, offered >>
        /\ frame' = [t \in Task |-> Idle]
    BY <1>6 DEF ProcessDies, Crash
  <2>2. QED
    BY <1>0, <2>1 DEF Idle
<1>7. CASE UNCHANGED recorderVars
  BY <1>7 DEF recorderVars, taskVars, vars
<1>8. ASSUME NEW t \in Task, NEW s \in Stream, NEW big \in BOOLEAN, WriteOne(t, s, big)
      PROVE  StampsPast' /\ FrameNewest' /\ StampsInOrder'
  <2>1. offered' # offered
    BY <1>0, <1>8 DEF WriteOne, BeginWrite
  <2>2. QED
    BY <1>2, <2>1, HistoryStep
<1>9. QED
  BY <1>1, <1>3, <1>4, <1>5, <1>6, <1>7, <1>8, RecorderCases

(* Stamping a frame adds its items to what is owed.                        *)
LEMMA StampOwes ==
  ASSUME RecorderTypeOK, IsFiniteSet(Owed), NEW t \in Task, NEW items \in 1 .. MaxItems,
         frame[t].left = 0,
         frame' = [frame EXCEPT ![t] = [ts |-> clock, left |-> items]]
  PROVE  IsFiniteSet(Owed') /\ Cardinality(Owed') = Cardinality(Owed) + items
<1> DEFINE New == {t} \X (1 .. items)
<1>0. /\ frame \in [Task -> [ts : 0 .. MaxClock, left : 0 .. MaxItems]]
      /\ MaxItems \in Nat /\ items \in Nat
  BY RecorderAssumption DEF RecorderTypeOK
<1>1. \A u \in Task : frame'[u].left = IF u = t THEN items ELSE frame[u].left
  BY <1>0
<1>2. Owed' = Owed \union New
  <2>1. ASSUME NEW p \in Task \X (1 .. MaxItems)
        PROVE  p[2] <= frame'[p[1]].left <=> p[2] <= frame[p[1]].left \/ p \in New
    BY <1>0, <1>1
  <2>2. New \subseteq Task \X (1 .. MaxItems)
    BY <1>0
  <2>3. QED
    BY <2>1, <2>2 DEF Owed
<1>3. Owed \cap New = {}
  BY <1>0 DEF Owed
<1>4. IsFiniteSet(New) /\ Cardinality(New) = items
  <2>1. IsFiniteSet({t}) /\ Cardinality({t}) = 1
    BY FS_Singleton
  <2>2. IsFiniteSet(1 .. items) /\ Cardinality(1 .. items) = items
    BY <1>0, FS_Interval
  <2>3. IsFiniteSet(New) /\ Cardinality(New) = 1 * items
    BY <2>1, <2>2, FS_Product
  <2>4. QED
    BY <1>0, <2>3
<1>5. /\ IsFiniteSet(Owed \union New)
      /\ Cardinality(Owed \union New) = Cardinality(Owed) + items - Cardinality({})
  BY <1>3, <1>4, FS_Union
<1>6. Cardinality({}) = 0 /\ Cardinality(Owed) \in Nat
  BY FS_EmptySet, FS_CardinalityType
<1>7. QED
  BY <1>0, <1>2, <1>5, <1>6

(* Writing one event of a frame takes it from what is owed.                *)
LEMMA WriteOwes ==
  ASSUME RecorderTypeOK, IsFiniteSet(Owed), NEW t \in Task, frame[t].left > 0,
         frame' = [frame EXCEPT ![t].left = @ - 1]
  PROVE  IsFiniteSet(Owed') /\ Cardinality(Owed') = Cardinality(Owed) - 1
<1> DEFINE last == << t, frame[t].left >>
<1>0. /\ frame \in [Task -> [ts : 0 .. MaxClock, left : 0 .. MaxItems]]
      /\ MaxItems \in Nat
  BY RecorderAssumption DEF RecorderTypeOK
<1>1. /\ \A u \in Task : frame'[u].left = IF u = t THEN frame[t].left - 1 ELSE frame[u].left
      /\ frame[t].left \in 1 .. MaxItems
  BY <1>0
<1>2. last \in Owed
  BY <1>0, <1>1 DEF Owed
<1>3. Owed' = Owed \ {last}
  <2>1. ASSUME NEW p \in Task \X (1 .. MaxItems)
        PROVE  p[2] <= frame'[p[1]].left <=> p[2] <= frame[p[1]].left /\ p # last
    <3>1. frame[p[1]].left \in Nat /\ p[2] \in Nat
      BY <1>0
    <3>2. p = last <=> p[1] = t /\ p[2] = frame[t].left
      OBVIOUS
    <3>3. QED
      BY <1>1, <3>1, <3>2
  <2>2. QED
    BY <2>1 DEF Owed
<1>4. QED
  BY <1>2, <1>3, FS_RemoveElement

(* No event of a stamped frame is forgotten.                               *)
LEMMA NoneForgottenStep ==
  ASSUME IInv, RecorderTypeOK, NoneForgotten, [RecorderNext]_recorderVars
  PROVE  NoneForgotten'
<1> USE DEF NoneForgotten
<1>0. /\ frame \in [Task -> [ts : 0 .. MaxClock, left : 0 .. MaxItems]]
      /\ due \in Nat /\ offered \in Nat /\ alive \subseteq Task
      /\ \A t \in Task : frame[t].left \in Nat
      /\ InCall => status \in {"running", "flushed"}
  BY StorageAssumption DEF RecorderTypeOK, TypeOK, IInv, Shape
<1>00. status # "crashed" => Cardinality(Owed) \in Nat
  BY FS_CardinalityType
<1>1. ASSUME NEW t \in Task, NEW items \in 1 .. MaxItems, Stamp(t, items)
      PROVE  NoneForgotten'
  <2>1. /\ UNCHANGED << vars, alive >> /\ t \in alive /\ ~Busy(t)
        /\ frame' = [frame EXCEPT ![t] = [ts |-> clock, left |-> items]]
        /\ due' = due + items
    BY <1>1 DEF Stamp
  <2>2. frame[t].left = 0
    BY <1>0, <2>1 DEF Busy
  <2>3. offered' = offered /\ status' = status
    BY <2>1 DEF vars
  <2>4. status # "crashed" => IsFiniteSet(Owed') /\ Cardinality(Owed') = Cardinality(Owed) + items
    BY <2>1, <2>2, StampOwes
  <2>5. status' # "crashed" => IsFiniteSet(Owed') /\ Cardinality(Owed') = due' - offered'
    BY <1>0, <2>1, <2>3, <2>4
  <2>6. \A u \in Task \ alive' : frame'[u].left = 0
    BY <1>0, <2>1
  <2>7. QED
    BY <2>1, <2>3, <2>5, <2>6
<1>2. ASSUME NEW t \in Task, NEW s \in Stream, NEW big \in BOOLEAN, WriteOne(t, s, big)
      PROVE  NoneForgotten'
  <2>1. /\ UNCHANGED << alive, due, status >> /\ t \in alive /\ frame[t].left > 0
        /\ frame' = [frame EXCEPT ![t].left = @ - 1] /\ offered' = offered + 1
        /\ status \in {"running", "flushed"}
    BY <1>2 DEF WriteOne, BeginWrite
  <2>2. IsFiniteSet(Owed') /\ Cardinality(Owed') = Cardinality(Owed) - 1
    BY <2>1, WriteOwes
  <2>3. Cardinality(Owed') = due' - offered'
    BY <1>0, <2>1, <2>2
  <2>4. \A u \in Task \ alive' : frame'[u].left = 0
    BY <1>0, <2>1
  <2>5. QED
    BY <2>1, <2>2, <2>3, <2>4
<1>3. ASSUME NEW t \in Task, TaskEnds(t) PROVE NoneForgotten'
  <2>1. /\ UNCHANGED << vars, frame, due >> /\ alive' = alive \ {t} /\ ~Busy(t)
    BY <1>3 DEF TaskEnds
  <2>2. frame[t].left = 0
    BY <1>0, <2>1 DEF Busy
  <2>3. UNCHANGED << status, offered, Owed >>
    BY <2>1 DEF vars, Owed
  <2>4. QED
    BY <2>1, <2>2, <2>3
<1>4. CASE Tick \/ Signal
  BY <1>4 DEF Tick, Signal, vars, Owed
<1>5. CASE StoreMoves
  <2>1. offered' = offered /\ UNCHANGED << frame, due, alive >>
    BY <1>5, StoreOffersNone DEF StoreMoves, taskVars
  <2>2. Owed' = Owed
    BY <2>1 DEF Owed
  <2>3. QED
    BY <1>5, <2>1, <2>2, StoreOffersNone
<1>6. CASE ProcessDies
  <2>1. alive' = {} /\ frame' = [t \in Task |-> Idle] /\ status' = "crashed"
    BY <1>6 DEF ProcessDies, Crash
  <2>2. QED
    BY <2>1 DEF Idle
<1>7. CASE UNCHANGED recorderVars
  BY <1>7 DEF recorderVars, taskVars, vars, Owed
<1>8. QED
  BY <1>1, <1>2, <1>3, <1>4, <1>5, <1>6, <1>7, RecorderCases

(* Every offered event is acknowledged or on its way while nothing fails.  *)
LEMMA NothingFailedStep ==
  ASSUME IInv, RecorderTypeOK, AtHome, NothingFailed, [RecorderNext]_recorderVars
  PROVE  NothingFailed'
<1> USE DEF NothingFailed
<1>0. /\ [Next]_vars
      /\ offered \in Nat /\ acked \in [Stream -> SUBSET Event]
      /\ home \in Seq(Stream) /\ Len(home) = offered
  BY StorageStep DEF RecorderTypeOK, TypeOK
<1>1. CASE UNCHANGED << offered, stamp, home >>
  <2>1. SUFFICES ASSUME ~IoErrors PROVE NothingFailed'
    OBVIOUS
  <2>2. /\ \A r \in Stream : acked[r] \subseteq acked'[r]
        /\ InCall' => InCall /\ op'.event = op.event /\ op'.stream = op.stream
        /\ torn' = {} /\ spoiled' = {}
        /\ InCall /\ ~InCall' /\ status' # "crashed" => op.event \in acked'[op.stream]
    BY <1>0, <1>1, <2>1, CallMovesOn
  <2>3. status' # "crashed" => status # "crashed"
    <3>1. CASE StoreMoves
      BY <3>1, StoreOffersNone
    <3>2. CASE ProcessDies
      BY <3>2 DEF ProcessDies, Crash
    <3>3. ASSUME NEW t \in Task, NEW s \in Stream, NEW big \in BOOLEAN, WriteOne(t, s, big)
          PROVE  status' = status
      BY <3>3 DEF WriteOne, BeginWrite
    <3>4. CASE \/ \E t \in Task, items \in 1 .. MaxItems : Stamp(t, items)
               \/ \E t \in Task : TaskEnds(t)
               \/ Tick \/ Signal \/ UNCHANGED recorderVars
      BY <3>4 DEF Stamp, TaskEnds, Tick, Signal, recorderVars, vars
    <3>5. QED
      BY <3>1, <3>2, <3>3, <3>4, RecorderCases
  <2>4. ASSUME status' # "crashed", NEW e \in 1 .. offered'
        PROVE  e \in acked'[home'[e]] \/ (InCall' /\ e = op'.event)
    <3>1. e \in 1 .. offered /\ home[e] \in Stream /\ home'[e] = home[e]
      BY <1>0, <1>1, <2>4
    <3>2. CASE e \in acked[home[e]]
      BY <2>2, <3>1, <3>2
    <3>3. CASE InCall /\ e = op.event
      <4>1. home[e] = op.stream
        BY <3>3 DEF AtHome
      <4>2. QED
        BY <2>2, <2>4, <3>1, <3>3, <4>1
    <3>4. QED
      BY <2>1, <2>3, <2>4, <3>1, <3>2, <3>3
  <2>5. QED
    BY <2>2, <2>4
<1>2. ASSUME NEW t \in Task, NEW s \in Stream, NEW big \in BOOLEAN,
             WriteOne(t, s, big),
             offered' = offered + 1, offered \in Nat, home'[offered + 1] = s,
             \A e \in 1 .. offered : home'[e] = home[e]
      PROVE  NothingFailed'
  <2>1. /\ UNCHANGED << torn, spoiled, acked, status >>
        /\ op'.stage = "ensure" /\ op'.event = offered + 1
        /\ op.stage = "idle" /\ status \in {"running", "flushed"}
    BY <1>2 DEF WriteOne, BeginWrite, At
  <2>2. InCall' /\ ~InCall
    BY <2>1 DEF InCall
  <2>3. \A e \in 1 .. offered' : e \in 1 .. offered \/ e = offered + 1
    BY <1>2
  <2>4. QED
    BY <1>2, <2>1, <2>2, <2>3
<1>3. QED
  BY <1>1, <1>2, HistoryStep

-----------------------------------------------------------------------------
(* The theorems.                                                           *)

(* The invariant behind both.                                              *)
THEOREM RecorderInvariant == RecorderSpec => []RecorderInv
<1>1. RecorderInit => RecorderInv
  <2>1. SUFFICES ASSUME RecorderInit PROVE RecorderInv
    OBVIOUS
  <2>2. DurableInv
    BY <2>1, DurableInit DEF RecorderInit
  <2>3. /\ offered = 0 /\ clock = 0 /\ stamp = << >> /\ home = << >> /\ due = 0
        /\ alive = Task /\ frame = [t \in Task |-> Idle] /\ signalled = FALSE
        /\ status = "running" /\ op = NoOp /\ torn = {} /\ spoiled = {}
        /\ user = CHOOSE t \in Task : TRUE
    BY <2>1 DEF RecorderInit, Init
  <2>4. user \in Task
    BY <2>3, RecorderAssumption
  <2>5. Idle \in [ts : 0 .. MaxClock, left : 0 .. MaxItems] /\ Idle.left = 0 /\ Idle.ts = 0
    BY RecorderAssumption DEF Idle
  <2>6. /\ frame \in [Task -> [ts : 0 .. MaxClock, left : 0 .. MaxItems]]
        /\ stamp \in Seq(0 .. MaxClock) /\ Len(stamp) = offered
        /\ home \in Seq(Stream) /\ Len(home) = offered
        /\ clock \in 0 .. MaxClock /\ due \in 0 .. MaxEvents
    BY <2>3, <2>5, RecorderAssumption, StorageAssumption
  <2>7. alive \in SUBSET Task /\ signalled \in BOOLEAN
    BY <2>3
  <2>8. RecorderTypeOK
    BY <2>2, <2>4, <2>6, <2>7 DEF RecorderTypeOK, DurableInv, IInv
  <2>9. AtHome
    <3>1. ~InCall
      BY <2>3, NoOpType DEF InCall
    <3>2. \A s \in Stream, b \in Bucket : Content(s, b) = << >>
      <4>1. \A s \in Stream, b \in Bucket : disk[s][b] = << >> /\ writer[s].buf = << >>
        BY <2>1 DEF RecorderInit, Init, Closed
      <4>2. \A s \in Stream, b \in Bucket : Content(s, b) = disk[s][b]
        BY <2>2, <4>1, EmptyBuffer DEF DurableInv, IInv
      <4>3. QED
        BY <4>1, <4>2
    <3>3. \A s \in Stream : Present(s) = {}
      BY <3>2 DEF Present
    <3>4. QED
      BY <3>1, <3>3 DEF AtHome
  <2>10. StampsPast /\ FrameNewest /\ StampsInOrder
    BY <2>3, <2>5 DEF StampsPast, FrameNewest, StampsInOrder
  <2>11. NoneForgotten
    <3>1. Owed = {}
      BY <2>3, <2>5 DEF Owed
    <3>2. QED
      BY <2>3, <3>1, FS_EmptySet DEF NoneForgotten
  <2>12. NothingFailed
    BY <2>3 DEF NothingFailed
  <2>13. QED
    BY <2>2, <2>8, <2>9, <2>10, <2>11, <2>12 DEF RecorderInv
<1>2. RecorderInv /\ [RecorderNext]_recorderVars => RecorderInv'
  <2>1. SUFFICES ASSUME RecorderInv, [RecorderNext]_recorderVars PROVE RecorderInv'
    OBVIOUS
  <2> USE DEF RecorderInv
  <2>2. DurableInv'
    BY <2>1, StorageStep, DurableStep
  <2>3. TypeOK' /\ IInv
    BY <2>1, <2>2 DEF DurableInv, IInv
  <2>4. RecorderTypeOK'
    BY <2>1, <2>3, RecorderTypeStep
  <2>5. AtHome'
    BY <2>1, <2>3, AtHomeStep
  <2>6. StampsPast' /\ FrameNewest' /\ StampsInOrder'
    BY <2>1, StampsStep
  <2>7. NoneForgotten' /\ NothingFailed'
    BY <2>1, <2>3, NoneForgottenStep, NothingFailedStep
  <2>8. QED
    BY <2>2, <2>4, <2>5, <2>6, <2>7
<1>3. QED
  BY <1>1, <1>2, PTL DEF RecorderSpec

(* A half in a file belongs to an event of the file's stream.              *)
LEMMA FiledAtHome ==
  ASSUME RecorderInv, NEW s \in Stream, NEW b \in Bucket, NEW i \in 1 .. Len(disk[s][b])
  PROVE  disk[s][b][i][1] \in 1 .. offered /\ home[disk[s][b][i][1]] = s
<1> USE DEF RecorderInv, DurableInv, IInv
<1>1. /\ disk[s][b] \in Seq(Half) /\ Content(s, b) \in Seq(Half)
      /\ Len(disk[s][b]) \in 0 .. Len(Content(s, b))
      /\ disk[s][b] = SubSeq(Content(s, b), 1, Len(disk[s][b]))
  BY ContentType, FileIsPrefix
<1>2. i \in 1 .. Len(Content(s, b)) /\ disk[s][b][i] = Content(s, b)[i]
  BY <1>1
<1>3. QED
  BY <1>2, HeldIsPresent DEF AtHome

(* The events of one file are in the order of their time stamps, whatever  *)
(* the tasks write between the stamp of a frame and its events: write_one  *)
(* and the frames of the feeds, for any number of tasks and streams.       *)
THEOREM FilesInStampOrder == RecorderSpec => []FileTimestampsMonotone
<1>1. RecorderInv => FileTimestampsMonotone
  <2>1. SUFFICES ASSUME RecorderInv, NEW s \in Stream, NEW b \in Bucket,
                        NEW i \in DOMAIN disk[s][b], NEW j \in DOMAIN disk[s][b], i < j
                 PROVE  stamp[disk[s][b][i][1]] <= stamp[disk[s][b][j][1]]
    BY DEF FileTimestampsMonotone
  <2> DEFINE d == disk[s][b][i][1]
             e == disk[s][b][j][1]
  <2>2. disk[s][b] \in Seq(Half)
    BY <2>1 DEF RecorderInv, DurableInv, IInv, TypeOK
  <2>3. i \in 1 .. Len(disk[s][b]) /\ j \in 1 .. Len(disk[s][b])
    BY <2>2
  <2>4. d \in 1 .. offered /\ e \in 1 .. offered /\ home[d] = s /\ home[e] = s
    BY <2>1, <2>3, FiledAtHome
  <2>5. d <= e
    BY <2>1, <2>3, FilesSound DEF RecorderInv, DurableInv, OrderKept, Ordered
  <2>6. stamp[d] \in Nat
    <3>1. stamp \in Seq(0 .. MaxClock) /\ Len(stamp) = offered
      BY <2>1 DEF RecorderInv, RecorderTypeOK
    <3>2. \A x \in 1 .. offered : stamp[x] \in Nat
      BY <3>1, RecorderAssumption
    <3>3. QED
      BY <2>4, <3>2
  <2>7. CASE d = e
    BY <2>6, <2>7
  <2>8. CASE d < e
    BY <2>1, <2>4, <2>8 DEF RecorderInv, StampsInOrder
  <2>9. QED
    BY <2>4, <2>5, <2>7, <2>8
<1>2. QED
  BY <1>1, RecorderInvariant, PTL

(* Shutdown cuts no frame in two: when the process has exited, every event *)
(* of every frame it had stamped is readable in its file, whichever tasks  *)
(* held, or waited for, the mutex when the signal came.                    *)
THEOREM ShutdownKeepsFrames == RecorderSpec => []ShutdownLosesNothing
<1>1. RecorderInv => ShutdownLosesNothing
  <2>1. SUFFICES ASSUME RecorderInv, status = "closed", ~IoErrors
                 PROVE  offered = due /\ \A e \in 1 .. due : e \in Readable(home[e])
    BY DEF ShutdownLosesNothing
  <2> USE DEF RecorderInv, DurableInv
  <2>2. offered = due
    <3>1. \A t \in Task : frame[t].left = 0
      BY <2>1 DEF NoneForgotten
    <3>2. Owed = {}
      BY <3>1 DEF Owed
    <3>3. due - offered = 0
      BY <2>1, <3>2, FS_EmptySet DEF NoneForgotten
    <3>4. due \in Nat /\ offered \in Nat
      BY <2>1 DEF RecorderTypeOK, TypeOK
    <3>5. QED
      BY <3>3, <3>4
  <2>3. ASSUME NEW e \in 1 .. offered PROVE e \in Readable(home[e])
    <3>1. PICK s \in Stream : s = home[e]
      BY <2>1 DEF RecorderTypeOK
    <3>2. ~InCall
      BY <2>1 DEF IInv, Shape
    <3>3. e \in acked[s] /\ spoiled = {} /\ torn = {}
      BY <2>1, <3>1, <3>2 DEF NothingFailed
    <3>4. e \in Taken(s)
      BY <2>1, <3>3 DEF IInv, AckedKept
    <3>5. ~writer[s].open
      BY <2>1 DEF WritersInTurn, OpenWriters
    <3>6. e \in Filed(s)
      BY <2>1, <3>4, <3>5, EmptyBuffer DEF IInv
    <3>7. QED
      BY <2>1, <3>1, <3>3, <3>6, UnreadableIsGlued
  <2>4. QED
    BY <2>2, <2>3
<1>2. QED
  BY <1>1, RecorderInvariant, PTL
=============================================================================
