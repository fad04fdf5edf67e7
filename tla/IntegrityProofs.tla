-------------------------- MODULE IntegrityProofs --------------------------
(***************************************************************************)
(* What the verdict, the gaps and the cutoffs of check_session say of a    *)
(* session, for any list of files that list_files can give, any number of  *)
(* lines, stamps and ids.                                                  *)
(*                                                                         *)
(* The check keeps the last stamp of a file and the last number of a       *)
(* stream and compares neighbours; the properties are about all pairs.     *)
(* So the invariant says of each of these marks what it is worth: it is    *)
(* the largest of all that are still compared, as long as no break was     *)
(* counted.  (After one it need not be, and then the counter is what       *)
(* remains.)  It says of each counter which set of lines it is zero for    *)
(* the lack of, or how many there are.                                     *)
(***************************************************************************)
EXTENDS Integrity, SequenceTheorems, FiniteSetTheorems, TLAPS

(* A bucket's missing neighbours, for the files up to the n-th.            *)
MissingUpTo(n) == UNION {MissingBetween(f, g) : f, g \in 1 .. n}

GapsSound ==
  /\ at > 0 => scanned = Len(session)
  /\ IsFiniteSet(MissingUpTo(scanned))
  /\ count.bucketGaps = Cardinality(MissingUpTo(scanned))

(* The scan has read nothing of the files to come.                         *)
InScanOrder ==
  /\ \A f \in DOMAIN session : f > at => lines[f] = << >>
  /\ IsFiniteSet(Places)

(* Two of the ways to soil a venue.                                        *)
TsIssue(q) == \E p \in Whole : p[1] = q[1] /\ p[2] < q[2] /\ LineAt(p).ts > LineAt(q).ts
IdIssue(q) ==
  /\ StreamAt(q) \in {"bookTicker", "market_trades", "market"}
  /\ \E p \in Since(q) : IF StreamAt(q) = "market" THEN LineAt(p).lo > LineAt(q).lo
                         ELSE LineAt(p).hi >= LineAt(q).lo

(* lastTs is the stamp of the last whole line; while the file is in order  *)
(* it is the largest.                                                      *)
StampSound ==
  /\ lastTs = None => \A p \in Whole : p[1] # at
  /\ lastTs # None => \E p \in Whole : p[1] = at /\ LineAt(p).ts = lastTs
  /\ \/ \E q \in Whole : q[1] = at /\ TsIssue(q)
     \/ \A p \in Whole : p[1] = at => LineAt(p).ts <= lastTs

(* What the next event of a stream is after.                               *)
OpenOf(stream) ==
  {p \in EventPlaces :
     /\ StreamAt(p) = stream
     /\ \A r \in EventPlaces : StreamAt(r) = stream /\ Precedes(p, r) => ~LineAt(r).base}

LastOf(p, S) == p \in S /\ \A r \in S : ~Precedes(p, r)

(* prev is the last number of a stream, and while its ids go up the        *)
(* largest one; of market events it is always the largest.                 *)
ChainSound ==
  /\ prev["depth_snapshot"] = None /\ prev["trade"] = None
  /\ \A s \in {"depth", "bookTicker", "market_trades", "market"} : prev[s] = None => OpenOf(s) = {}
  /\ \A s \in {"depth", "bookTicker", "market_trades"} :
       prev[s] # None => \E p \in OpenOf(s) : LastOf(p, OpenOf(s)) /\ LineAt(p).hi = prev[s]
  /\ \A s \in {"bookTicker", "market_trades"} :
       \/ \E q \in EventPlaces : StreamAt(q) = s /\ IdIssue(q)
       \/ \A p \in OpenOf(s) : LineAt(p).hi <= prev[s]
  /\ prev["market"] # None => \E p \in OpenOf("market") : LineAt(p).lo = prev["market"]
  /\ \A p \in OpenOf("market") : LineAt(p).lo <= prev["market"]

(* The counters say of the lines read what they are named for.             *)
SnapshotPlaces == {p \in EventPlaces : StreamAt(p) = "depth_snapshot"}
CountSound ==
  /\ count.tsViolations > 0 <=> \E q \in Whole : TsIssue(q)
  /\ count.decodeErrors > 0 <=> \E q \in Places : LineAt(q).kind = "undecodable"
  /\ count.idBreaks > 0 <=> \E q \in EventPlaces : IdIssue(q)
  /\ count.chainBreaks = Cardinality(Holes)
  /\ count.snapshots = Cardinality(SnapshotPlaces)

(* The damage of a file, line by line.                                     *)
HasBroken(f)    == \E i \in DOMAIN lines[f] : lines[f][i] = Broken
EndsBroken(f)   == lines[f] # << >> /\ lines[f][Len(lines[f])] = Broken
BrokenInside(f) == \E i, j \in DOMAIN lines[f] : i < j /\ lines[f][i] = Broken /\ lines[f][j] # Broken

DamageSound ==
  /\ at \notin DOMAIN session => damage = NoDamage /\ lastTs = None
  /\ at \in DOMAIN session =>
       /\ damage.had   <=> HasBroken(at)
       /\ damage.last  <=> EndsBroken(at)
       /\ damage.after <=> BrokenInside(at)
  /\ count.interspersed > 0 <=> \E f \in DOMAIN session : f < at /\ BrokenInside(f)
  /\ count.interspersed > 0 \/ count.tailTruncated > 0 <=>
       \E f \in DOMAIN session : f < at /\ HasBroken(f)

(* A venue is dirty from its first issue on.                               *)
DirtSound == \A v \in Venues : v \in dirty <=> \E q \in Places : VenueAt(q) = v /\ Issue(q)

(* The cutoff of a venue is the largest stamp in front of its first issue. *)
CleanOf(v) ==
  {q \in Places : /\ VenueAt(q) = v
                  /\ \A p \in Places : VenueAt(p) = v /\ ~Precedes(q, p) => ~Issue(p)}

CutoffSound ==
  \A v \in Venues :
    /\ CleanOf(v) = {} => cutoff[v] = None
    /\ CleanOf(v) # {} => \E q \in CleanOf(v) : LineAt(q).ts = cutoff[v]
    /\ \A q \in CleanOf(v) : LineAt(q).ts <= cutoff[v]

(* A verdict is what the counters said at the end.                         *)
VerdictSound ==
  verdict \in {"PASS", "WARN", "FAIL"} =>
    /\ at = Len(session) + 1
    /\ verdict = "FAIL" <=> count.interspersed > 0
    /\ verdict = "PASS" => ~Suspect /\ count.tailTruncated = 0

ScanInv ==
  /\ TypeOK /\ InScanOrder /\ GapsSound /\ StampSound /\ ChainSound /\ CountSound
  /\ DamageSound /\ DirtSound /\ CutoffSound /\ VerdictSound

-----------------------------------------------------------------------------
(* A line is broken, undecodable or an event, and what is whole is dated.  *)
AnyLine == {Broken} \cup Undecodable
             \cup [kind : {"event"}, ts : Ts, lo : Id, hi : Id, base : BOOLEAN]

(* What a line of a stream can be, and the numbers an event of it has.     *)
LEMMA LineIs ==
  ASSUME NEW s \in Streams, NEW x \in LinesOf(s)
  PROVE  /\ x \in AnyLine
         /\ x.kind \in {"broken", "undecodable", "event"}
         /\ x.kind = "broken" <=> x = Broken
         /\ x.kind # "broken" => x.ts \in Ts
         /\ x.kind = "event" =>
              /\ x \in EventsOf(s)
              /\ x.lo \in Id /\ x.hi \in Id /\ x.lo <= x.hi /\ x.base \in BOOLEAN
              /\ x.base => s \in {"depth_snapshot", "market_trades"}
              /\ s \in {"bookTicker", "market"} => x.lo = x.hi
<1>1. CASE x = Broken
  BY <1>1 DEF AnyLine, Broken
<1>2. CASE x \in Undecodable
  BY <1>2 DEF AnyLine, Broken, Undecodable
<1>3. CASE x \in EventsOf(s)
  BY <1>3 DEF EventsOf, AnyLine, Broken
<1>4. QED
  BY <1>1, <1>2, <1>3 DEF LinesOf

(* The files of a session.                                                 *)
LEMMA FilesAre ==
  ASSUME TypeOK
  PROVE  /\ Len(session) \in Nat /\ DOMAIN session = 1 .. Len(session)
         /\ \A f \in DOMAIN session :
              /\ session[f].venue \in Venues /\ session[f].stream \in Streams
              /\ session[f].bucket \in Nat
              /\ lines[f] \in Seq(LinesOf(session[f].stream))
              /\ Len(lines[f]) \in Nat /\ DOMAIN lines[f] = 1 .. Len(lines[f])
              /\ \A i \in DOMAIN lines[f] : lines[f][i] \in LinesOf(session[f].stream)
         /\ \A f, g \in DOMAIN session : f < g /\ session[f].stream = session[g].stream =>
              /\ session[f].bucket <= session[g].bucket
              /\ \A k \in f .. g : session[k].stream = session[f].stream
         /\ \A f, g \in DOMAIN session :
              session[f].stream = session[g].stream => session[f].venue = session[g].venue
<1>1. PICK R : R = [venue : Venues, stream : Streams, bucket : Nat]
  OBVIOUS
<1>2. session \in Seq(R) /\ session \in Sessions
  BY <1>1, IntegrityAssumption DEF TypeOK
<1>3. Len(session) \in Nat /\ DOMAIN session = 1 .. Len(session)
  BY <1>2
<1>4. ASSUME NEW f \in DOMAIN session
      PROVE  session[f].venue \in Venues /\ session[f].stream \in Streams /\ session[f].bucket \in Nat
  <2>1. session[f] \in R
    BY <1>2, <1>3, ElementOfSeq
  <2>2. QED
    BY <1>1, <2>1
<1>5. ASSUME NEW f \in DOMAIN session
      PROVE  /\ lines[f] \in Seq(LinesOf(session[f].stream))
             /\ Len(lines[f]) \in Nat /\ DOMAIN lines[f] = 1 .. Len(lines[f])
             /\ \A i \in DOMAIN lines[f] : lines[f][i] \in LinesOf(session[f].stream)
  <2>1. PICK L : L = LinesOf(session[f].stream)
    OBVIOUS
  <2>2. lines[f] \in Seq(L)
    BY <2>1 DEF TypeOK
  <2>3. QED
    BY <2>1, <2>2, ElementOfSeq
<1>6. \A f, g \in DOMAIN session : f < g /\ session[f].stream = session[g].stream =>
        /\ session[f].bucket <= session[g].bucket /\ session[f].venue = session[g].venue
        /\ \A k \in f .. g : session[k].stream = session[f].stream
  BY <1>2, IntegrityAssumption
<1>7. ASSUME NEW f \in DOMAIN session, NEW g \in DOMAIN session,
             session[f].stream = session[g].stream
      PROVE  session[f].venue = session[g].venue
  <2>1. f < g \/ g < f \/ f = g
    BY <1>3
  <2>2. QED
    BY <1>6, <1>7, <2>1
<1>8. QED
  BY <1>3, <1>4, <1>5, <1>6, <1>7

(* A place is a file and a line of it.                                     *)
LEMMA PlacesAre ==
  ASSUME TypeOK
  PROVE  /\ \A p : p \in Places <=> \E f \in DOMAIN session : \E i \in DOMAIN lines[f] : p = << f, i >>
         /\ \A p \in Places :
              /\ p[1] \in DOMAIN session /\ p[2] \in DOMAIN lines[p[1]] /\ p = << p[1], p[2] >>
              /\ p[1] \in Nat /\ p[2] \in Nat
              /\ StreamAt(p) \in Streams /\ VenueAt(p) \in Venues
              /\ LineAt(p) \in LinesOf(StreamAt(p))
<1>1. \A p : p \in Places <=> \E f \in DOMAIN session : \E i \in DOMAIN lines[f] : p = << f, i >>
  BY DEF Places
<1>2. ASSUME NEW p \in Places
      PROVE  /\ p[1] \in DOMAIN session /\ p[2] \in DOMAIN lines[p[1]] /\ p = << p[1], p[2] >>
             /\ p[1] \in Nat /\ p[2] \in Nat
             /\ StreamAt(p) \in Streams /\ VenueAt(p) \in Venues
             /\ LineAt(p) \in LinesOf(StreamAt(p))
  <2>1. PICK f \in DOMAIN session : \E i \in DOMAIN lines[f] : p = << f, i >>
    BY <1>1
  <2>2. PICK i \in DOMAIN lines[f] : p = << f, i >>
    BY <2>1
  <2>3. p[1] = f /\ p[2] = i
    BY <2>2
  <2>4. f \in Nat /\ i \in Nat
    BY FilesAre
  <2>5. QED
    BY <2>2, <2>3, <2>4, FilesAre DEF StreamAt, VenueAt, LineAt
<1>3. QED
  BY <1>1, <1>2

(* Places are in one order.                                                *)
LEMMA PlacesInLine ==
  ASSUME TypeOK
  PROVE  /\ \A p, q \in Places : Precedes(p, q) \/ Precedes(q, p) \/ p = q
         /\ \A p, q \in Places : ~(Precedes(p, q) /\ Precedes(q, p))
         /\ \A p, q, r \in Places : Precedes(p, q) /\ Precedes(q, r) => Precedes(p, r)
<1>1. \A p \in Places : p[1] \in Nat /\ p[2] \in Nat /\ p = << p[1], p[2] >>
  BY PlacesAre
<1>2. \A p, q \in Places : p[1] = q[1] /\ p[2] = q[2] => p = q
  BY <1>1
<1>3. QED
  BY <1>1, <1>2 DEF Precedes

(* One more line at the end of the file being read.                        *)
LEMMA OneMoreLine ==
  ASSUME TypeOK, InScanOrder, at \in DOMAIN session, session' = session,
         NEW l \in LinesOf(session[at].stream), Appended(l),
         NEW n, n = << at, Len(lines[at]) + 1 >>
  PROVE  /\ DOMAIN lines' = DOMAIN session
         /\ \A f \in DOMAIN session : f # at => lines'[f] = lines[f]
         /\ lines'[at] \in Seq(LinesOf(session[at].stream))
         /\ Len(lines'[at]) = Len(lines[at]) + 1 /\ DOMAIN lines'[at] = 1 .. Len(lines[at]) + 1
         /\ lines'[at][Len(lines[at]) + 1] = l
         /\ \A i \in DOMAIN lines[at] : lines'[at][i] = lines[at][i]
         /\ n \notin Places /\ Places' = Places \cup {n}
         /\ LineAt(n)' = l /\ \A p \in Places : LineAt(p)' = LineAt(p)
         /\ StreamAt(n) = session[at].stream /\ VenueAt(n) = session[at].venue
         /\ n[1] = at
         /\ \A p \in Places : Precedes(p, n) /\ ~Precedes(n, p)
<1>1. PICK L : L = LinesOf(session[at].stream)
  OBVIOUS
<1>2. /\ lines[at] \in Seq(L) /\ Len(lines[at]) \in Nat /\ DOMAIN lines[at] = 1 .. Len(lines[at])
      /\ DOMAIN session = 1 .. Len(session) /\ Len(session) \in Nat /\ at \in Nat
  BY <1>1, FilesAre
<1>3. PICK k \in Nat : k = Len(lines[at])
  BY <1>2
<1>4. PICK g : g = Append(lines[at], l)
  OBVIOUS
<1>5. /\ g \in Seq(L) /\ Len(g) = k + 1 /\ DOMAIN g = 1 .. k + 1 /\ g[k + 1] = l
      /\ \A i \in 1 .. k : g[i] = lines[at][i]
  BY <1>1, <1>2, <1>3, <1>4, AppendProperties
<1>6. DOMAIN lines' = DOMAIN session /\ lines'[at] = g
      /\ \A f \in DOMAIN session : f # at => lines'[f] = lines[f]
  BY <1>4 DEF Appended, TypeOK
<1>7. n[1] = at /\ n[2] = k + 1 /\ n = << at, k + 1 >>
  BY <1>3
<1>8. ASSUME NEW p \in Places
      PROVE  Precedes(p, n) /\ ~Precedes(n, p) /\ LineAt(p)' = LineAt(p) /\ p # n
  <2>1. /\ p[1] \in DOMAIN session /\ p[2] \in DOMAIN lines[p[1]]
        /\ p[1] \in Nat /\ p[2] \in Nat
    BY PlacesAre
  <2>2. ~(p[1] > at)
    BY <2>1 DEF InScanOrder
  <2>3. p[1] = at => p[2] \in 1 .. k
    BY <1>2, <1>3, <2>1
  <2>4. Precedes(p, n) /\ ~Precedes(n, p)
    BY <1>2, <1>7, <2>1, <2>2, <2>3 DEF Precedes
  <2>5. LineAt(p)' = LineAt(p)
    BY <1>5, <1>6, <2>1, <2>3 DEF LineAt
  <2>6. p # n
    BY <1>7, <2>3
  <2>7. QED
    BY <2>4, <2>5, <2>6
<1>9. Places' = Places \cup {n}
  <2>1. \A p : p \in Places' <=> \E f \in DOMAIN session : \E i \in DOMAIN lines'[f] : p = << f, i >>
    BY DEF Places
  <2>2. \A p : p \in Places <=> \E f \in DOMAIN session : \E i \in DOMAIN lines[f] : p = << f, i >>
    BY PlacesAre
  <2>3. \A i : i \in DOMAIN lines'[at] <=> i \in DOMAIN lines[at] \/ i = k + 1
    <3>1. DOMAIN lines'[at] = 1 .. k + 1 /\ DOMAIN lines[at] = 1 .. k
      BY <1>2, <1>3, <1>5, <1>6
    <3>2. \A i : i \in 1 .. k + 1 <=> i \in 1 .. k \/ i = k + 1
      OBVIOUS
    <3>3. QED
      BY <3>1, <3>2
  <2>4. \A p : p \in Places' <=> p \in Places \/ p = n
    BY <1>6, <1>7, <2>1, <2>2, <2>3
  <2>5. QED
    BY <2>4
<1>10. LineAt(n)' = l
  BY <1>5, <1>6, <1>7 DEF LineAt
<1>11. QED
  BY <1>1, <1>2, <1>3, <1>5, <1>6, <1>7, <1>8, <1>9, <1>10 DEF StreamAt, VenueAt

(* What is said of a line is about the lines in front of it, so one more   *)
(* line changes nothing of it.                                             *)
LEMMA SameBehind ==
  ASSUME TypeOK, InScanOrder, at \in DOMAIN session, session' = session,
         NEW l \in LinesOf(session[at].stream), Appended(l),
         NEW n, n = << at, Len(lines[at]) + 1 >>
  PROVE  /\ Whole' = IF l.kind = "broken" THEN Whole ELSE Whole \cup {n}
         /\ EventPlaces' = IF l.kind = "event" THEN EventPlaces \cup {n} ELSE EventPlaces
         /\ \A q \in Places : /\ Since(q)' = Since(q)
                              /\ TsIssue(q)' <=> TsIssue(q)
                              /\ IdIssue(q)' <=> IdIssue(q)
         /\ TsIssue(n)' <=> \E p \in Whole : p[1] = at /\ LineAt(p).ts > l.ts
         /\ Since(n)' = IF l.base THEN {} ELSE OpenOf(session[at].stream)
         /\ IdIssue(n)' <=>
              /\ session[at].stream \in {"bookTicker", "market_trades", "market"} /\ l.base # TRUE
              /\ \E p \in OpenOf(session[at].stream) :
                   IF session[at].stream = "market" THEN LineAt(p).lo > l.lo
                   ELSE LineAt(p).hi >= l.lo
<1>1. /\ n \notin Places /\ Places' = Places \cup {n}
      /\ LineAt(n)' = l /\ \A p \in Places : LineAt(p)' = LineAt(p)
      /\ StreamAt(n) = session[at].stream /\ n[1] = at
      /\ \A p \in Places : Precedes(p, n) /\ ~Precedes(n, p)
  BY OneMoreLine
<1>2. \A p : StreamAt(p)' = StreamAt(p)
  BY DEF StreamAt
<1>3. Whole' = IF l.kind = "broken" THEN Whole ELSE Whole \cup {n}
  <2>1. Whole \subseteq Places /\ Whole' \subseteq Places'
    BY DEF Whole
  <2>2. \A p : p \in Whole' <=> p \in Whole \/ (p = n /\ l.kind # "broken")
    BY <1>1 DEF Whole
  <2>3. QED
    BY <2>2
<1>4. EventPlaces' = IF l.kind = "event" THEN EventPlaces \cup {n} ELSE EventPlaces
  <2>1. \A p : p \in EventPlaces' <=> p \in EventPlaces \/ (p = n /\ l.kind = "event")
    BY <1>1 DEF EventPlaces
  <2>2. QED
    BY <2>1
<1>5. Whole \subseteq Places /\ EventPlaces \subseteq Places
  BY DEF Whole, EventPlaces
<1>6. ASSUME NEW q \in Places PROVE Since(q)' = Since(q)
  <2>1. \A p : p \in Since(q)' <=>
          /\ p \in EventPlaces'
          /\ StreamAt(p) = StreamAt(q) /\ Precedes(p, q) /\ ~LineAt(q).base
          /\ \A r \in EventPlaces' : StreamAt(r) = StreamAt(q) /\ Precedes(p, r) /\ Precedes(r, q)
               => ~LineAt(r)'.base
    BY <1>1, <1>2 DEF Since
  <2>2. \A p : p \in Since(q) <=>
          /\ p \in EventPlaces
          /\ StreamAt(p) = StreamAt(q) /\ Precedes(p, q) /\ ~LineAt(q).base
          /\ \A r \in EventPlaces : StreamAt(r) = StreamAt(q) /\ Precedes(p, r) /\ Precedes(r, q)
               => ~LineAt(r).base
    BY DEF Since
  <2>3. \A r : r \in EventPlaces' /\ Precedes(r, q) <=> r \in EventPlaces /\ Precedes(r, q)
    BY <1>1, <1>4
  <2>4. \A p : p \in Since(q)' <=> p \in Since(q)
    BY <1>1, <1>5, <2>1, <2>2, <2>3
  <2>5. QED
    BY <2>4 DEF Since
<1>7. ASSUME NEW q \in Places PROVE TsIssue(q)' <=> TsIssue(q)
  <2>1. \A p : p[1] = q[1] /\ p[2] < q[2] => Precedes(p, q)
    BY DEF Precedes
  <2>2. \A p : p \in Whole' /\ Precedes(p, q) <=> p \in Whole /\ Precedes(p, q)
    BY <1>1, <1>3
  <2>3. QED
    BY <1>1, <1>5, <2>1, <2>2 DEF TsIssue
<1>8. ASSUME NEW q \in Places PROVE IdIssue(q)' <=> IdIssue(q)
  <2>1. Since(q) \subseteq Places
    BY <1>5 DEF Since
  <2>2. QED
    BY <1>1, <1>2, <1>6, <2>1 DEF IdIssue
<1>9. TsIssue(n)' <=> \E p \in Whole : p[1] = at /\ LineAt(p).ts > l.ts
  <2>1. \A p \in Places : p[1] = at => p[2] < n[2]
    BY <1>1, PlacesAre, FilesAre DEF Precedes
  <2>2. ~(n[2] < n[2])
    BY FilesAre
  <2>3. QED
    BY <1>1, <1>3, <1>5, <2>1, <2>2 DEF TsIssue
<1>10. Since(n)' = IF l.base THEN {} ELSE OpenOf(session[at].stream)
  <2>1. ~Precedes(n, n)
    BY FilesAre DEF Precedes
  <2>2. \A p : p \in Since(n)' <=>
          /\ p \in EventPlaces'
          /\ StreamAt(p) = StreamAt(n) /\ Precedes(p, n) /\ ~l.base
          /\ \A r \in EventPlaces' : StreamAt(r) = StreamAt(n) /\ Precedes(p, r) /\ Precedes(r, n)
               => ~LineAt(r)'.base
    BY <1>1, <1>2 DEF Since
  <2>3. \A p : p \in OpenOf(session[at].stream) <=>
          /\ p \in EventPlaces
          /\ StreamAt(p) = StreamAt(n)
          /\ \A r \in EventPlaces : StreamAt(r) = StreamAt(n) /\ Precedes(p, r) => ~LineAt(r).base
    BY <1>1 DEF OpenOf
  <2>4. \A r : r \in EventPlaces' /\ Precedes(r, n) <=> r \in EventPlaces
    BY <1>1, <1>4, <1>5, <2>1
  <2>5. \A p : p \in Since(n)' <=> p \in OpenOf(session[at].stream) /\ ~l.base
    BY <1>1, <1>5, <2>2, <2>3, <2>4
  <2>6. QED
    BY <2>5
<1>11. IdIssue(n)' <=>
         /\ session[at].stream \in {"bookTicker", "market_trades", "market"} /\ l.base # TRUE
         /\ \E p \in OpenOf(session[at].stream) :
              IF session[at].stream = "market" THEN LineAt(p).lo > l.lo
              ELSE LineAt(p).hi >= l.lo
  <2>1. OpenOf(session[at].stream) \subseteq Places
    BY <1>5 DEF OpenOf
  <2>2. IdIssue(n)' <=>
          /\ StreamAt(n) \in {"bookTicker", "market_trades", "market"}
          /\ \E p \in Since(n)' : IF StreamAt(n) = "market" THEN LineAt(p)'.lo > l.lo
                                  ELSE LineAt(p)'.hi >= l.lo
    BY <1>1, <1>2 DEF IdIssue
  <2>3. QED
    BY <1>1, <1>10, <2>1, <2>2
<1>12. QED
  BY <1>3, <1>4, <1>6, <1>7, <1>8, <1>9, <1>10, <1>11

(* The events that the next one is compared with.                          *)
LEMMA OpenGrows ==
  ASSUME TypeOK, InScanOrder, at \in DOMAIN session, session' = session,
         NEW l \in LinesOf(session[at].stream), Appended(l),
         NEW n, n = << at, Len(lines[at]) + 1 >>,
         NEW s
  PROVE  OpenOf(s)' = IF l.kind = "event" /\ session[at].stream = s
                      THEN IF l.base THEN {n} ELSE OpenOf(s) \cup {n}
                      ELSE OpenOf(s)
<1>1. /\ n \notin Places /\ Places' = Places \cup {n}
      /\ LineAt(n)' = l /\ \A p \in Places : LineAt(p)' = LineAt(p)
      /\ StreamAt(n) = session[at].stream
      /\ \A p \in Places : Precedes(p, n) /\ ~Precedes(n, p)
  BY OneMoreLine
<1>2. EventPlaces' = IF l.kind = "event" THEN EventPlaces \cup {n} ELSE EventPlaces
  BY SameBehind
<1>3. \A p : StreamAt(p)' = StreamAt(p)
  BY DEF StreamAt
<1>4. EventPlaces \subseteq Places
  BY DEF EventPlaces
<1>5. ~Precedes(n, n)
  BY FilesAre DEF Precedes
<1>6. \A p : p \in OpenOf(s)' <=>
        /\ p \in EventPlaces' /\ StreamAt(p) = s
        /\ \A r \in EventPlaces' : StreamAt(r) = s /\ Precedes(p, r) => ~LineAt(r)'.base
  BY <1>3 DEF OpenOf
<1>7. \A p : p \in OpenOf(s) <=>
        /\ p \in EventPlaces /\ StreamAt(p) = s
        /\ \A r \in EventPlaces : StreamAt(r) = s /\ Precedes(p, r) => ~LineAt(r).base
  BY DEF OpenOf
<1>8. CASE l.kind = "event" /\ session[at].stream = s
  <2>1. CASE l.base
    <3>1. \A p : p \in OpenOf(s)' <=> p = n
      BY <1>1, <1>2, <1>4, <1>5, <1>6, <1>8, <2>1
    <3>2. QED
      BY <1>8, <2>1, <3>1
  <2>2. CASE ~l.base
    <3>1. \A p : p \in OpenOf(s)' <=> p \in OpenOf(s) \/ p = n
      BY <1>1, <1>2, <1>4, <1>5, <1>6, <1>7, <1>8, <2>2
    <3>2. QED
      BY <1>8, <2>2, <3>1
  <2>3. QED
    BY <2>1, <2>2
<1>9. CASE ~(l.kind = "event" /\ session[at].stream = s)
  <2>1. \A p : p \in OpenOf(s)' <=> p \in OpenOf(s)
    BY <1>1, <1>2, <1>4, <1>6, <1>7, <1>9
  <2>2. QED
    BY <1>9, <2>1
<1>10. QED
  BY <1>8, <1>9

-----------------------------------------------------------------------------
(* Reading a line: what the stamp of the file says.                        *)
LEMMA StampRead ==
  ASSUME TypeOK, InScanOrder, at \in DOMAIN session, session' = session, at' = at,
         NEW l \in LinesOf(session[at].stream), Appended(l),
         NEW n, n = << at, Len(lines[at]) + 1 >>,
         StampSound, lastTs' = IF l.kind = "broken" THEN lastTs ELSE l.ts
  PROVE  /\ StampSound'
         /\ (\E q \in Whole : TsIssue(q))' <=>
              (\E q \in Whole : TsIssue(q)) \/ (l.kind # "broken" /\ Misordered(l))
         /\ l.kind # "broken" /\ Misordered(l) => TsIssue(n)'
         /\ l.kind # "broken" /\ TsIssue(n)' =>
              Misordered(l) \/ \E q \in Whole : q[1] = at /\ TsIssue(q)
<1>1. /\ n \notin Places /\ n[1] = at
      /\ LineAt(n)' = l /\ \A p \in Places : LineAt(p)' = LineAt(p)
  BY OneMoreLine
<1>2. /\ Whole' = IF l.kind = "broken" THEN Whole ELSE Whole \cup {n}
      /\ \A q \in Places : TsIssue(q)' <=> TsIssue(q)
      /\ TsIssue(n)' <=> \E p \in Whole : p[1] = at /\ LineAt(p).ts > l.ts
  BY SameBehind
<1>3. Whole \subseteq Places
  BY DEF Whole
<1>4. \A p \in Whole : LineAt(p).ts \in Nat
  <2>1. ASSUME NEW p \in Whole PROVE LineAt(p).ts \in Nat
    <3>1. p \in Places /\ LineAt(p).kind # "broken"
      BY DEF Whole
    <3>2. StreamAt(p) \in Streams /\ LineAt(p) \in LinesOf(StreamAt(p))
      BY <3>1, PlacesAre
    <3>3. LineAt(p).ts \in Ts
      BY <3>1, <3>2, LineIs
    <3>4. QED
      BY <3>3, IntegrityAssumption DEF Ts
  <2>2. QED
    BY <2>1
<1>5. l.kind # "broken" => l.ts \in Nat /\ l.ts # None
  BY FilesAre, LineIs, IntegrityAssumption DEF Ts, None
<1>6. lastTs \in Nat
  <2>1. lastTs \in Ts \cup {None}
    BY DEF TypeOK
  <2>2. QED
    BY <2>1, IntegrityAssumption DEF Ts, None
<1>7. /\ lastTs = None => \A p \in Whole : p[1] # at
      /\ lastTs # None => \E p \in Whole : p[1] = at /\ LineAt(p).ts = lastTs
      /\ \/ \E q \in Whole : q[1] = at /\ TsIssue(q)
         \/ \A p \in Whole : p[1] = at => LineAt(p).ts <= lastTs
  BY DEF StampSound
<1>8. CASE l.kind = "broken"
  <2>1. StampSound'
    BY <1>1, <1>2, <1>3, <1>7, <1>8 DEF StampSound
  <2>2. QED
    BY <1>2, <1>3, <1>8, <2>1
<1>9. CASE l.kind # "broken"
  <2>1. lastTs' = l.ts /\ Whole' = Whole \cup {n}
    BY <1>2, <1>9
  <2>2. Misordered(l) => TsIssue(n)'
    BY <1>2, <1>7 DEF Misordered
  <2>3. TsIssue(n)' => Misordered(l) \/ \E q \in Whole : q[1] = at /\ TsIssue(q)
    BY <1>2, <1>4, <1>5, <1>6, <1>7, <1>9 DEF Misordered
  <2>4. (\E q \in Whole : TsIssue(q))' <=> (\E q \in Whole : TsIssue(q)) \/ Misordered(l)
    BY <1>2, <1>3, <2>1, <2>2, <2>3
  <2>5. \/ \E q \in Whole' : q[1] = at /\ TsIssue(q)'
        \/ \A p \in Whole' : p[1] = at => LineAt(p)'.ts <= l.ts
    <3>1. CASE \E q \in Whole : q[1] = at /\ TsIssue(q)
      BY <1>2, <1>3, <2>1, <3>1
    <3>2. CASE TsIssue(n)'
      BY <1>1, <2>1, <3>2
    <3>3. CASE ~TsIssue(n)'
      <4>1. \A p \in Whole : p[1] = at => LineAt(p).ts <= l.ts
        BY <1>2, <1>4, <1>5, <1>9, <3>3
      <4>2. l.ts <= l.ts
        BY <1>5, <1>9
      <4>3. QED
        BY <1>1, <1>3, <2>1, <4>1, <4>2
    <3>4. QED
      BY <3>1, <3>2, <3>3
  <2>6. \E p \in Whole' : p[1] = at /\ LineAt(p)'.ts = l.ts
    BY <1>1, <2>1
  <2>7. StampSound'
    BY <1>5, <1>9, <2>1, <2>5, <2>6 DEF StampSound
  <2>8. QED
    BY <1>9, <2>2, <2>3, <2>4, <2>7
<1>10. QED
  BY <1>8, <1>9

(* ... what prev says of a stream that the line is not an event of.        *)
OfStream(s) ==
  /\ s \in {"depth_snapshot", "trade"} => prev[s] = None
  /\ s \in {"depth", "bookTicker", "market_trades", "market"} /\ prev[s] = None => OpenOf(s) = {}
  /\ s \in {"depth", "bookTicker", "market_trades"} /\ prev[s] # None =>
       \E p \in OpenOf(s) : LastOf(p, OpenOf(s)) /\ LineAt(p).hi = prev[s]
  /\ s \in {"bookTicker", "market_trades"} =>
       \/ \E q \in EventPlaces : StreamAt(q) = s /\ IdIssue(q)
       \/ \A p \in OpenOf(s) : LineAt(p).hi <= prev[s]
  /\ s = "market" /\ prev[s] # None => \E p \in OpenOf(s) : LineAt(p).lo = prev[s]
  /\ s = "market" => \A p \in OpenOf(s) : LineAt(p).lo <= prev[s]

(* ChainSound, one stream at a time.                                       *)
LEMMA StreamByStream == ChainSound <=> \A s \in Streams : OfStream(s)
  BY DEF ChainSound, OfStream, Streams

(* A line that is no event of a stream leaves what is said of the stream.  *)
LEMMA OtherStream ==
  ASSUME TypeOK, InScanOrder, at \in DOMAIN session, session' = session,
         NEW l \in LinesOf(session[at].stream), Appended(l),
         NEW s \in Streams, ~(l.kind = "event" /\ session[at].stream = s),
         prev'[s] = prev[s], OfStream(s)
  PROVE  OfStream(s)'
<1>1. PICK n : n = << at, Len(lines[at]) + 1 >>
  OBVIOUS
<1>2. \A p \in Places : LineAt(p)' = LineAt(p)
  BY <1>1, OneMoreLine
<1>3. OpenOf(s)' = OpenOf(s)
  BY <1>1, OpenGrows
<1>4. EventPlaces \subseteq EventPlaces' /\ \A q \in Places : IdIssue(q)' <=> IdIssue(q)
  BY <1>1, SameBehind
<1>5. EventPlaces \subseteq Places /\ OpenOf(s) \subseteq Places
  BY DEF EventPlaces, OpenOf
<1>6. \A p : StreamAt(p)' = StreamAt(p)
  BY DEF StreamAt
<1>7. \A p : LastOf(p, OpenOf(s))' <=> LastOf(p, OpenOf(s))
  BY <1>3 DEF LastOf
<1>8. (\E q \in EventPlaces : StreamAt(q) = s /\ IdIssue(q))
        => (\E q \in EventPlaces : StreamAt(q) = s /\ IdIssue(q))'
  BY <1>4, <1>5, <1>6
<1>9. \A p \in OpenOf(s) : LineAt(p)' = LineAt(p)
  BY <1>2, <1>5
<1>10. QED
  BY <1>3, <1>7, <1>8, <1>9 DEF OfStream

(* ... and what it says of the stream of the event.                        *)
LEMMA OwnStream ==
  ASSUME TypeOK, InScanOrder, at \in DOMAIN session, session' = session,
         NEW l \in LinesOf(session[at].stream), Appended(l), l.kind = "event",
         NEW n, n = << at, Len(lines[at]) + 1 >>,
         NEW s \in Streams, s = session[at].stream, OfStream(s),
         prev'[s] = After(s, Before(s, l), l)
  PROVE  /\ OfStream(s)'
         /\ s \in {"bookTicker", "market_trades", "market"} /\ Breaks(s, Before(s, l), l) => IdIssue(n)'
         /\ IdIssue(n)' => \/ Breaks(s, Before(s, l), l)
                           \/ \E q \in EventPlaces : StreamAt(q) = s /\ IdIssue(q)
<1>1. /\ n \notin Places /\ LineAt(n)' = l /\ \A p \in Places : LineAt(p)' = LineAt(p)
      /\ StreamAt(n) = s
      /\ \A p \in Places : Precedes(p, n) /\ ~Precedes(n, p)
  BY OneMoreLine
<1>2. OpenOf(s)' = IF l.base THEN {n} ELSE OpenOf(s) \cup {n}
  BY OpenGrows
<1>3. EventPlaces' = EventPlaces \cup {n} /\ \A q \in Places : IdIssue(q)' <=> IdIssue(q)
  BY SameBehind
<1>4. IdIssue(n)' <=>
        /\ s \in {"bookTicker", "market_trades", "market"} /\ l.base # TRUE
        /\ \E p \in OpenOf(s) : IF s = "market" THEN LineAt(p).lo > l.lo ELSE LineAt(p).hi >= l.lo
  BY SameBehind
<1>5. EventPlaces \subseteq Places /\ OpenOf(s) \subseteq EventPlaces
  BY DEF EventPlaces, OpenOf
<1>6. \A p : StreamAt(p)' = StreamAt(p)
  BY DEF StreamAt
<1>7. /\ l.lo \in Nat /\ l.hi \in Nat /\ l.lo # None /\ l.hi # None /\ l.lo <= l.hi
      /\ l.base \in BOOLEAN
      /\ l.base => s \in {"depth_snapshot", "market_trades"}
      /\ s \in {"bookTicker", "market"} => l.lo = l.hi
  BY LineIs DEF Id, None
<1>8. ASSUME NEW p \in OpenOf(s) PROVE LineAt(p).lo \in Nat /\ LineAt(p).hi \in Nat
  <2>1. p \in Places /\ LineAt(p).kind = "event"
    BY <1>5 DEF EventPlaces
  <2>2. StreamAt(p) \in Streams /\ LineAt(p) \in LinesOf(StreamAt(p))
    BY <2>1, PlacesAre
  <2>3. LineAt(p).lo \in Id /\ LineAt(p).hi \in Id
    BY <2>1, <2>2, LineIs
  <2>4. QED
    BY <2>3 DEF Id
<1>9. prev[s] \in Nat
  <2>1. prev[s] \in Id \cup {None}
    BY DEF TypeOK
  <2>2. QED
    BY <2>1, IntegrityAssumption DEF Id, None
<1>10. ~Precedes(n, n)
  BY FilesAre DEF Precedes
<1>11. n \in OpenOf(s)' /\ LastOf(n, OpenOf(s)')
  BY <1>1, <1>2, <1>5, <1>10 DEF LastOf
<1>12. \A p \in OpenOf(s) : LineAt(p)' = LineAt(p)
  BY <1>1, <1>5
<1>13. (\E q \in EventPlaces : StreamAt(q) = s /\ IdIssue(q))
         => (\E q \in EventPlaces : StreamAt(q) = s /\ IdIssue(q))'
  BY <1>3, <1>5, <1>6
<1>14. IdIssue(n)' => (\E q \in EventPlaces : StreamAt(q) = s /\ IdIssue(q))'
  BY <1>1, <1>3, <1>6
<1>15. CASE s \in {"depth_snapshot", "trade"}
  BY <1>4, <1>15 DEF OfStream, After
<1>16. CASE s = "depth"
  <2>1. prev'[s] = l.hi
    BY <1>16 DEF After
  <2>2. OfStream(s)'
    BY <1>1, <1>7, <1>11, <1>16, <2>1 DEF OfStream
  <2>3. QED
    BY <1>4, <1>16, <2>2
<1>17. CASE s \in {"bookTicker", "market_trades"}
  <2>1. prev'[s] = l.hi
    BY <1>17 DEF After
  <2>2. CASE IdIssue(n)'
    <3>1. OfStream(s)'
      BY <1>1, <1>7, <1>11, <1>14, <1>17, <2>1, <2>2 DEF OfStream
    <3>2. PICK p \in OpenOf(s) : LineAt(p).hi >= l.lo
      BY <1>4, <1>17, <2>2
    <3>3. l.base # TRUE
      BY <1>4, <2>2
    <3>4. CASE \A r \in OpenOf(s) : LineAt(r).hi <= prev[s]
      <4>1. prev[s] # None
        BY <1>17, <3>2 DEF OfStream
      <4>2. l.lo <= prev[s]
        BY <1>7, <1>8, <1>9, <3>2, <3>4
      <4>3. Before(s, l) = prev[s]
        BY <1>7, <3>3 DEF Before
      <4>4. Breaks(s, Before(s, l), l)
        BY <1>17, <4>1, <4>2, <4>3 DEF Breaks
      <4>5. QED
        BY <2>2, <3>1, <4>4
    <3>5. QED
      BY <1>17, <2>2, <3>1, <3>4 DEF OfStream
  <2>3. CASE ~IdIssue(n)'
    <3>1. ~l.base => \A p \in OpenOf(s) : LineAt(p).hi < l.lo
      <4>1. SUFFICES ASSUME ~l.base, NEW p \in OpenOf(s) PROVE LineAt(p).hi < l.lo
        OBVIOUS
      <4>2. l.base # TRUE
        BY <4>1
      <4>3. s # "market"
        BY <1>17
      <4>4. ~(LineAt(p).hi >= l.lo)
        BY <1>4, <1>17, <2>3, <4>1, <4>2, <4>3
      <4>5. QED
        BY <1>7, <1>8, <4>4
    <3>2. \A p \in OpenOf(s)' : LineAt(p)'.hi <= l.hi
      <4>1. \A p \in OpenOf(s) : ~l.base => LineAt(p)'.hi <= l.hi
        BY <1>7, <1>8, <1>12, <3>1
      <4>2. QED
        BY <1>1, <1>2, <1>7, <4>1
    <3>3. OfStream(s)'
      BY <1>1, <1>7, <1>11, <1>17, <2>1, <3>2 DEF OfStream
    <3>4. ~Breaks(s, Before(s, l), l)
      <4>1. SUFFICES ASSUME Breaks(s, Before(s, l), l) PROVE FALSE
        OBVIOUS
      <4>2. ~l.base /\ prev[s] # None /\ l.lo <= prev[s]
        BY <1>7, <1>17, <4>1 DEF Breaks, Before, None
      <4>3. PICK p \in OpenOf(s) : LineAt(p).hi = prev[s]
        BY <1>17, <4>2 DEF OfStream
      <4>4. QED
        BY <1>7, <1>9, <3>1, <4>2, <4>3
    <3>5. QED
      BY <2>3, <3>3, <3>4
  <2>4. QED
    BY <2>2, <2>3
<1>18. CASE s = "market"
  <2>1. ~l.base /\ l.lo = l.hi /\ Before(s, l) = prev[s] /\ OpenOf(s)' = OpenOf(s) \cup {n}
    BY <1>2, <1>7, <1>18 DEF Before
  <2>2. Breaks(s, Before(s, l), l) <=> prev[s] # None /\ l.lo < prev[s]
    BY <1>18, <2>1 DEF Breaks
  <2>3. /\ prev[s] = None => OpenOf(s) = {}
        /\ prev[s] # None => \E p \in OpenOf(s) : LineAt(p).lo = prev[s]
        /\ \A p \in OpenOf(s) : LineAt(p).lo <= prev[s]
    BY <1>18 DEF OfStream
  <2>4. IdIssue(n)' <=> \E p \in OpenOf(s) : LineAt(p).lo > l.lo
    BY <1>4, <1>7, <1>18, <2>1
  <2>5. CASE Breaks(s, Before(s, l), l)
    <3>1. prev'[s] = prev[s] /\ prev[s] # None /\ l.lo < prev[s]
      BY <1>18, <2>1, <2>2, <2>5 DEF After
    <3>2. \E p \in OpenOf(s)' : LineAt(p)'.lo = prev'[s]
      BY <1>12, <2>1, <2>3, <3>1
    <3>3. \A p \in OpenOf(s)' : LineAt(p)'.lo <= prev'[s]
      BY <1>1, <1>7, <1>9, <1>12, <2>1, <2>3, <3>1
    <3>4. IdIssue(n)'
      BY <1>7, <1>9, <2>3, <2>4, <3>1
    <3>5. QED
      BY <1>18, <2>5, <3>1, <3>2, <3>3, <3>4 DEF OfStream
  <2>6. CASE ~Breaks(s, Before(s, l), l)
    <3>1. prev'[s] = l.lo /\ (prev[s] = None \/ prev[s] <= l.lo)
      BY <1>7, <1>9, <1>18, <2>1, <2>2, <2>6 DEF After
    <3>2. \E p \in OpenOf(s)' : LineAt(p)'.lo = prev'[s]
      BY <1>1, <2>1, <3>1
    <3>3. \A p \in OpenOf(s) : LineAt(p).lo <= l.lo
      BY <1>7, <1>8, <1>9, <2>3, <3>1
    <3>4. \A p \in OpenOf(s)' : LineAt(p)'.lo <= prev'[s]
      BY <1>1, <1>7, <1>12, <2>1, <3>1, <3>3
    <3>5. ~IdIssue(n)'
      BY <1>7, <1>8, <2>4, <3>3
    <3>6. QED
      BY <1>7, <1>18, <2>6, <3>1, <3>2, <3>4, <3>5 DEF OfStream
  <2>7. QED
    BY <2>5, <2>6
<1>19. QED
  BY <1>15, <1>16, <1>17, <1>18 DEF Streams

(* The diffs that do not go on from the one before.                        *)
LEMMA HolesRead ==
  ASSUME TypeOK, InScanOrder, at \in DOMAIN session, session' = session,
         NEW l \in LinesOf(session[at].stream), Appended(l),
         NEW n, n = << at, Len(lines[at]) + 1 >>,
         NEW s \in Streams, s = session[at].stream, OfStream(s)
  PROVE  /\ Holes \subseteq Places
         /\ Holes' = IF l.kind = "event" /\ s = "depth" /\ Breaks(s, Before(s, l), l)
                     THEN Holes \cup {n} ELSE Holes
<1>1. /\ n \notin Places /\ LineAt(n)' = l /\ \A p \in Places : LineAt(p)' = LineAt(p)
      /\ StreamAt(n) = s
  BY OneMoreLine
<1>2. /\ EventPlaces' = IF l.kind = "event" THEN EventPlaces \cup {n} ELSE EventPlaces
      /\ \A q \in Places : Since(q)' = Since(q)
      /\ Since(n)' = IF l.base THEN {} ELSE OpenOf(s)
  BY SameBehind
<1>3. EventPlaces \subseteq Places /\ \A q : Since(q) \subseteq Places /\ OpenOf(s) \subseteq Places
  BY DEF EventPlaces, OpenOf, Since
<1>4. \A p : StreamAt(p)' = StreamAt(p)
  BY DEF StreamAt
<1>5. Holes \subseteq Places
  BY <1>3 DEF Holes
<1>6. ASSUME NEW q \in Places PROVE q \in Holes' <=> q \in Holes
  <2>1. q \in EventPlaces' <=> q \in EventPlaces
    BY <1>1, <1>2
  <2>2. q \in Holes' <=>
          /\ q \in EventPlaces' /\ StreamAt(q) = "depth"
          /\ \E p \in Since(q) : /\ \A r \in Since(q) : ~Precedes(p, r)
                                 /\ LineAt(p)'.hi + 1 # LineAt(q)'.lo
    BY <1>2, <1>4 DEF Holes
  <2>3. q \in Holes <=>
          /\ q \in EventPlaces /\ StreamAt(q) = "depth"
          /\ \E p \in Since(q) : /\ \A r \in Since(q) : ~Precedes(p, r)
                                 /\ LineAt(p).hi + 1 # LineAt(q).lo
    BY DEF Holes
  <2>4. \A p \in Since(q) : LineAt(p)' = LineAt(p)
    BY <1>1, <1>3
  <2>5. QED
    BY <1>1, <2>1, <2>2, <2>3, <2>4
<1>7. n \in Holes' <=> l.kind = "event" /\ s = "depth" /\ Breaks(s, Before(s, l), l)
  <2>1. n \in Holes' <=>
          /\ n \in EventPlaces' /\ s = "depth"
          /\ \E p \in Since(n)' : /\ \A r \in Since(n)' : ~Precedes(p, r)
                                  /\ LineAt(p)'.hi + 1 # LineAt(n)'.lo
    BY <1>1, <1>4 DEF Holes
  <2>2. n \in EventPlaces' <=> l.kind = "event"
    BY <1>1, <1>2, <1>3
  <2>3. CASE l.kind # "event" \/ s # "depth"
    BY <2>1, <2>2, <2>3
  <2>4. CASE l.kind = "event" /\ s = "depth"
    <3>1. ~l.base
      BY <2>4, LineIs
    <3>2. Before(s, l) = prev[s] /\ Since(n)' = OpenOf(s)
      BY <1>2, <3>1 DEF Before
    <3>3. /\ prev[s] = None => OpenOf(s) = {}
          /\ prev[s] # None =>
               \E p \in OpenOf(s) : LastOf(p, OpenOf(s)) /\ LineAt(p).hi = prev[s]
      BY <2>4 DEF OfStream
    <3>4. \A p \in OpenOf(s) : LineAt(p)' = LineAt(p)
      BY <1>1, <1>3
    <3>5. n \in Holes' <=> \E p \in OpenOf(s) : LastOf(p, OpenOf(s)) /\ LineAt(p).hi + 1 # l.lo
      BY <1>1, <2>1, <2>2, <2>4, <3>2, <3>4 DEF LastOf
    <3>6. \A p, q : LastOf(p, OpenOf(s)) /\ LastOf(q, OpenOf(s)) => p = q
      BY <1>3, PlacesInLine DEF LastOf
    <3>7. CASE prev[s] = None
      BY <2>4, <3>2, <3>3, <3>5, <3>7 DEF Breaks, LastOf
    <3>8. CASE prev[s] # None
      <4>1. PICK p \in OpenOf(s) : LastOf(p, OpenOf(s)) /\ LineAt(p).hi = prev[s]
        BY <3>3, <3>8
      <4>2. n \in Holes' <=> prev[s] + 1 # l.lo
        BY <3>5, <3>6, <4>1
      <4>3. QED
        BY <2>4, <3>2, <3>8, <4>2 DEF Breaks
    <3>9. QED
      BY <3>7, <3>8
  <2>5. QED
    BY <2>3, <2>4
<1>8. Holes' \subseteq Places \cup {n}
  <2>1. Holes' \subseteq EventPlaces'
    BY DEF Holes
  <2>2. QED
    BY <1>2, <1>3, <2>1
<1>9. CASE l.kind = "event" /\ s = "depth" /\ Breaks(s, Before(s, l), l)
  <2>1. \A q : q \in Holes' <=> q \in Holes \cup {n}
    BY <1>5, <1>6, <1>7, <1>8, <1>9
  <2>2. Holes' = Holes \cup {n}
    BY <2>1
  <2>3. QED
    BY <1>5, <1>9, <2>2
<1>10. CASE ~(l.kind = "event" /\ s = "depth" /\ Breaks(s, Before(s, l), l))
  <2>1. \A q : q \in Holes' <=> q \in Holes
    BY <1>5, <1>6, <1>7, <1>8, <1>10
  <2>2. Holes' = Holes
    BY <2>1
  <2>3. QED
    BY <1>5, <1>10, <2>2
<1>11. QED
  BY <1>9, <1>10

(* The damage of the file.                                                 *)
LEMMA DamageRead ==
  ASSUME TypeOK, InScanOrder, at \in DOMAIN session, session' = session, at' = at,
         NEW l \in LinesOf(session[at].stream), Appended(l),
         DamageSound,
         count'.interspersed = count.interspersed, count'.tailTruncated = count.tailTruncated,
         damage' = IF l.kind = "broken" THEN [damage EXCEPT !.had = TRUE, !.last = TRUE] ELSE Seen
  PROVE  DamageSound'
<1>1. PICK n : n = << at, Len(lines[at]) + 1 >>
  OBVIOUS
<1>2. PICK k \in Nat : k = Len(lines[at]) /\ DOMAIN lines[at] = 1 .. k
  BY FilesAre
<1>3. /\ DOMAIN lines' = DOMAIN session
      /\ \A f \in DOMAIN session : f # at => lines'[f] = lines[f]
      /\ Len(lines'[at]) = k + 1 /\ DOMAIN lines'[at] = 1 .. k + 1
      /\ lines'[at][k + 1] = l
      /\ \A i \in 1 .. k : lines'[at][i] = lines[at][i]
  BY <1>1, <1>2, OneMoreLine
<1>4. l.kind = "broken" <=> l = Broken
  BY FilesAre, LineIs
<1>5. /\ damage.had <=> HasBroken(at)
      /\ damage.last <=> EndsBroken(at)
      /\ damage.after <=> BrokenInside(at)
  BY DEF DamageSound
<1>6. \A i : i \in 1 .. k + 1 <=> i \in 1 .. k \/ i = k + 1
  OBVIOUS
<1>7. HasBroken(at)' <=> HasBroken(at) \/ l = Broken
  <2>1. HasBroken(at)' <=> \E i \in 1 .. k + 1 : lines'[at][i] = Broken
    BY <1>3 DEF HasBroken
  <2>2. HasBroken(at) <=> \E i \in 1 .. k : lines[at][i] = Broken
    BY <1>2 DEF HasBroken
  <2>3. QED
    BY <1>3, <1>6, <2>1, <2>2
<1>8. EndsBroken(at)' <=> l = Broken
  <2>1. lines'[at] # << >>
    BY <1>3
  <2>2. QED
    BY <1>3, <2>1 DEF EndsBroken
<1>9. BrokenInside(at)' <=> BrokenInside(at) \/ (l # Broken /\ HasBroken(at))
  <2>1. BrokenInside(at)' <=>
          \E i, j \in 1 .. k + 1 : i < j /\ lines'[at][i] = Broken /\ lines'[at][j] # Broken
    BY <1>3 DEF BrokenInside
  <2>2. BrokenInside(at) <=>
          \E i, j \in 1 .. k : i < j /\ lines[at][i] = Broken /\ lines[at][j] # Broken
    BY <1>2 DEF BrokenInside
  <2>3. HasBroken(at) <=> \E i \in 1 .. k : lines[at][i] = Broken
    BY <1>2 DEF HasBroken
  <2>4. \A i, j \in 1 .. k + 1 : i < j => i \in 1 .. k /\ (j \in 1 .. k \/ j = k + 1)
    OBVIOUS
  <2>5. \A i \in 1 .. k : i < k + 1 /\ i \in 1 .. k + 1 /\ k + 1 \in 1 .. k + 1
    OBVIOUS
  <2>6. QED
    BY <1>3, <2>1, <2>2, <2>3, <2>4, <2>5
<1>10. HasBroken(at) => EndsBroken(at) \/ BrokenInside(at)
  <2>1. SUFFICES ASSUME HasBroken(at), ~EndsBroken(at) PROVE BrokenInside(at)
    OBVIOUS
  <2>2. PICK i \in 1 .. k : lines[at][i] = Broken
    BY <1>2, <2>1 DEF HasBroken
  <2>3. lines[at] # << >> /\ k \in 1 .. k
    BY <1>2, <2>2
  <2>4. lines[at][k] # Broken /\ i < k
    BY <1>2, <2>1, <2>2, <2>3 DEF EndsBroken
  <2>5. QED
    BY <1>2, <2>2, <2>3, <2>4 DEF BrokenInside
<1>11. EndsBroken(at) => HasBroken(at)
  <2>1. SUFFICES ASSUME EndsBroken(at) PROVE HasBroken(at)
    OBVIOUS
  <2>2. k # 0
    BY <1>2, <2>1, FilesAre, EmptySeq DEF EndsBroken
  <2>3. QED
    BY <1>2, <2>1, <2>2 DEF EndsBroken, HasBroken
<1>12. damage \in [had : BOOLEAN, last : BOOLEAN, after : BOOLEAN]
  BY DEF TypeOK
<1>13. /\ damage'.had <=> HasBroken(at)'
       /\ damage'.last <=> EndsBroken(at)'
       /\ damage'.after <=> BrokenInside(at)'
  <2>1. CASE l = Broken
    <3>1. damage'.had = TRUE /\ damage'.last = TRUE /\ damage'.after = damage.after
      BY <1>4, <1>12, <2>1
    <3>2. QED
      BY <1>5, <1>7, <1>8, <1>9, <2>1, <3>1
  <2>2. CASE l # Broken
    <3>1. damage' = Seen
      BY <1>4, <2>2
    <3>2. damage'.had = damage.had /\ damage'.last = FALSE
      BY <1>12, <3>1 DEF Seen
    <3>3. damage'.after = (damage.after \/ damage.last)
      BY <1>12, <3>1 DEF Seen
    <3>4. BrokenInside(at)' <=> BrokenInside(at) \/ EndsBroken(at)
      BY <1>9, <1>10, <1>11, <2>2
    <3>5. QED
      BY <1>5, <1>7, <1>8, <2>2, <3>2, <3>3, <3>4
  <2>3. QED
    BY <2>1, <2>2
<1>14. ASSUME NEW f \in DOMAIN session, f < at
       PROVE  (HasBroken(f)' <=> HasBroken(f)) /\ (BrokenInside(f)' <=> BrokenInside(f))
  <2>1. f # at
    BY <1>14, FilesAre
  <2>2. QED
    BY <1>3, <2>1 DEF HasBroken, BrokenInside
<1>15. (count'.interspersed > 0 <=> \E f \in DOMAIN session : f < at /\ BrokenInside(f)')
       /\ (count'.interspersed > 0 \/ count'.tailTruncated > 0 <=>
             \E f \in DOMAIN session : f < at /\ HasBroken(f)')
  BY <1>14 DEF DamageSound
<1>16. QED
  BY <1>13, <1>15 DEF DamageSound

(* Venues and cutoffs.                                                     *)
Soils(l) ==
  \/ l.kind # "event"
  \/ Misordered(l)
  \/ File.stream # "depth" /\ Breaks(File.stream, Before(File.stream, l), l)

(* A line soils its venue exactly when it has an issue; until one does,    *)
(* the cutoff follows the stamps.                                          *)
LEMMA DirtRead ==
  ASSUME TypeOK, InScanOrder, at \in DOMAIN session, session' = session, at' = at,
         NEW l \in LinesOf(session[at].stream), Appended(l),
         StampSound, lastTs' = IF l.kind = "broken" THEN lastTs ELSE l.ts,
         ChainSound,
         l.kind = "event" =>
           prev'[File.stream] = After(File.stream, Before(File.stream, l), l),
         DirtSound, CutoffSound,
         IF Soils(l) THEN Soiled ELSE Clean(l)
  PROVE  DirtSound' /\ CutoffSound'
<1>1. PICK n : n = << at, Len(lines[at]) + 1 >>
  OBVIOUS
<1>2. PICK s \in Streams : s = session[at].stream
  BY FilesAre
<1>3. PICK v \in Venues : v = session[at].venue
  BY FilesAre
<1>4. /\ n \notin Places /\ Places' = Places \cup {n}
      /\ LineAt(n)' = l /\ \A p \in Places : LineAt(p)' = LineAt(p)
      /\ StreamAt(n) = s /\ VenueAt(n) = v
      /\ \A p \in Places : Precedes(p, n) /\ ~Precedes(n, p)
  BY <1>1, <1>2, <1>3, OneMoreLine
<1>5. /\ Whole' = IF l.kind = "broken" THEN Whole ELSE Whole \cup {n}
      /\ \A q \in Places : TsIssue(q)' <=> TsIssue(q)
      /\ \A q \in Places : IdIssue(q)' <=> IdIssue(q)
  BY <1>1, SameBehind
<1>6. \A p : StreamAt(p)' = StreamAt(p) /\ VenueAt(p)' = VenueAt(p)
  BY DEF StreamAt, VenueAt
<1>7. /\ \A q : Issue(q) <=> LineAt(q).kind # "event" \/ TsIssue(q) \/ IdIssue(q)
      /\ \A q : Issue(q)' <=> LineAt(q)'.kind # "event" \/ TsIssue(q)' \/ IdIssue(q)'
  BY DEF Issue, TsIssue, IdIssue
<1>8. \A q \in Places : Issue(q)' <=> Issue(q)
  BY <1>4, <1>5, <1>7
<1>9. l.kind \in {"broken", "undecodable", "event"}
      /\ (l.kind = "event" => l.ts \in Ts)
  BY FilesAre, LineIs
<1>10. /\ l.kind # "broken" /\ Misordered(l) => TsIssue(n)'
       /\ l.kind # "broken" /\ TsIssue(n)' =>
            Misordered(l) \/ \E q \in Whole : q[1] = at /\ TsIssue(q)
  BY <1>1, StampRead
<1>11. /\ l.kind = "event" /\ s \in {"bookTicker", "market_trades", "market"}
            /\ Breaks(s, Before(s, l), l) => IdIssue(n)'
       /\ l.kind = "event" /\ IdIssue(n)' =>
            \/ Breaks(s, Before(s, l), l)
            \/ \E q \in EventPlaces : StreamAt(q) = s /\ IdIssue(q)
  <2>1. OfStream(s)
    BY StreamByStream
  <2>2. QED
    BY <1>1, <1>2, <2>1, OwnStream DEF File
<1>12. Soils(l) => Issue(n)'
  <2>1. Breaks(s, Before(s, l), l) /\ s # "depth" => s \in {"bookTicker", "market_trades", "market"}
    BY DEF Breaks
  <2>2. QED
    BY <1>2, <1>4, <1>7, <1>9, <1>10, <1>11, <2>1 DEF Soils, File
<1>13. ~Soils(l) /\ Issue(n)' => \E q \in Places : VenueAt(q) = v /\ Issue(q)
  <2>1. SUFFICES ASSUME ~Soils(l), Issue(n)'
                 PROVE  \E q \in Places : VenueAt(q) = v /\ Issue(q)
    OBVIOUS
  <2>2. l.kind = "event" /\ ~Misordered(l) /\ (s = "depth" \/ ~Breaks(s, Before(s, l), l))
    BY <1>2, <2>1 DEF Soils, File
  <2>3. TsIssue(n)' \/ IdIssue(n)'
    BY <1>4, <1>7, <2>1, <2>2
  <2>4. CASE TsIssue(n)'
    <3>1. PICK q \in Whole : q[1] = at /\ TsIssue(q)
      BY <1>10, <2>2, <2>4
    <3>2. q \in Places /\ VenueAt(q) = v
      BY <1>3, <3>1 DEF Whole, VenueAt
    <3>3. QED
      BY <1>7, <3>1, <3>2
  <2>5. CASE IdIssue(n)'
    <3>1. s # "depth"
      BY <1>4, <1>6, <2>5 DEF IdIssue
    <3>2. PICK q \in EventPlaces : StreamAt(q) = s /\ IdIssue(q)
      BY <1>11, <2>2, <2>5, <3>1
    <3>3. q \in Places
      BY DEF EventPlaces
    <3>4. VenueAt(q) = v
      <4>1. q[1] \in DOMAIN session /\ session[q[1]].stream = session[at].stream
        BY <1>2, <3>2, <3>3, PlacesAre DEF StreamAt
      <4>2. session[q[1]].venue = session[at].venue
        BY <4>1, FilesAre
      <4>3. QED
        BY <1>3, <4>2 DEF VenueAt
    <3>5. QED
      BY <1>7, <3>2, <3>3, <3>4
  <2>6. QED
    BY <2>3, <2>4, <2>5
<1>14. /\ Soils(l) => dirty' = dirty \cup {v} /\ cutoff' = cutoff
       /\ ~Soils(l) => /\ dirty' = dirty
                       /\ cutoff' = [cutoff EXCEPT ![v] =
                                       IF v \notin dirty /\ l.ts > @ THEN l.ts ELSE @]
  BY <1>3 DEF Soiled, Clean, File
<1>15. DirtSound'
  <2>1. \A w \in Venues : (\E q \in Places : VenueAt(q) = w /\ Issue(q))' <=>
          (\E q \in Places : VenueAt(q) = w /\ Issue(q)) \/ (v = w /\ Issue(n)')
    BY <1>4, <1>6, <1>8
  <2>2. \A w \in Venues : w \in dirty <=> \E q \in Places : VenueAt(q) = w /\ Issue(q)
    BY DEF DirtSound
  <2>3. CASE Soils(l)
    BY <1>12, <1>14, <2>1, <2>2, <2>3 DEF DirtSound
  <2>4. CASE ~Soils(l)
    BY <1>13, <1>14, <2>1, <2>2, <2>4 DEF DirtSound
  <2>5. QED
    BY <2>3, <2>4
<1>16. \A w : \A q \in Places : q \in CleanOf(w)' <=> q \in CleanOf(w)
  <2>1. TAKE w
  <2>2. TAKE q \in Places
  <2>3. q \in CleanOf(w)' <=>
          /\ VenueAt(q) = w
          /\ \A p \in Places' : VenueAt(p) = w /\ ~Precedes(q, p) => ~Issue(p)'
    BY <1>4, <1>6 DEF CleanOf
  <2>4. q \in CleanOf(w) <=>
          /\ VenueAt(q) = w
          /\ \A p \in Places : VenueAt(p) = w /\ ~Precedes(q, p) => ~Issue(p)
    BY DEF CleanOf
  <2>5. QED
    BY <1>4, <1>8, <2>3, <2>4
<1>17. \A w \in Venues : n \in CleanOf(w)' <=> w = v /\ v \notin dirty /\ ~Soils(l)
  <2>1. TAKE w \in Venues
  <2>2. ~Precedes(n, n)
    BY <1>1, FilesAre DEF Precedes
  <2>3. n \in CleanOf(w)' <=>
          /\ v = w
          /\ \A p \in Places' : VenueAt(p) = w /\ ~Precedes(n, p) => ~Issue(p)'
    BY <1>4, <1>6 DEF CleanOf
  <2>4. n \in CleanOf(w)' <=>
          v = w /\ ~Issue(n)' /\ ~ \E p \in Places : VenueAt(p) = w /\ Issue(p)
    BY <1>4, <1>8, <2>2, <2>3
  <2>5. QED
    BY <1>12, <1>13, <2>4 DEF DirtSound
<1>18. \A w : CleanOf(w) \subseteq Places /\ CleanOf(w)' \subseteq Places \cup {n}
  BY <1>4 DEF CleanOf
<1>19. DOMAIN cutoff = Venues /\ \A w \in Venues : cutoff[w] \in Nat
  <2>1. cutoff \in [Venues -> Ts \cup {None}]
    BY DEF TypeOK
  <2>2. \A x \in Ts \cup {None} : x \in Nat
    BY IntegrityAssumption DEF Ts, None
  <2>3. QED
    BY <2>1, <2>2
<1>20. ASSUME NEW w \in Venues
       PROVE  /\ CleanOf(w)' = {} => cutoff'[w] = None
              /\ CleanOf(w)' # {} => \E q \in CleanOf(w)' : LineAt(q)'.ts = cutoff'[w]
              /\ \A q \in CleanOf(w)' : LineAt(q)'.ts <= cutoff'[w]
  <2>1. /\ CleanOf(w) = {} => cutoff[w] = None
        /\ CleanOf(w) # {} => \E q \in CleanOf(w) : LineAt(q).ts = cutoff[w]
        /\ \A q \in CleanOf(w) : LineAt(q).ts <= cutoff[w]
    BY DEF CutoffSound
  <2>2. CASE w = v /\ v \notin dirty /\ ~Soils(l)
    <3>1. CleanOf(w)' = CleanOf(w) \cup {n}
      BY <1>4, <1>16, <1>17, <1>18, <2>2
    <3>2. l.ts \in Nat /\ l.ts > None
      BY <1>9, <2>2, IntegrityAssumption DEF Ts, None, Soils
    <3>3. cutoff'[w] = IF l.ts > cutoff[w] THEN l.ts ELSE cutoff[w]
      BY <1>14, <1>19, <2>2
    <3>4. \A q \in CleanOf(w) : LineAt(q)' = LineAt(q)
      BY <1>4, <1>18
    <3>5. CASE CleanOf(w) = {}
      BY <1>4, <2>1, <3>1, <3>2, <3>3, <3>5
    <3>6. CASE CleanOf(w) # {}
      <4>1. PICK q \in CleanOf(w) : LineAt(q).ts = cutoff[w]
        BY <2>1, <3>6
      <4>2. \A p \in CleanOf(w) : LineAt(p).ts \in Nat
        <5>1. ASSUME NEW p \in CleanOf(w) PROVE LineAt(p).ts \in Nat
          <6>1. p \in Places /\ ~Issue(p)
            <7>1. p \in Places /\ VenueAt(p) = w
              BY DEF CleanOf
            <7>2. ~Precedes(p, p)
              BY <7>1, PlacesInLine
            <7>3. QED
              BY <7>1, <7>2 DEF CleanOf
          <6>2. LineAt(p).kind = "event"
            BY <1>7, <6>1
          <6>3. StreamAt(p) \in Streams /\ LineAt(p) \in LinesOf(StreamAt(p))
            BY <6>1, PlacesAre
          <6>4. LineAt(p).ts \in Ts
            BY <6>2, <6>3, LineIs
          <6>5. QED
            BY <6>4, IntegrityAssumption DEF Ts
        <5>2. QED
          BY <5>1
      <4>3. CASE l.ts > cutoff[w]
        <5>1. cutoff'[w] = l.ts
          BY <3>3, <4>3
        <5>2. \A p \in CleanOf(w) : LineAt(p)'.ts <= l.ts
          BY <1>19, <2>1, <3>2, <3>4, <4>2, <4>3
        <5>3. QED
          BY <1>4, <3>1, <3>2, <5>1, <5>2
      <4>4. CASE ~(l.ts > cutoff[w])
        <5>1. cutoff'[w] = cutoff[w] /\ l.ts <= cutoff[w]
          BY <1>19, <3>2, <3>3, <4>4
        <5>2. QED
          BY <1>4, <2>1, <3>1, <3>4, <4>1, <5>1
      <4>5. QED
        BY <4>3, <4>4
    <3>7. QED
      BY <3>5, <3>6
  <2>3. CASE ~(w = v /\ v \notin dirty /\ ~Soils(l))
    <3>1. CleanOf(w)' = CleanOf(w)
      BY <1>4, <1>16, <1>17, <1>18, <2>3
    <3>2. cutoff'[w] = cutoff[w]
      BY <1>14, <1>19, <2>3
    <3>3. \A q \in CleanOf(w) : LineAt(q)' = LineAt(q)
      BY <1>4, <1>18
    <3>4. QED
      BY <2>1, <3>1, <3>2, <3>3
  <2>4. QED
    BY <2>2, <2>3
<1>21. CutoffSound'
  BY <1>20 DEF CutoffSound
<1>22. QED
  BY <1>15, <1>21

(* The counters.                                                           *)
LEMMA CountRead ==
  ASSUME TypeOK, InScanOrder, at \in DOMAIN session, session' = session, at' = at,
         NEW l \in LinesOf(session[at].stream), Appended(l),
         StampSound, lastTs' = IF l.kind = "broken" THEN lastTs ELSE l.ts,
         ChainSound,
         l.kind = "event" =>
           prev'[File.stream] = After(File.stream, Before(File.stream, l), l),
         CountSound, NEW breaks \in BOOLEAN,
         breaks <=> l.kind = "event" /\ Breaks(File.stream, Before(File.stream, l), l),
         IF l.kind # "broken" /\ Misordered(l) THEN count'.tsViolations = count.tsViolations + 1
                                              ELSE count'.tsViolations = count.tsViolations,
         IF l.kind = "undecodable" THEN count'.decodeErrors = count.decodeErrors + 1
                                   ELSE count'.decodeErrors = count.decodeErrors,
         IF breaks /\ File.stream # "depth" THEN count'.idBreaks = count.idBreaks + 1
                                            ELSE count'.idBreaks = count.idBreaks,
         IF breaks /\ File.stream = "depth" THEN count'.chainBreaks = count.chainBreaks + 1
                                            ELSE count'.chainBreaks = count.chainBreaks,
         IF l.kind = "event" /\ File.stream = "depth_snapshot"
           THEN count'.snapshots = count.snapshots + 1 ELSE count'.snapshots = count.snapshots
  PROVE  CountSound'
<1>1. PICK n : n = << at, Len(lines[at]) + 1 >>
  OBVIOUS
<1>2. PICK s \in Streams : s = session[at].stream /\ s = File.stream
  BY FilesAre DEF File
<1>3. /\ n \notin Places /\ Places' = Places \cup {n}
      /\ LineAt(n)' = l /\ \A p \in Places : LineAt(p)' = LineAt(p)
      /\ StreamAt(n) = s
  BY <1>1, <1>2, OneMoreLine
<1>4. /\ EventPlaces' = IF l.kind = "event" THEN EventPlaces \cup {n} ELSE EventPlaces
      /\ \A q \in Places : IdIssue(q)' <=> IdIssue(q)
  BY <1>1, SameBehind
<1>5. EventPlaces \subseteq Places /\ Whole \subseteq Places
  BY DEF EventPlaces, Whole
<1>6. \A p : StreamAt(p)' = StreamAt(p)
  BY DEF StreamAt
<1>7. \A c \in Counters : count[c] \in Nat
  BY DEF TypeOK
<1>8. /\ count.tsViolations \in Nat /\ count.decodeErrors \in Nat /\ count.idBreaks \in Nat
      /\ count.chainBreaks \in Nat /\ count.snapshots \in Nat
  BY <1>7 DEF Counters
<1>9. count'.tsViolations > 0 <=> (\E q \in Whole : TsIssue(q))'
  <2>1. (\E q \in Whole : TsIssue(q))' <=>
          (\E q \in Whole : TsIssue(q)) \/ (l.kind # "broken" /\ Misordered(l))
    BY <1>1, StampRead
  <2>2. count.tsViolations > 0 <=> \E q \in Whole : TsIssue(q)
    BY DEF CountSound
  <2>3. QED
    BY <1>8, <2>1, <2>2
<1>10. count'.decodeErrors > 0 <=> (\E q \in Places : LineAt(q).kind = "undecodable")'
  <2>1. (\E q \in Places : LineAt(q).kind = "undecodable")' <=>
          (\E q \in Places : LineAt(q).kind = "undecodable") \/ l.kind = "undecodable"
    BY <1>3
  <2>2. count.decodeErrors > 0 <=> \E q \in Places : LineAt(q).kind = "undecodable"
    BY DEF CountSound
  <2>3. QED
    BY <1>8, <2>1, <2>2
<1>11. count'.idBreaks > 0 <=> (\E q \in EventPlaces : IdIssue(q))'
  <2>1. count.idBreaks > 0 <=> \E q \in EventPlaces : IdIssue(q)
    BY DEF CountSound
  <2>2. CASE l.kind # "event"
    BY <1>3, <1>4, <1>5, <1>8, <2>1, <2>2
  <2>3. CASE l.kind = "event"
    <3>1. OfStream(s)
      BY StreamByStream
    <3>2. /\ s \in {"bookTicker", "market_trades", "market"} /\ Breaks(s, Before(s, l), l)
               => IdIssue(n)'
          /\ IdIssue(n)' => \/ Breaks(s, Before(s, l), l)
                            \/ \E q \in EventPlaces : StreamAt(q) = s /\ IdIssue(q)
      BY <1>1, <1>2, <2>3, <3>1, OwnStream
    <3>3. IdIssue(n)' => s # "depth"
      BY <1>3, <1>6 DEF IdIssue
    <3>4. (\E q \in EventPlaces : IdIssue(q))' <=> (\E q \in EventPlaces : IdIssue(q)) \/ IdIssue(n)'
      BY <1>3, <1>4, <1>5, <2>3
    <3>5. Breaks(s, Before(s, l), l) /\ s # "depth" => s \in {"bookTicker", "market_trades", "market"}
      BY DEF Breaks
    <3>6. breaks <=> Breaks(s, Before(s, l), l)
      BY <1>2, <2>3
    <3>7. (\E q \in EventPlaces : IdIssue(q))' <=>
            (\E q \in EventPlaces : IdIssue(q)) \/ (breaks /\ s # "depth")
      BY <3>2, <3>3, <3>4, <3>5, <3>6
    <3>8. QED
      BY <1>2, <1>8, <2>1, <3>7
  <2>4. QED
    BY <2>2, <2>3
<1>12. IsFiniteSet(Places)
  BY DEF InScanOrder
<1>13. count'.chainBreaks = Cardinality(Holes')
  <2>1. OfStream(s)
    BY StreamByStream
  <2>2. /\ Holes \subseteq Places
        /\ Holes' = IF l.kind = "event" /\ s = "depth" /\ Breaks(s, Before(s, l), l)
                    THEN Holes \cup {n} ELSE Holes
    BY <1>1, <1>2, <2>1, HolesRead
  <2>3. IsFiniteSet(Holes) /\ n \notin Holes
    BY <1>3, <1>12, <2>2, FS_Subset
  <2>4. Cardinality(Holes \cup {n}) = Cardinality(Holes) + 1
    BY <2>3, FS_AddElement
  <2>5. count.chainBreaks = Cardinality(Holes)
    BY DEF CountSound
  <2>6. QED
    BY <1>2, <2>2, <2>4, <2>5
<1>14. count'.snapshots = Cardinality(SnapshotPlaces')
  <2>1. SnapshotPlaces' = IF l.kind = "event" /\ s = "depth_snapshot"
                          THEN SnapshotPlaces \cup {n} ELSE SnapshotPlaces
    <3>1. \A p : p \in SnapshotPlaces' <=>
            p \in SnapshotPlaces \/ (p = n /\ l.kind = "event" /\ s = "depth_snapshot")
      BY <1>3, <1>4, <1>6 DEF SnapshotPlaces
    <3>2. QED
      BY <3>1
  <2>2. SnapshotPlaces \subseteq Places
    BY <1>5 DEF SnapshotPlaces
  <2>3. IsFiniteSet(SnapshotPlaces) /\ n \notin SnapshotPlaces
    BY <1>3, <1>12, <2>2, FS_Subset
  <2>4. Cardinality(SnapshotPlaces \cup {n}) = Cardinality(SnapshotPlaces) + 1
    BY <2>3, FS_AddElement
  <2>5. count.snapshots = Cardinality(SnapshotPlaces)
    BY DEF CountSound
  <2>6. QED
    BY <1>2, <2>1, <2>4, <2>5
<1>15. QED
  BY <1>9, <1>10, <1>11, <1>13, <1>14 DEF CountSound

-----------------------------------------------------------------------------
(* The pre-scan.  A file adds the buckets between the one before it in its *)
(* stream and itself, and none of them was missing before.                 *)
LEMMA NextFile ==
  ASSUME TypeOK, NEW k \in Nat, k + 1 \in DOMAIN session, IsFiniteSet(MissingUpTo(k))
  PROVE  /\ IsFiniteSet(MissingUpTo(k + 1))
         /\ Cardinality(MissingUpTo(k + 1)) =
              Cardinality(MissingUpTo(k)) + IF k \in Following THEN Gap(k) ELSE 0
         /\ k \in Following => Gap(k) \in Nat
<1>1. /\ DOMAIN session = 1 .. Len(session) /\ Len(session) \in Nat
      /\ \A f \in DOMAIN session : session[f].bucket \in Nat
      /\ \A f, g \in DOMAIN session : f < g /\ session[f].stream = session[g].stream =>
           /\ session[f].bucket <= session[g].bucket
           /\ \A i \in f .. g : session[i].stream = session[f].stream
  BY FilesAre
<1>2. PICK s : s = session[k + 1].stream
  OBVIOUS
<1>3. PICK top \in Nat : top = session[k + 1].bucket
  BY <1>1
<1>4. ASSUME NEW n \in {k, k + 1}, NEW m
      PROVE  m \in MissingUpTo(n) <=>
               \E f, g \in 1 .. n :
                 /\ session[f].stream = session[g].stream
                 /\ \E b \in (session[f].bucket .. session[g].bucket) \ BucketsOf(session[f].stream) :
                      m = << session[f].stream, b >>
  <2>1. m \in MissingUpTo(n) <=> \E f, g \in 1 .. n : m \in MissingBetween(f, g)
    BY DEF MissingUpTo
  <2>2. ASSUME NEW f \in 1 .. n, NEW g \in 1 .. n
        PROVE  m \in MissingBetween(f, g) <=>
                 /\ session[f].stream = session[g].stream
                 /\ \E b \in (session[f].bucket .. session[g].bucket) \ BucketsOf(session[f].stream) :
                      m = << session[f].stream, b >>
    <3>1. CASE session[f].stream = session[g].stream
      BY <3>1 DEF MissingBetween
    <3>2. CASE session[f].stream # session[g].stream
      BY <3>2 DEF MissingBetween
    <3>3. QED
      BY <3>1, <3>2
  <2>3. QED
    BY <2>1, <2>2
<1>5. \A f \in 1 .. k + 1 : f \in DOMAIN session /\ (f \in 1 .. k \/ f = k + 1)
  BY <1>1
<1>6. \A f \in 1 .. k : f \in 1 .. k + 1 /\ f < k + 1 /\ k \in f .. k + 1 /\ (f < k \/ f = k)
  OBVIOUS
<1>7. \A f \in DOMAIN session : session[f].bucket \in BucketsOf(session[f].stream)
  BY DEF BucketsOf
<1>8. MissingUpTo(k) \subseteq MissingUpTo(k + 1)
  BY <1>4, <1>6
<1>9. CASE k \in Following
  <2>1. k \in 1 .. k /\ k \in DOMAIN session /\ session[k].stream = s
    BY <1>1, <1>2, <1>9 DEF Following
  <2>2. PICK low \in Nat : low = session[k].bucket
    BY <1>1, <2>1
  <2>3. low <= top
    BY <1>1, <1>2, <1>3, <1>6, <2>1, <2>2
  <2>4. PICK New : New = {<< s, b >> : b \in low + 1 .. top - 1}
    OBVIOUS
  <2>5. \A b \in low + 1 .. top - 1 : b \notin BucketsOf(s)
    <3>1. SUFFICES ASSUME NEW b \in low + 1 .. top - 1, NEW h \in DOMAIN session,
                          session[h].stream = s, session[h].bucket = b
                   PROVE  FALSE
      BY DEF BucketsOf
    <3>2. h < k \/ h = k \/ h = k + 1 \/ k + 1 < h
      BY <1>1
    <3>3. h < k => b <= low
      BY <1>1, <2>1, <2>2, <3>1
    <3>4. k + 1 < h => top <= b
      BY <1>1, <1>2, <1>3, <3>1
    <3>5. QED
      BY <1>3, <2>2, <3>1, <3>2, <3>3, <3>4
  <2>6. MissingUpTo(k + 1) = MissingUpTo(k) \cup New
    <3>1. ASSUME NEW m \in New PROVE m \in MissingUpTo(k + 1)
      <4>1. PICK b \in low + 1 .. top - 1 : m = << s, b >>
        BY <2>4
      <4>2. b \in (session[k].bucket .. session[k + 1].bucket) \ BucketsOf(session[k].stream)
        BY <1>3, <2>1, <2>2, <2>5
      <4>3. k \in 1 .. k + 1 /\ k + 1 \in 1 .. k + 1
        BY <2>1
      <4>4. QED
        BY <1>2, <1>4, <2>1, <4>1, <4>2, <4>3
    <3>2. ASSUME NEW m \in MissingUpTo(k + 1) PROVE m \in MissingUpTo(k) \/ m \in New
      <4>1. PICK f \in 1 .. k + 1, g \in 1 .. k + 1 :
              /\ session[f].stream = session[g].stream
              /\ \E b \in (session[f].bucket .. session[g].bucket) \ BucketsOf(session[f].stream) :
                   m = << session[f].stream, b >>
        BY <1>4, <3>2
      <4>2. PICK b \in (session[f].bucket .. session[g].bucket) \ BucketsOf(session[f].stream) :
              m = << session[f].stream, b >>
        BY <4>1
      <4>3. /\ f \in DOMAIN session /\ g \in DOMAIN session /\ b \in Nat
            /\ session[f].bucket \in Nat /\ session[g].bucket \in Nat
            /\ session[f].bucket <= b /\ b <= session[g].bucket
        <5>1. f \in DOMAIN session /\ g \in DOMAIN session
          BY <1>5
        <5>2. session[f].bucket \in Nat /\ session[g].bucket \in Nat
          BY <1>1, <5>1
        <5>3. b \in session[f].bucket .. session[g].bucket
          BY <4>2
        <5>4. QED
          BY <5>1, <5>2, <5>3
      <4>4. b # session[f].bucket /\ b # session[g].bucket
        BY <1>7, <4>1, <4>2, <4>3
      <4>5. CASE f \in 1 .. k /\ g \in 1 .. k
        BY <1>4, <4>1, <4>2, <4>5
      <4>6. CASE f \in 1 .. k /\ g = k + 1
        <5>1. session[f].stream = s
          BY <1>2, <4>1, <4>6
        <5>2. CASE b <= low
          <6>1. b \in (session[f].bucket .. session[k].bucket) \ BucketsOf(session[f].stream)
            BY <2>2, <4>2, <4>3, <5>2
          <6>2. QED
            BY <1>4, <2>1, <4>2, <4>6, <5>1, <6>1
        <5>3. CASE b > low
          <6>1. b \in low + 1 .. top - 1
            BY <1>3, <4>3, <4>4, <4>6, <5>3
          <6>2. QED
            BY <2>4, <4>2, <5>1, <6>1
        <5>4. QED
          BY <2>2, <4>3, <5>2, <5>3
      <4>7. CASE f = k + 1
        <5>1. g = k + 1 \/ g < f
          BY <1>5, <1>6, <4>7
        <5>2. g < f => session[g].bucket <= session[f].bucket
          BY <1>1, <4>1, <4>3
        <5>3. QED
          BY <4>3, <4>4, <4>7, <5>1, <5>2
      <4>8. QED
        BY <1>5, <4>5, <4>6, <4>7
    <3>3. QED
      BY <1>8, <3>1, <3>2
  <2>7. MissingUpTo(k) \cap New = {}
    <3>1. SUFFICES ASSUME NEW m \in MissingUpTo(k), m \in New PROVE FALSE
      OBVIOUS
    <3>2. PICK c \in low + 1 .. top - 1 : m = << s, c >>
      BY <2>4, <3>1
    <3>3. PICK f \in 1 .. k, g \in 1 .. k :
            /\ session[f].stream = session[g].stream
            /\ \E b \in (session[f].bucket .. session[g].bucket) \ BucketsOf(session[f].stream) :
                 m = << session[f].stream, b >>
      BY <1>4, <3>1
    <3>4. PICK b \in (session[f].bucket .. session[g].bucket) \ BucketsOf(session[f].stream) :
            m = << session[f].stream, b >>
      BY <3>3
    <3>5. b = c /\ session[g].stream = s
      BY <3>2, <3>3, <3>4
    <3>6. g < k \/ g = k
      BY <1>6
    <3>7. g \in DOMAIN session /\ f \in DOMAIN session
      BY <1>5, <1>6
    <3>8. session[g].bucket <= low /\ session[g].bucket \in Nat /\ session[f].bucket \in Nat
      BY <1>1, <2>1, <2>2, <3>5, <3>6, <3>7
    <3>9. QED
      BY <3>2, <3>4, <3>5, <3>8
  <2>8. IsFiniteSet(New) /\ Cardinality(New) = Gap(k) /\ Gap(k) \in Nat
    <3>1. PICK I : I = low + 1 .. top - 1
      OBVIOUS
    <3>2. IsFiniteSet(I) /\ Cardinality(I) = IF low + 1 > top - 1 THEN 0 ELSE (top - 1) - (low + 1) + 1
      BY <3>1, FS_Interval
    <3>3. PICK h : h = [b \in I |-> << s, b >>]
      OBVIOUS
    <3>4. h \in Bijection(I, New)
      BY <2>4, <3>1, <3>3 DEF Bijection, Injection, Surjection, IsInjective
    <3>5. ExistsBijection(I, New)
      BY <3>4 DEF ExistsBijection
    <3>6. IsFiniteSet(New) /\ Cardinality(New) = Cardinality(I)
      BY <3>2, <3>5, FS_Bijection
    <3>7. Gap(k) = IF top - low - 1 < 0 THEN 0 ELSE top - low - 1
      BY <1>3, <2>2 DEF Gap, Saturating
    <3>8. QED
      BY <3>2, <3>6, <3>7
  <2>9. /\ IsFiniteSet(MissingUpTo(k) \cup New)
        /\ Cardinality(MissingUpTo(k) \cup New) =
             Cardinality(MissingUpTo(k)) + Cardinality(New) - Cardinality(MissingUpTo(k) \cap New)
    BY <2>8, FS_Union
  <2>10. Cardinality(MissingUpTo(k)) \in Nat /\ Cardinality({}) = 0
    BY FS_CardinalityType, FS_EmptySet
  <2>11. QED
    BY <1>9, <2>6, <2>7, <2>8, <2>9, <2>10
<1>10. CASE k \notin Following
  <2>1. \A f \in 1 .. k : session[f].stream # s
    <3>1. SUFFICES ASSUME NEW f \in 1 .. k, session[f].stream = s PROVE FALSE
      OBVIOUS
    <3>2. f \in DOMAIN session /\ f < k + 1 /\ k \in f .. k + 1 /\ k \in DOMAIN session
      BY <1>1, <1>5, <1>6
    <3>3. session[k].stream = s
      BY <1>1, <1>2, <3>1, <3>2
    <3>4. QED
      BY <1>2, <1>10, <3>2, <3>3 DEF Following
  <2>2. ASSUME NEW m \in MissingUpTo(k + 1) PROVE m \in MissingUpTo(k)
    <3>1. PICK f \in 1 .. k + 1, g \in 1 .. k + 1 :
            /\ session[f].stream = session[g].stream
            /\ \E b \in (session[f].bucket .. session[g].bucket) \ BucketsOf(session[f].stream) :
                 m = << session[f].stream, b >>
      BY <1>4, <2>2
    <3>2. PICK b \in (session[f].bucket .. session[g].bucket) \ BucketsOf(session[f].stream) :
            m = << session[f].stream, b >>
      BY <3>1
    <3>3. CASE f = k + 1 /\ g = k + 1
      BY <1>3, <1>7, <3>2, <3>3
    <3>4. CASE f \in 1 .. k /\ g \in 1 .. k
      BY <1>4, <3>1, <3>2, <3>4
    <3>5. QED
      BY <1>2, <1>5, <2>1, <3>1, <3>3, <3>4
  <2>3. MissingUpTo(k + 1) = MissingUpTo(k)
    BY <1>8, <2>2
  <2>4. Cardinality(MissingUpTo(k)) \in Nat
    BY FS_CardinalityType
  <2>5. QED
    BY <1>10, <2>3, <2>4
<1>11. QED
  BY <1>9, <1>10

-----------------------------------------------------------------------------
(* What a step that reads no line leaves as it is.                         *)
LEMMA Unread ==
  ASSUME session' = session, lines' = lines
  PROVE  /\ Places' = Places /\ Whole' = Whole /\ EventPlaces' = EventPlaces
         /\ Holes' = Holes /\ SnapshotPlaces' = SnapshotPlaces
         /\ \A p : LineAt(p)' = LineAt(p) /\ StreamAt(p)' = StreamAt(p) /\ VenueAt(p)' = VenueAt(p)
         /\ \A q : TsIssue(q)' <=> TsIssue(q)
         /\ \A q : IdIssue(q)' <=> IdIssue(q)
         /\ \A q : Issue(q)' <=> Issue(q)
         /\ \A s : OpenOf(s)' = OpenOf(s)
         /\ \A v : CleanOf(v)' = CleanOf(v)
         /\ \A f : /\ HasBroken(f)' <=> HasBroken(f)
                   /\ EndsBroken(f)' <=> EndsBroken(f)
                   /\ BrokenInside(f)' <=> BrokenInside(f)
         /\ \A n : MissingUpTo(n)' = MissingUpTo(n)
<1>1. Places' = Places
  BY DEF Places
<1>2. \A p : LineAt(p)' = LineAt(p) /\ StreamAt(p)' = StreamAt(p) /\ VenueAt(p)' = VenueAt(p)
  BY DEF LineAt, StreamAt, VenueAt
<1>3. Whole' = Whole /\ EventPlaces' = EventPlaces
  BY <1>1, <1>2 DEF Whole, EventPlaces
<1>4. ASSUME NEW q PROVE Since(q)' = Since(q)
  BY <1>2, <1>3 DEF Since, Precedes
<1>5. ASSUME NEW s PROVE OpenOf(s)' = OpenOf(s)
  BY <1>2, <1>3 DEF OpenOf, Precedes
<1>6. ASSUME NEW q PROVE TsIssue(q)' <=> TsIssue(q)
  BY <1>2, <1>3 DEF TsIssue
<1>7. ASSUME NEW q PROVE IdIssue(q)' <=> IdIssue(q)
  BY <1>2, <1>4 DEF IdIssue
<1>8. ASSUME NEW q PROVE Issue(q)' <=> Issue(q)
  BY <1>2, <1>3, <1>4 DEF Issue
<1>9. Holes' = Holes /\ SnapshotPlaces' = SnapshotPlaces
  <2>1. SnapshotPlaces' = SnapshotPlaces
    BY <1>2, <1>3 DEF SnapshotPlaces
  <2>2. Holes' = Holes
    BY <1>2, <1>3, <1>4 DEF Holes, Precedes
  <2>3. QED
    BY <2>1, <2>2
<1>10. ASSUME NEW v PROVE CleanOf(v)' = CleanOf(v)
  BY <1>1, <1>2, <1>8 DEF CleanOf, Precedes
<1>11. ASSUME NEW f
       PROVE  /\ HasBroken(f)' <=> HasBroken(f)
              /\ EndsBroken(f)' <=> EndsBroken(f)
              /\ BrokenInside(f)' <=> BrokenInside(f)
  BY DEF HasBroken, EndsBroken, BrokenInside
<1>12. ASSUME NEW n PROVE MissingUpTo(n)' = MissingUpTo(n)
  BY DEF MissingUpTo, MissingBetween, BucketsOf
<1>13. QED
  BY <1>1, <1>2, <1>3, <1>5, <1>6, <1>7, <1>8, <1>9, <1>10, <1>11, <1>12

(* ... and so what is said of those lines.                                 *)
LEMMA Kept ==
  ASSUME session' = session, lines' = lines, prev' = prev, cutoff' = cutoff, dirty' = dirty,
         count'.tsViolations = count.tsViolations, count'.decodeErrors = count.decodeErrors,
         count'.idBreaks = count.idBreaks, count'.chainBreaks = count.chainBreaks,
         count'.snapshots = count.snapshots,
         ChainSound, CountSound, DirtSound, CutoffSound
  PROVE  ChainSound' /\ CountSound' /\ DirtSound' /\ CutoffSound'
<1>1. /\ Places' = Places /\ Whole' = Whole /\ EventPlaces' = EventPlaces
      /\ Holes' = Holes /\ SnapshotPlaces' = SnapshotPlaces
      /\ \A p : LineAt(p)' = LineAt(p) /\ StreamAt(p)' = StreamAt(p) /\ VenueAt(p)' = VenueAt(p)
      /\ \A q : TsIssue(q)' <=> TsIssue(q)
      /\ \A q : IdIssue(q)' <=> IdIssue(q)
      /\ \A q : Issue(q)' <=> Issue(q)
      /\ \A s : OpenOf(s)' = OpenOf(s)
      /\ \A v : CleanOf(v)' = CleanOf(v)
  BY Unread
<1>2. ChainSound'
  BY <1>1 DEF ChainSound, LastOf, Precedes
<1>3. CountSound'
  BY <1>1 DEF CountSound
<1>4. DirtSound'
  BY <1>1 DEF DirtSound
<1>5. CutoffSound'
  BY <1>1 DEF CutoffSound
<1>6. QED
  BY <1>2, <1>3, <1>4, <1>5

(* The counters, one at a time.                                            *)
LEMMA CountersAre ==
  ASSUME TypeOK
  PROVE  /\ count.chainBreaks \in Nat /\ count.snapshots \in Nat /\ count.idBreaks \in Nat
         /\ count.tsViolations \in Nat /\ count.decodeErrors \in Nat
         /\ count.interspersed \in Nat /\ count.tailTruncated \in Nat /\ count.bucketGaps \in Nat
<1>1. count \in [Counters -> Nat]
  BY DEF TypeOK
<1>2. QED
  BY <1>1 DEF Counters

(* The state before the pre-scan: nothing was read and nothing counted.    *)
LEMMA StartsSound == ASSUME Init PROVE ScanInv
<1>1. /\ session \in Sessions /\ Len(session) \in Nat /\ DOMAIN session = 1 .. Len(session)
      /\ \A f \in DOMAIN session : session[f].stream \in Streams
  <2>1. PICK R : R = [venue : Venues, stream : Streams, bucket : Nat]
    OBVIOUS
  <2>2. session \in Seq(R)
    BY <2>1, IntegrityAssumption DEF Init
  <2>3. /\ Len(session) \in Nat /\ DOMAIN session = 1 .. Len(session)
        /\ \A f \in DOMAIN session : session[f] \in R
    BY <2>2
  <2>4. QED
    BY <2>1, <2>3 DEF Init
<1>2. \A f \in DOMAIN session : lines[f] = << >>
  BY DEF Init
<1>3. Places = {}
  BY <1>2 DEF Places
<1>4. Whole = {} /\ EventPlaces = {} /\ Holes = {} /\ SnapshotPlaces = {}
  BY <1>3 DEF Whole, EventPlaces, Holes, SnapshotPlaces
<1>5. /\ count \in [Counters -> Nat] /\ \A c \in Counters : count[c] = 0
  BY DEF Init
<1>6. /\ count.chainBreaks = 0 /\ count.snapshots = 0 /\ count.idBreaks = 0
      /\ count.tsViolations = 0 /\ count.decodeErrors = 0
      /\ count.interspersed = 0 /\ count.tailTruncated = 0 /\ count.bucketGaps = 0
  BY <1>5 DEF Counters
<1>7. TypeOK
  <2>1. ASSUME NEW f \in DOMAIN session PROVE lines[f] \in Seq(LinesOf(session[f].stream))
    BY <1>2, EmptySeq
  <2>2. DOMAIN lines = DOMAIN session /\ scanned \in 0 .. Len(session) /\ at \in 0 .. Len(session) + 1
    <3>1. DOMAIN lines = DOMAIN session /\ scanned = 0 /\ at = 0
      BY DEF Init
    <3>2. QED
      BY <1>1, <3>1
  <2>3. damage \in [had : BOOLEAN, last : BOOLEAN, after : BOOLEAN]
    BY DEF Init, NoDamage
  <2>4. prev \in [Streams -> Id \cup {None}] /\ cutoff \in [Venues -> Ts \cup {None}]
    BY DEF Init
  <2>5. lastTs \in Ts \cup {None} /\ dirty \in SUBSET Venues /\ verdict \in {"", "PASS", "WARN", "FAIL", "error"}
    BY DEF Init
  <2>6. QED
    BY <1>1, <1>5, <2>1, <2>2, <2>3, <2>4, <2>5 DEF TypeOK
<1>8. InScanOrder
  BY <1>2, <1>3, FS_EmptySet DEF InScanOrder
<1>9. GapsSound
  <2>1. 1 .. scanned = {}
    <3>1. scanned = 0
      BY DEF Init
    <3>2. QED
      BY <3>1
  <2>2. MissingUpTo(scanned) = {}
    BY <2>1 DEF MissingUpTo
  <2>3. at = 0
    BY DEF Init
  <2>4. QED
    BY <1>6, <2>2, <2>3, FS_EmptySet DEF GapsSound
<1>10. lastTs = None /\ damage = NoDamage /\ at = 0 /\ dirty = {} /\ verdict = ""
  BY DEF Init
<1>11. StampSound
  BY <1>4, <1>10 DEF StampSound
<1>12. ChainSound
  <2>1. \A s : OpenOf(s) = {}
    BY <1>4 DEF OpenOf
  <2>2. \A s \in Streams : prev[s] = None
    BY DEF Init
  <2>3. QED
    BY <2>1, <2>2 DEF ChainSound, Streams
<1>13. CountSound
  BY <1>3, <1>4, <1>6, FS_EmptySet DEF CountSound
<1>14. DamageSound
  <2>1. at = 0 /\ DOMAIN session = 1 .. Len(session)
    BY <1>1, <1>10
  <2>2. \A f \in DOMAIN session : ~(f < at)
    BY <2>1
  <2>3. at \notin DOMAIN session
    BY <2>1
  <2>4. /\ ~(count.interspersed > 0)
        /\ ~(count.interspersed > 0 \/ count.tailTruncated > 0)
    BY <1>6
  <2>5. damage = NoDamage /\ lastTs = None
    BY <1>10
  <2>6. QED
    BY <2>2, <2>3, <2>4, <2>5 DEF DamageSound
<1>15. DirtSound
  BY <1>3, <1>10 DEF DirtSound
<1>16. CutoffSound
  <2>1. \A v : CleanOf(v) = {}
    BY <1>3 DEF CleanOf
  <2>2. \A v \in Venues : cutoff[v] = None
    BY DEF Init
  <2>3. QED
    BY <2>1, <2>2 DEF CutoffSound
<1>17. VerdictSound
  BY <1>10 DEF VerdictSound
<1>18. QED
  BY <1>7, <1>8, <1>9, <1>11, <1>12, <1>13, <1>14, <1>15, <1>16, <1>17 DEF ScanInv

(* The pre-scan goes through one more file (NextFile); what is said of the *)
(* lines read stays.                                                       *)
LEMMA PreScanStep == ASSUME ScanInv, PreScan PROVE ScanInv'
<1>1. /\ TypeOK /\ InScanOrder /\ GapsSound /\ StampSound /\ ChainSound /\ CountSound
      /\ DamageSound /\ DirtSound /\ CutoffSound /\ VerdictSound
  BY DEF ScanInv
<1>2. /\ session' = session /\ lines' = lines /\ at' = at /\ lastTs' = lastTs /\ damage' = damage
      /\ prev' = prev /\ cutoff' = cutoff /\ dirty' = dirty /\ verdict' = verdict
      /\ at = 0 /\ scanned' = scanned + 1 /\ scanned < Len(session)
  BY DEF PreScan
<1>3. PICK k \in Nat : k = scanned /\ k + 1 \in DOMAIN session /\ k + 1 <= Len(session)
  <2>1. scanned \in 0 .. Len(session)
    BY <1>1 DEF TypeOK
  <2>2. Len(session) \in Nat /\ DOMAIN session = 1 .. Len(session)
    BY <1>1, FilesAre
  <2>3. QED
    BY <1>2, <2>1, <2>2
<1>4. PICK more : more = IF k \in Following THEN Gap(k) ELSE 0
  OBVIOUS
<1>5. /\ IsFiniteSet(MissingUpTo(k + 1))
      /\ Cardinality(MissingUpTo(k + 1)) = Cardinality(MissingUpTo(k)) + more
      /\ more \in Nat
  <2>1. IsFiniteSet(MissingUpTo(k))
    BY <1>1, <1>3 DEF GapsSound
  <2>2. QED
    BY <1>1, <1>3, <1>4, <2>1, NextFile
<1>6. count' = [count EXCEPT !.bucketGaps = @ + more]
  BY <1>3, <1>4 DEF PreScan
<1>7. count \in [Counters -> Nat] /\ "bucketGaps" \in Counters /\ count.bucketGaps \in Nat
  BY <1>1, CountersAre DEF TypeOK, Counters
<1>8. /\ count' \in [Counters -> Nat] /\ count'.bucketGaps = count.bucketGaps + more
      /\ \A c \in Counters : c # "bucketGaps" => count'[c] = count[c]
  BY <1>5, <1>6, <1>7
<1>9. /\ count'.chainBreaks = count.chainBreaks /\ count'.snapshots = count.snapshots
      /\ count'.idBreaks = count.idBreaks /\ count'.tsViolations = count.tsViolations
      /\ count'.decodeErrors = count.decodeErrors /\ count'.interspersed = count.interspersed
      /\ count'.tailTruncated = count.tailTruncated
  BY <1>8 DEF Counters
<1>10. TypeOK'
  <2>1. scanned' \in 0 .. Len(session)
    <3>1. Len(session) \in Nat
      BY <1>1, FilesAre
    <3>2. QED
      BY <1>2, <1>3, <3>1
  <2>2. QED
    BY <1>1, <1>2, <1>8, <2>1 DEF TypeOK
<1>11. /\ Places' = Places /\ Whole' = Whole
       /\ \A p : LineAt(p)' = LineAt(p)
       /\ \A q : TsIssue(q)' <=> TsIssue(q)
       /\ \A f : /\ HasBroken(f)' <=> HasBroken(f)
                 /\ EndsBroken(f)' <=> EndsBroken(f)
                 /\ BrokenInside(f)' <=> BrokenInside(f)
       /\ \A n : MissingUpTo(n)' = MissingUpTo(n)
  BY <1>2, Unread
<1>12. InScanOrder'
  BY <1>1, <1>2, <1>11 DEF InScanOrder
<1>13. GapsSound'
  <2>1. PICK n : n = k + 1
    OBVIOUS
  <2>2. PICK M : M = MissingUpTo(n)
    OBVIOUS
  <2>3. MissingUpTo(n)' = M /\ scanned' = n
    BY <1>2, <1>3, <1>11, <2>1, <2>2
  <2>4. MissingUpTo(scanned)' = M
    BY <2>3 DEF MissingUpTo
  <2>5. count'.bucketGaps = Cardinality(M) /\ IsFiniteSet(M)
    BY <1>1, <1>3, <1>5, <1>8, <2>1, <2>2 DEF GapsSound
  <2>6. QED
    BY <1>2, <2>4, <2>5 DEF GapsSound
<1>14. StampSound'
  BY <1>1, <1>2, <1>11 DEF StampSound
<1>15. DamageSound'
  BY <1>1, <1>2, <1>9 DEF DamageSound, HasBroken, EndsBroken, BrokenInside
<1>16. VerdictSound'
  BY <1>1, <1>2, <1>9 DEF VerdictSound, Suspect, ChainBreaksUnexplained, Saturating
<1>17. ChainSound' /\ CountSound' /\ DirtSound' /\ CutoffSound'
  BY <1>1, <1>2, <1>9, Kept
<1>18. QED
  BY <1>10, <1>12, <1>13, <1>14, <1>15, <1>16, <1>17 DEF ScanInv

(* The first file: nothing was read yet, so nothing is broken or           *)
(* misordered.                                                             *)
LEMMA StartFilesStep == ASSUME ScanInv, StartFiles PROVE ScanInv'
<1>1. /\ TypeOK /\ InScanOrder /\ GapsSound /\ StampSound /\ ChainSound /\ CountSound
      /\ DamageSound /\ DirtSound /\ CutoffSound /\ VerdictSound
  BY DEF ScanInv
<1>2. /\ session' = session /\ lines' = lines /\ lastTs' = lastTs /\ damage' = damage
      /\ prev' = prev /\ cutoff' = cutoff /\ dirty' = dirty /\ verdict' = verdict
      /\ at = 0 /\ at' = 1 /\ scanned' = scanned /\ scanned = Len(session) /\ count' = count
  BY DEF StartFiles
<1>3. Len(session) \in Nat /\ DOMAIN session = 1 .. Len(session)
  BY <1>1, FilesAre
<1>4. \A f \in DOMAIN session : lines[f] = << >>
  BY <1>1, <1>2, <1>3 DEF InScanOrder
<1>5. lastTs = None /\ damage = NoDamage
  BY <1>1, <1>2, <1>3 DEF DamageSound
<1>6. Places = {} /\ Whole = {}
  BY <1>4 DEF Places, Whole
<1>7. /\ Places' = Places /\ Whole' = Whole
      /\ \A n : MissingUpTo(n)' = MissingUpTo(n)
  BY <1>2, Unread
<1>8. TypeOK'
  <2>1. at' \in 0 .. Len(session) + 1
    BY <1>2, <1>3
  <2>2. QED
    BY <1>1, <1>2, <2>1 DEF TypeOK
<1>9. InScanOrder'
  BY <1>1, <1>2, <1>4, <1>7 DEF InScanOrder
<1>10. GapsSound'
  <2>1. PICK n : n = scanned
    OBVIOUS
  <2>2. PICK M : M = MissingUpTo(n)
    OBVIOUS
  <2>3. MissingUpTo(n)' = M /\ scanned' = n
    BY <1>2, <1>7, <2>1, <2>2
  <2>4. MissingUpTo(scanned)' = M
    BY <2>3 DEF MissingUpTo
  <2>5. count'.bucketGaps = Cardinality(M) /\ IsFiniteSet(M)
    BY <1>1, <1>2, <2>1, <2>2 DEF GapsSound
  <2>6. QED
    BY <1>2, <2>4, <2>5 DEF GapsSound
<1>11. StampSound'
  BY <1>2, <1>5, <1>6, <1>7 DEF StampSound
<1>12. DamageSound'
  <2>1. \A f \in DOMAIN session : ~HasBroken(f) /\ ~EndsBroken(f) /\ ~BrokenInside(f)
    BY <1>4 DEF HasBroken, EndsBroken, BrokenInside
  <2>2. \A f \in DOMAIN session : ~HasBroken(f)' /\ ~EndsBroken(f)' /\ ~BrokenInside(f)'
    BY <1>2, <1>4 DEF HasBroken, EndsBroken, BrokenInside
  <2>3. ~(count.interspersed > 0) /\ ~(count.interspersed > 0 \/ count.tailTruncated > 0)
    BY <1>1, <2>1 DEF DamageSound
  <2>4. ~damage'.had /\ ~damage'.last /\ ~damage'.after
    BY <1>2, <1>5 DEF NoDamage
  <2>5. 1 \in DOMAIN session => ~HasBroken(1)' /\ ~EndsBroken(1)' /\ ~BrokenInside(1)'
    BY <2>2
  <2>6. DOMAIN session' = DOMAIN session
    BY <1>2
  <2>7. (at \notin DOMAIN session => damage = NoDamage /\ lastTs = None)'
    BY <1>2, <1>5
  <2>8. at' \in DOMAIN session => /\ ~HasBroken(at)' /\ ~EndsBroken(at)' /\ ~BrokenInside(at)'
    BY <1>2, <1>4 DEF HasBroken, EndsBroken, BrokenInside
  <2>9. QED
    BY <1>2, <2>2, <2>3, <2>4, <2>6, <2>7, <2>8 DEF DamageSound
<1>13. VerdictSound'
  BY <1>1, <1>2, <1>3 DEF VerdictSound, Suspect, ChainBreaksUnexplained, Saturating
<1>14. ChainSound' /\ CountSound' /\ DirtSound' /\ CutoffSound'
  BY <1>1, <1>2, Kept
<1>15. QED
  BY <1>8, <1>9, <1>10, <1>11, <1>12, <1>13, <1>14 DEF ScanInv

-----------------------------------------------------------------------------
(* A line is read: what its three kinds have in common.                    *)
LEMMA LineRead ==
  ASSUME ScanInv, Reading,
         session' = session, scanned' = scanned, at' = at, verdict' = verdict,
         NEW l \in LinesOf(File.stream), Appended(l),
         lastTs' = IF l.kind = "broken" THEN lastTs ELSE l.ts,
         damage' = IF l.kind = "broken" THEN [damage EXCEPT !.had = TRUE, !.last = TRUE] ELSE Seen,
         prev' \in [Streams -> Id \cup {None}],
         l.kind = "event" =>
           prev'[File.stream] = After(File.stream, Before(File.stream, l), l),
         \A s \in Streams : ~(l.kind = "event" /\ File.stream = s) => prev'[s] = prev[s],
         count' \in [Counters -> Nat], NEW breaks \in BOOLEAN,
         breaks <=> l.kind = "event" /\ Breaks(File.stream, Before(File.stream, l), l),
         IF l.kind # "broken" /\ Misordered(l) THEN count'.tsViolations = count.tsViolations + 1
                                              ELSE count'.tsViolations = count.tsViolations,
         IF l.kind = "undecodable" THEN count'.decodeErrors = count.decodeErrors + 1
                                   ELSE count'.decodeErrors = count.decodeErrors,
         IF breaks /\ File.stream # "depth" THEN count'.idBreaks = count.idBreaks + 1
                                            ELSE count'.idBreaks = count.idBreaks,
         IF breaks /\ File.stream = "depth" THEN count'.chainBreaks = count.chainBreaks + 1
                                            ELSE count'.chainBreaks = count.chainBreaks,
         IF l.kind = "event" /\ File.stream = "depth_snapshot"
           THEN count'.snapshots = count.snapshots + 1 ELSE count'.snapshots = count.snapshots,
         count'.interspersed = count.interspersed, count'.tailTruncated = count.tailTruncated,
         count'.bucketGaps = count.bucketGaps,
         IF Soils(l) THEN Soiled ELSE Clean(l)
  PROVE  ScanInv'
<1>1. /\ TypeOK /\ InScanOrder /\ GapsSound /\ StampSound /\ ChainSound /\ CountSound
      /\ DamageSound /\ DirtSound /\ CutoffSound /\ VerdictSound
  BY DEF ScanInv
<1>2. /\ at \in DOMAIN session /\ verdict = "" /\ l \in LinesOf(session[at].stream)
      /\ File = session[at]
  BY DEF Reading, File
<1>3. PICK n : n = << at, Len(lines[at]) + 1 >>
  OBVIOUS
<1>4. /\ DOMAIN lines' = DOMAIN session
      /\ \A f \in DOMAIN session : f # at => lines'[f] = lines[f]
      /\ lines'[at] \in Seq(LinesOf(session[at].stream))
      /\ Places' = Places \cup {n}
  BY <1>1, <1>2, <1>3, OneMoreLine
<1>5. /\ File.stream \in Streams /\ File.venue \in Venues
      /\ Len(session) \in Nat /\ DOMAIN session = 1 .. Len(session)
  BY <1>1, <1>2, FilesAre
<1>6. l.kind # "broken" => l.ts \in Ts
  BY <1>5, LineIs
<1>7. TypeOK'
  <2>1. ASSUME NEW f \in DOMAIN session PROVE lines'[f] \in Seq(LinesOf(session[f].stream))
    <3>1. lines[f] \in Seq(LinesOf(session[f].stream))
      BY <1>1 DEF TypeOK
    <3>2. QED
      BY <1>4, <3>1
  <2>2. lastTs' \in Ts \cup {None}
    BY <1>1, <1>6 DEF TypeOK
  <2>3. damage' \in [had : BOOLEAN, last : BOOLEAN, after : BOOLEAN]
    <3>1. damage \in [had : BOOLEAN, last : BOOLEAN, after : BOOLEAN]
      BY <1>1 DEF TypeOK
    <3>2. CASE l.kind = "broken"
      BY <3>1, <3>2
    <3>3. CASE l.kind # "broken"
      <4>1. damage' = [damage EXCEPT !.after = damage.after \/ damage.last, !.last = FALSE]
        BY <3>1, <3>3 DEF Seen
      <4>2. QED
        BY <3>1, <4>1
    <3>4. QED
      BY <3>2, <3>3
  <2>4. cutoff' \in [Venues -> Ts \cup {None}] /\ dirty' \in SUBSET Venues
    <3>1. cutoff \in [Venues -> Ts \cup {None}] /\ dirty \in SUBSET Venues
      BY <1>1 DEF TypeOK
    <3>2. CASE Soils(l)
      BY <1>5, <3>1, <3>2 DEF Soiled
    <3>3. CASE ~Soils(l)
      <4>1. l.kind # "broken"
        BY <3>3 DEF Soils
      <4>2. QED
        BY <1>5, <1>6, <3>1, <3>3, <4>1 DEF Clean
    <3>4. QED
      BY <3>2, <3>3
  <2>5. /\ session' \in Sessions /\ scanned' \in 0 .. Len(session') /\ at' \in 0 .. Len(session') + 1
        /\ verdict' \in {"", "PASS", "WARN", "FAIL", "error"}
    BY <1>1 DEF TypeOK
  <2>6. DOMAIN lines' = DOMAIN session'
    BY <1>4
  <2>7. QED
    BY <2>1, <2>2, <2>3, <2>4, <2>5, <2>6 DEF TypeOK
<1>8. InScanOrder'
  <2>1. IsFiniteSet(Places')
    BY <1>1, <1>4, FS_AddElement DEF InScanOrder
  <2>2. \A f \in DOMAIN session : f > at => lines'[f] = << >>
    <3>1. \A f \in DOMAIN session : f > at => f # at
      <4>1. at \in Nat /\ \A f \in DOMAIN session : f \in Nat
        <5>1. PICK N \in Nat : DOMAIN session = 1 .. N
          BY <1>5
        <5>2. \A f \in 1 .. N : f \in Nat
          OBVIOUS
        <5>3. QED
          BY <1>2, <5>1, <5>2
      <4>2. QED
        BY <4>1
    <3>2. QED
      BY <1>1, <1>4, <3>1 DEF InScanOrder
  <2>3. QED
    BY <2>1, <2>2 DEF InScanOrder
<1>9. GapsSound'
  <2>1. MissingUpTo(scanned)' = MissingUpTo(scanned)
    BY DEF MissingUpTo, MissingBetween, BucketsOf
  <2>2. QED
    BY <1>1, <2>1 DEF GapsSound
<1>10. StampSound'
  BY <1>1, <1>2, <1>3, StampRead
<1>11. ChainSound'
  <2>1. \A s \in Streams : OfStream(s)
    BY <1>1, StreamByStream
  <2>2. ASSUME NEW s \in Streams PROVE OfStream(s)'
    <3>1. CASE l.kind = "event" /\ File.stream = s
      BY <1>1, <1>2, <1>3, <2>1, <3>1, OwnStream
    <3>2. CASE ~(l.kind = "event" /\ File.stream = s)
      <4>1. prev'[s] = prev[s] /\ OfStream(s) /\ ~(l.kind = "event" /\ session[at].stream = s)
        BY <1>2, <2>1, <3>2
      <4>2. QED
        BY <1>1, <1>2, <4>1, OtherStream
    <3>3. QED
      BY <3>1, <3>2
  <2>3. QED
    BY <2>2 DEF ChainSound, OfStream, Streams
<1>12. CountSound'
  BY <1>1, <1>2, CountRead
<1>13. DamageSound'
  BY <1>1, <1>2, DamageRead
<1>14. DirtSound' /\ CutoffSound'
  BY <1>1, <1>2, DirtRead
<1>15. VerdictSound'
  BY <1>2 DEF VerdictSound
<1>16. QED
  BY <1>7, <1>8, <1>9, <1>10, <1>11, <1>12, <1>13, <1>14, <1>15 DEF ScanInv

(* A broken line: no state but the damage of the file and the dirt of the  *)
(* venue.                                                                  *)
LEMMA ReadBrokenStep == ASSUME ScanInv, ReadBroken PROVE ScanInv'
<1>1. TypeOK
  BY DEF ScanInv
<1>2. Broken \in LinesOf(File.stream) /\ Broken.kind = "broken"
  BY DEF LinesOf, Broken
<1>3. /\ Reading /\ session' = session /\ scanned' = scanned /\ at' = at /\ verdict' = verdict
      /\ lastTs' = lastTs /\ prev' = prev /\ count' = count
      /\ Appended(Broken) /\ Soiled
      /\ damage' = [damage EXCEPT !.had = TRUE, !.last = TRUE]
  BY DEF ReadBroken
<1>4. prev' \in [Streams -> Id \cup {None}] /\ count' \in [Counters -> Nat]
  BY <1>1, <1>3 DEF TypeOK
<1>5. Soils(Broken)
  BY <1>2 DEF Soils
<1>6. PICK breaks \in BOOLEAN : breaks = FALSE
  OBVIOUS
<1>7. breaks <=> Broken.kind = "event" /\ Breaks(File.stream, Before(File.stream, Broken), Broken)
  BY <1>2, <1>6
<1>8. lastTs' = IF Broken.kind = "broken" THEN lastTs ELSE Broken.ts
  BY <1>2, <1>3
<1>9. damage' = IF Broken.kind = "broken" THEN [damage EXCEPT !.had = TRUE, !.last = TRUE] ELSE Seen
  BY <1>2, <1>3
<1>10. IF Soils(Broken) THEN Soiled ELSE Clean(Broken)
  BY <1>3, <1>5
<1>11. QED
  BY <1>2, <1>3, <1>4, <1>6, <1>7, <1>8, <1>9, <1>10, LineRead

(* A line that does not decode: it has a stamp and soils its venue.        *)
LEMMA ReadUndecodableStep == ASSUME ScanInv, ReadUndecodable PROVE ScanInv'
<1>1. TypeOK
  BY DEF ScanInv
<1>2. PICK l \in Undecodable :
        /\ Appended(l)
        /\ count' = [count EXCEPT !.tsViolations = @ + If(Misordered(l)),
                                  !.decodeErrors = @ + 1]
        /\ damage' = Seen
        /\ lastTs' = l.ts
        /\ Soiled
        /\ UNCHANGED << session, scanned, at, prev, verdict >>
  BY DEF ReadUndecodable
<1>3. l \in LinesOf(File.stream) /\ l.kind = "undecodable"
  BY DEF LinesOf, Undecodable
<1>4. Reading
  BY DEF ReadUndecodable
<1>5. /\ count \in [Counters -> Nat]
      /\ count.tsViolations \in Nat /\ count.decodeErrors \in Nat
      /\ prev' \in [Streams -> Id \cup {None}]
  BY <1>1, <1>2, CountersAre DEF TypeOK
<1>6. PICK late \in Nat : late = If(Misordered(l)) /\ (Misordered(l) => late = 1) /\ (~Misordered(l) => late = 0)
  BY DEF If
<1>7. count' = [count EXCEPT !.tsViolations = @ + late, !.decodeErrors = @ + 1]
  BY <1>2, <1>6
<1>8. /\ count' \in [Counters -> Nat]
      /\ count'.tsViolations = count.tsViolations + late
      /\ count'.decodeErrors = count.decodeErrors + 1
      /\ \A c \in Counters \ {"tsViolations", "decodeErrors"} : count'[c] = count[c]
  <2>1. "tsViolations" \in Counters /\ "decodeErrors" \in Counters
    BY DEF Counters
  <2>2. PICK c1 : c1 = [count EXCEPT !.tsViolations = @ + late]
    OBVIOUS
  <2>3. /\ c1 \in [Counters -> Nat] /\ c1.tsViolations = count.tsViolations + late
        /\ \A c \in Counters : c # "tsViolations" => c1[c] = count[c]
    BY <1>5, <2>1, <2>2
  <2>4. count' = [c1 EXCEPT !.decodeErrors = @ + 1]
    BY <1>7, <2>2
  <2>5. c1.decodeErrors \in Nat
    BY <2>1, <2>3
  <2>6. /\ count' \in [Counters -> Nat] /\ count'.decodeErrors = c1.decodeErrors + 1
        /\ \A c \in Counters : c # "decodeErrors" => count'[c] = c1[c]
    BY <2>1, <2>3, <2>4, <2>5
  <2>7. QED
    BY <2>1, <2>3, <2>6
<1>9. /\ count'.idBreaks = count.idBreaks /\ count'.chainBreaks = count.chainBreaks
      /\ count'.snapshots = count.snapshots /\ count'.interspersed = count.interspersed
      /\ count'.tailTruncated = count.tailTruncated /\ count'.bucketGaps = count.bucketGaps
  BY <1>8 DEF Counters
<1>10. Soils(l)
  BY <1>3 DEF Soils
<1>11. PICK breaks \in BOOLEAN : breaks = FALSE
  OBVIOUS
<1>12. breaks <=> l.kind = "event" /\ Breaks(File.stream, Before(File.stream, l), l)
  BY <1>3, <1>11
<1>13. lastTs' = IF l.kind = "broken" THEN lastTs ELSE l.ts
  BY <1>2, <1>3
<1>14. damage' = IF l.kind = "broken" THEN [damage EXCEPT !.had = TRUE, !.last = TRUE] ELSE Seen
  BY <1>2, <1>3
<1>15. IF Soils(l) THEN Soiled ELSE Clean(l)
  BY <1>2, <1>10
<1>16. IF l.kind # "broken" /\ Misordered(l) THEN count'.tsViolations = count.tsViolations + 1
                                            ELSE count'.tsViolations = count.tsViolations
  BY <1>3, <1>5, <1>6, <1>8
<1>17. QED
  BY <1>2, <1>3, <1>4, <1>5, <1>8, <1>9, <1>11, <1>12, <1>13, <1>14, <1>15, <1>16, LineRead

(* An event: each of its four counters goes up with what the line shows.   *)
LEMMA ReadEventStep == ASSUME ScanInv, ReadEvent PROVE ScanInv'
<1>1. TypeOK
  BY DEF ScanInv
<1>2. PICK l \in EventsOf(File.stream) :
        LET before == Before(File.stream, l)
            breaks == Breaks(File.stream, before, l)
        IN
        /\ Appended(l)
        /\ count' = [count EXCEPT
             !.tsViolations = @ + If(Misordered(l)),
             !.snapshots    = @ + If(File.stream = "depth_snapshot"),
             !.chainBreaks  = @ + If(breaks /\ File.stream = "depth"),
             !.idBreaks     = @ + If(breaks /\ File.stream # "depth")]
        /\ prev' = [prev EXCEPT ![File.stream] = After(File.stream, before, l)]
        /\ damage' = Seen
        /\ lastTs' = l.ts
        /\ IF Misordered(l) \/ (breaks /\ File.stream # "depth") THEN Soiled ELSE Clean(l)
        /\ UNCHANGED << session, scanned, at, verdict >>
  BY DEF ReadEvent
<1>3. l \in LinesOf(File.stream) /\ l.kind = "event"
  BY DEF LinesOf, EventsOf
<1>4. Reading /\ File.stream \in Streams
  BY <1>1, FilesAre DEF ReadEvent, Reading, File
<1>5. /\ count \in [Counters -> Nat] /\ prev \in [Streams -> Id \cup {None}]
      /\ count.tsViolations \in Nat /\ count.snapshots \in Nat
      /\ count.chainBreaks \in Nat /\ count.idBreaks \in Nat
  BY <1>1, CountersAre DEF TypeOK
<1>6. PICK breaks \in BOOLEAN : breaks <=> Breaks(File.stream, Before(File.stream, l), l)
  BY DEF Breaks
<1>7. PICK late \in Nat : late = If(Misordered(l)) /\ (Misordered(l) => late = 1) /\ (~Misordered(l) => late = 0)
  BY DEF If
<1>8. PICK snap \in Nat : /\ snap = If(File.stream = "depth_snapshot")
                          /\ File.stream = "depth_snapshot" => snap = 1
                          /\ File.stream # "depth_snapshot" => snap = 0
  BY DEF If
<1>9. PICK hole \in Nat : /\ hole = If(Breaks(File.stream, Before(File.stream, l), l) /\ File.stream = "depth")
                          /\ breaks /\ File.stream = "depth" => hole = 1
                          /\ ~(breaks /\ File.stream = "depth") => hole = 0
  BY <1>6 DEF If
<1>10. PICK back \in Nat : /\ back = If(Breaks(File.stream, Before(File.stream, l), l) /\ File.stream # "depth")
                           /\ breaks /\ File.stream # "depth" => back = 1
                           /\ ~(breaks /\ File.stream # "depth") => back = 0
  BY <1>6 DEF If
<1>11. count' = [count EXCEPT !.tsViolations = @ + late, !.snapshots = @ + snap,
                              !.chainBreaks = @ + hole, !.idBreaks = @ + back]
  BY <1>2, <1>7, <1>8, <1>9, <1>10
<1>12. /\ count' \in [Counters -> Nat]
       /\ count'.tsViolations = count.tsViolations + late
       /\ count'.snapshots = count.snapshots + snap
       /\ count'.chainBreaks = count.chainBreaks + hole
       /\ count'.idBreaks = count.idBreaks + back
       /\ count'.decodeErrors = count.decodeErrors
       /\ count'.interspersed = count.interspersed
       /\ count'.tailTruncated = count.tailTruncated
       /\ count'.bucketGaps = count.bucketGaps
  <2>1. \A c \in {"tsViolations", "snapshots", "chainBreaks", "idBreaks", "decodeErrors", "interspersed",
                   "tailTruncated", "bucketGaps"} : c \in Counters
    BY DEF Counters
  <2>2. PICK c1 : c1 = [count EXCEPT !.tsViolations = @ + late]
    OBVIOUS
  <2>3. /\ c1 \in [Counters -> Nat] /\ c1.tsViolations = count.tsViolations + late
        /\ \A c \in Counters : c # "tsViolations" => c1[c] = count[c]
    BY <1>5, <2>1, <2>2
  <2>4. PICK c2 : c2 = [c1 EXCEPT !.snapshots = @ + snap]
    OBVIOUS
  <2>5. c1.snapshots = count.snapshots
    BY <2>1, <2>3
  <2>6. /\ c2 \in [Counters -> Nat] /\ c2.snapshots = count.snapshots + snap
        /\ \A c \in Counters : c # "snapshots" => c2[c] = c1[c]
    BY <1>5, <2>1, <2>3, <2>4, <2>5
  <2>7. PICK c3 : c3 = [c2 EXCEPT !.chainBreaks = @ + hole]
    OBVIOUS
  <2>8. c2.chainBreaks = count.chainBreaks
    BY <2>1, <2>3, <2>6
  <2>9. /\ c3 \in [Counters -> Nat] /\ c3.chainBreaks = count.chainBreaks + hole
        /\ \A c \in Counters : c # "chainBreaks" => c3[c] = c2[c]
    BY <1>5, <2>1, <2>6, <2>7, <2>8
  <2>10. count' = [c3 EXCEPT !.idBreaks = @ + back]
    BY <1>11, <2>2, <2>4, <2>7
  <2>11. c3.idBreaks = count.idBreaks
    BY <2>1, <2>3, <2>6, <2>9
  <2>12. /\ count' \in [Counters -> Nat] /\ count'.idBreaks = count.idBreaks + back
         /\ \A c \in Counters : c # "idBreaks" => count'[c] = c3[c]
    BY <1>5, <2>1, <2>9, <2>10, <2>11
  <2>13. QED
    BY <2>1, <2>3, <2>6, <2>9, <2>12
<1>13. /\ Appended(l) /\ damage' = Seen /\ lastTs' = l.ts
       /\ session' = session /\ scanned' = scanned /\ at' = at /\ verdict' = verdict
       /\ prev' = [prev EXCEPT ![File.stream] = After(File.stream, Before(File.stream, l), l)]
       /\ IF Misordered(l) \/ (Breaks(File.stream, Before(File.stream, l), l) /\ File.stream # "depth")
          THEN Soiled ELSE Clean(l)
  BY <1>2
<1>14. IF Soils(l) THEN Soiled ELSE Clean(l)
  <2>1. Soils(l) <=>
          Misordered(l) \/ (Breaks(File.stream, Before(File.stream, l), l) /\ File.stream # "depth")
    BY <1>3 DEF Soils
  <2>2. QED
    BY <1>13, <2>1
<1>15. After(File.stream, Before(File.stream, l), l) \in Id \cup {None}
  <2>1. l.hi \in Id
    BY <1>3, <1>4, LineIs
  <2>2. Before(File.stream, l) \in Id \cup {None}
    BY <1>4, <1>5 DEF Before
  <2>3. QED
    BY <2>1, <2>2 DEF After
<1>16. /\ prev' \in [Streams -> Id \cup {None}]
       /\ prev'[File.stream] = After(File.stream, Before(File.stream, l), l)
       /\ \A s \in Streams : ~(l.kind = "event" /\ File.stream = s) => prev'[s] = prev[s]
  BY <1>3, <1>4, <1>5, <1>13, <1>15
<1>17. breaks <=> l.kind = "event" /\ Breaks(File.stream, Before(File.stream, l), l)
  BY <1>3, <1>6
<1>18. lastTs' = IF l.kind = "broken" THEN lastTs ELSE l.ts
  BY <1>3, <1>13
<1>19. damage' = IF l.kind = "broken" THEN [damage EXCEPT !.had = TRUE, !.last = TRUE] ELSE Seen
  BY <1>3, <1>13
<1>20. IF l.kind # "broken" /\ Misordered(l) THEN count'.tsViolations = count.tsViolations + 1
                                            ELSE count'.tsViolations = count.tsViolations
  BY <1>3, <1>5, <1>7, <1>12
<1>21. IF breaks /\ File.stream # "depth" THEN count'.idBreaks = count.idBreaks + 1
                                          ELSE count'.idBreaks = count.idBreaks
  BY <1>5, <1>10, <1>12
<1>22. IF breaks /\ File.stream = "depth" THEN count'.chainBreaks = count.chainBreaks + 1
                                          ELSE count'.chainBreaks = count.chainBreaks
  BY <1>5, <1>9, <1>12
<1>23. IF l.kind = "event" /\ File.stream = "depth_snapshot"
         THEN count'.snapshots = count.snapshots + 1 ELSE count'.snapshots = count.snapshots
  BY <1>3, <1>5, <1>8, <1>12
<1>24. IF l.kind = "undecodable" THEN count'.decodeErrors = count.decodeErrors + 1
                                 ELSE count'.decodeErrors = count.decodeErrors
  BY <1>3, <1>12
<1>25. QED
  BY <1>3, <1>4, <1>12, <1>13, <1>14, <1>16, <1>17, <1>18, <1>19, <1>20, <1>21, <1>22, <1>23,
     <1>24, LineRead

-----------------------------------------------------------------------------
(* A broken line has a good one behind it, or the file ends broken.        *)
LEMMA BrokenSomewhere ==
  ASSUME TypeOK, NEW f \in DOMAIN session
  PROVE  /\ BrokenInside(f) => HasBroken(f)
         /\ HasBroken(f) /\ ~EndsBroken(f) => BrokenInside(f)
<1>1. Len(lines[f]) \in Nat /\ DOMAIN lines[f] = 1 .. Len(lines[f])
  BY FilesAre
<1>2. BrokenInside(f) => HasBroken(f)
  BY DEF BrokenInside, HasBroken
<1>3. ASSUME HasBroken(f), ~EndsBroken(f) PROVE BrokenInside(f)
  <2>1. PICK i \in DOMAIN lines[f] : lines[f][i] = Broken
    BY <1>3 DEF HasBroken
  <2>2. PICK k : k = Len(lines[f])
    OBVIOUS
  <2>3. k \in DOMAIN lines[f] /\ (i < k \/ i = k) /\ lines[f] # << >>
    BY <1>1, <2>1, <2>2
  <2>4. lines[f][k] # Broken
    BY <1>3, <2>2, <2>3 DEF EndsBroken
  <2>5. QED
    BY <2>1, <2>3, <2>4 DEF BrokenInside
<1>4. QED
  BY <1>2, <1>3

(* The end of a file: its damage goes to the counters, and the next file   *)
(* has nothing read.                                                       *)
LEMMA CloseFileStep == ASSUME ScanInv, CloseFile PROVE ScanInv'
<1>1. /\ TypeOK /\ InScanOrder /\ GapsSound /\ StampSound /\ ChainSound /\ CountSound
      /\ DamageSound /\ DirtSound /\ CutoffSound /\ VerdictSound
  BY DEF ScanInv
<1>2. /\ session' = session /\ lines' = lines /\ scanned' = scanned
      /\ prev' = prev /\ cutoff' = cutoff /\ dirty' = dirty /\ verdict' = verdict
      /\ at' = at + 1 /\ lastTs' = None /\ damage' = NoDamage
      /\ at \in DOMAIN session /\ verdict = ""
  BY DEF CloseFile, ResetFile, Reading
<1>3. PICK N \in Nat : N = Len(session) /\ DOMAIN session = 1 .. N
  BY <1>1, FilesAre
<1>4. PICK k \in Nat : k = at + 1 /\ at \in Nat /\ at < k /\ at > 0 /\ k <= N + 1
  <2>1. at \in 1 .. N
    BY <1>2, <1>3
  <2>2. at \in Nat /\ at + 1 \in Nat /\ at < at + 1 /\ at > 0 /\ at + 1 <= N + 1
    BY <2>1
  <2>3. QED
    BY <2>2
<1>5. \A f \in DOMAIN session : /\ f \in Nat
                                /\ f < k <=> f < at \/ f = at
                                /\ f >= k => f > at
  BY <1>3, <1>4
<1>6. \A f \in DOMAIN session : f >= k => lines[f] = << >>
  BY <1>1, <1>5 DEF InScanOrder
<1>7. PICK inside \in Nat : /\ inside = If(damage.had /\ damage.after)
                            /\ damage.had /\ damage.after => inside = 1
                            /\ ~(damage.had /\ damage.after) => inside = 0
  BY DEF If
<1>8. PICK tail \in Nat : /\ tail = If(damage.had /\ ~damage.after /\ damage.last)
                          /\ damage.had /\ ~damage.after /\ damage.last => tail = 1
                          /\ ~(damage.had /\ ~damage.after /\ damage.last) => tail = 0
  BY DEF If
<1>9. count' = [count EXCEPT !.interspersed = @ + inside, !.tailTruncated = @ + tail]
  BY <1>7, <1>8 DEF CloseFile
<1>10. /\ count' \in [Counters -> Nat]
       /\ count'.interspersed = count.interspersed + inside
       /\ count'.tailTruncated = count.tailTruncated + tail
       /\ count'.chainBreaks = count.chainBreaks /\ count'.snapshots = count.snapshots
       /\ count'.idBreaks = count.idBreaks /\ count'.tsViolations = count.tsViolations
       /\ count'.decodeErrors = count.decodeErrors /\ count'.bucketGaps = count.bucketGaps
       /\ count.interspersed \in Nat /\ count.tailTruncated \in Nat
  <2>1. \A c \in {"tsViolations", "snapshots", "chainBreaks", "idBreaks", "decodeErrors", "interspersed",
                  "tailTruncated", "bucketGaps"} : c \in Counters
    BY DEF Counters
  <2>2. count \in [Counters -> Nat]
    BY <1>1 DEF TypeOK
  <2>3. PICK c1 : c1 = [count EXCEPT !.interspersed = @ + inside]
    OBVIOUS
  <2>4. /\ c1 \in [Counters -> Nat] /\ c1.interspersed = count.interspersed + inside
        /\ \A c \in Counters : c # "interspersed" => c1[c] = count[c]
    BY <2>1, <2>2, <2>3
  <2>5. count' = [c1 EXCEPT !.tailTruncated = @ + tail]
    BY <1>9, <2>3
  <2>6. c1.tailTruncated = count.tailTruncated
    BY <2>1, <2>4
  <2>7. /\ count' \in [Counters -> Nat] /\ count'.tailTruncated = count.tailTruncated + tail
        /\ \A c \in Counters : c # "tailTruncated" => count'[c] = c1[c]
    BY <2>1, <2>4, <2>5, <2>6
  <2>8. QED
    BY <2>1, <2>2, <2>4, <2>7
<1>11. /\ Places' = Places /\ Whole' = Whole
       /\ \A n : MissingUpTo(n)' = MissingUpTo(n)
  BY <1>2, Unread
<1>12. TypeOK'
  <2>1. at' \in 0 .. Len(session') + 1
    <3>1. k \in 0 .. N + 1
      BY <1>4
    <3>2. QED
      BY <1>2, <1>3, <1>4, <3>1
  <2>2. damage' \in [had : BOOLEAN, last : BOOLEAN, after : BOOLEAN]
    BY <1>2 DEF NoDamage
  <2>3. /\ session' \in Sessions /\ scanned' \in 0 .. Len(session') /\ DOMAIN lines' = DOMAIN session'
        /\ \A f \in DOMAIN session' : lines'[f] \in Seq(LinesOf(session'[f].stream))
    BY <1>1, <1>2 DEF TypeOK
  <2>4. /\ lastTs' \in Ts \cup {None} /\ prev' \in [Streams -> Id \cup {None}]
        /\ cutoff' \in [Venues -> Ts \cup {None}] /\ dirty' \in SUBSET Venues
        /\ verdict' \in {"", "PASS", "WARN", "FAIL", "error"}
    BY <1>1, <1>2 DEF TypeOK
  <2>5. QED
    BY <1>2, <1>10, <2>1, <2>2, <2>3, <2>4 DEF TypeOK
<1>13. InScanOrder'
  <2>1. \A f \in DOMAIN session : f > k => f >= k
    BY <1>4, <1>5
  <2>2. \A f \in DOMAIN session : f > k => lines[f] = << >>
    BY <1>6, <2>1
  <2>3. at' = k
    BY <1>2, <1>4
  <2>4. IsFiniteSet(Places')
    BY <1>1, <1>11 DEF InScanOrder
  <2>5. QED
    BY <1>2, <2>2, <2>3, <2>4 DEF InScanOrder
<1>14. GapsSound'
  <2>1. PICK n : n = scanned
    OBVIOUS
  <2>2. PICK M : M = MissingUpTo(n)
    OBVIOUS
  <2>3. MissingUpTo(n)' = M /\ scanned' = n
    BY <1>2, <1>11, <2>1, <2>2
  <2>4. MissingUpTo(scanned)' = M
    BY <2>3 DEF MissingUpTo
  <2>5. count'.bucketGaps = Cardinality(M) /\ IsFiniteSet(M) /\ scanned' = Len(session')
    BY <1>1, <1>2, <1>4, <1>10, <2>1, <2>2 DEF GapsSound
  <2>6. QED
    BY <2>4, <2>5 DEF GapsSound
<1>15. StampSound'
  <2>1. \A p \in Whole : p[1] # k
    <3>1. SUFFICES ASSUME NEW p \in Whole, p[1] = k PROVE FALSE
      OBVIOUS
    <3>2. p \in Places
      BY <3>1 DEF Whole
    <3>3. p[1] \in DOMAIN session /\ p[2] \in DOMAIN lines[p[1]]
      BY <1>1, <3>2, PlacesAre
    <3>4. lines[p[1]] = << >>
      BY <1>4, <1>6, <3>1, <3>3
    <3>5. QED
      BY <3>3, <3>4
  <2>2. at' = k
    BY <1>2, <1>4
  <2>3. QED
    BY <1>2, <1>11, <2>1, <2>2 DEF StampSound
<1>16. DamageSound'
  <2>1. /\ damage.had <=> HasBroken(at)
        /\ damage.last <=> EndsBroken(at)
        /\ damage.after <=> BrokenInside(at)
        /\ count.interspersed > 0 <=> \E f \in DOMAIN session : f < at /\ BrokenInside(f)
        /\ count.interspersed > 0 \/ count.tailTruncated > 0 <=>
             \E f \in DOMAIN session : f < at /\ HasBroken(f)
    BY <1>1, <1>2 DEF DamageSound
  <2>2. /\ BrokenInside(at) => HasBroken(at)
        /\ HasBroken(at) /\ ~EndsBroken(at) => BrokenInside(at)
    BY <1>1, <1>2, BrokenSomewhere
  <2>3. count'.interspersed > 0 <=> count.interspersed > 0 \/ BrokenInside(at)
    <3>1. inside > 0 <=> BrokenInside(at)
      BY <1>7, <2>1, <2>2
    <3>2. count'.interspersed > 0 <=> count.interspersed > 0 \/ inside > 0
      BY <1>7, <1>10
    <3>3. QED
      BY <3>1, <3>2
  <2>4. count'.interspersed > 0 \/ count'.tailTruncated > 0 <=>
          count.interspersed > 0 \/ count.tailTruncated > 0 \/ HasBroken(at)
    <3>1. inside > 0 \/ tail > 0 <=> HasBroken(at)
      BY <1>7, <1>8, <2>1, <2>2
    <3>2. count'.interspersed > 0 \/ count'.tailTruncated > 0 <=>
            count.interspersed > 0 \/ count.tailTruncated > 0 \/ inside > 0 \/ tail > 0
      BY <1>7, <1>8, <1>10
    <3>3. QED
      BY <3>1, <3>2
  <2>5. count'.interspersed > 0 <=> \E f \in DOMAIN session : f < k /\ BrokenInside(f)
    BY <1>2, <1>5, <2>1, <2>3
  <2>6. count'.interspersed > 0 \/ count'.tailTruncated > 0 <=>
          \E f \in DOMAIN session : f < k /\ HasBroken(f)
    BY <1>2, <1>5, <2>1, <2>4
  <2>7. k \in DOMAIN session => ~HasBroken(k) /\ ~EndsBroken(k) /\ ~BrokenInside(k)
    <3>1. SUFFICES ASSUME k \in DOMAIN session
                   PROVE  ~HasBroken(k) /\ ~EndsBroken(k) /\ ~BrokenInside(k)
      OBVIOUS
    <3>2. lines[k] = << >>
      BY <1>4, <1>6, <3>1
    <3>3. QED
      BY <3>2 DEF HasBroken, EndsBroken, BrokenInside
  <2>8. ~damage'.had /\ ~damage'.last /\ ~damage'.after
    BY <1>2 DEF NoDamage
  <2>9. at' = k
    BY <1>2, <1>4
  <2>10. (at \in DOMAIN session =>
            /\ damage.had   <=> HasBroken(at)
            /\ damage.last  <=> EndsBroken(at)
            /\ damage.after <=> BrokenInside(at))'
    BY <1>2, <2>7, <2>8, <2>9 DEF HasBroken, EndsBroken, BrokenInside
  <2>11. (count.interspersed > 0 <=> \E f \in DOMAIN session : f < at /\ BrokenInside(f))'
    <3>1. \A f : BrokenInside(f)' <=> BrokenInside(f)
      BY <1>2, Unread
    <3>2. (\E f \in DOMAIN session : f < at /\ BrokenInside(f))' <=>
            \E f \in DOMAIN session : f < k /\ BrokenInside(f)
      BY <1>2, <2>9, <3>1
    <3>3. QED
      BY <2>5, <3>2
  <2>12. (count.interspersed > 0 \/ count.tailTruncated > 0 <=>
            \E f \in DOMAIN session : f < at /\ HasBroken(f))'
    BY <1>2, <2>6, <2>9 DEF HasBroken
  <2>13. QED
    BY <1>2, <2>10, <2>11, <2>12 DEF DamageSound
<1>17. VerdictSound'
  BY <1>2 DEF VerdictSound
<1>18. ChainSound' /\ CountSound' /\ DirtSound' /\ CutoffSound'
  BY <1>1, <1>2, <1>10, Kept
<1>19. QED
  BY <1>12, <1>13, <1>14, <1>15, <1>16, <1>17, <1>18 DEF ScanInv

(* The missing buckets are a matter of the file list alone.                *)
LEMMA SameBuckets ==
  ASSUME session' = session, scanned' = scanned
  PROVE  MissingUpTo(scanned)' = MissingUpTo(scanned)
BY DEF MissingUpTo, MissingBetween, BucketsOf

(* The steps that change nothing but the verdict.                          *)
LEMMA Ended ==
  ASSUME ScanInv, VerdictSound', verdict' \in {"", "PASS", "WARN", "FAIL", "error"},
         session' = session, scanned' = scanned, lines' = lines, at' = at, lastTs' = lastTs,
         damage' = damage, prev' = prev, count' = count, cutoff' = cutoff, dirty' = dirty
  PROVE  ScanInv'
<1>1. /\ TypeOK /\ InScanOrder /\ GapsSound /\ StampSound /\ ChainSound /\ CountSound
      /\ DamageSound /\ DirtSound /\ CutoffSound
  BY DEF ScanInv
<1>2. /\ Places' = Places /\ Whole' = Whole
      /\ \A p : LineAt(p)' = LineAt(p)
      /\ \A q : TsIssue(q)' <=> TsIssue(q)
      /\ \A f : /\ HasBroken(f)' <=> HasBroken(f)
                /\ EndsBroken(f)' <=> EndsBroken(f)
                /\ BrokenInside(f)' <=> BrokenInside(f)
  BY Unread
<1>3. TypeOK'
  BY <1>1 DEF TypeOK
<1>4. InScanOrder'
  BY <1>1, <1>2 DEF InScanOrder
<1>5. GapsSound'
  <2>1. MissingUpTo(scanned)' = MissingUpTo(scanned)
    BY SameBuckets
  <2>2. QED
    BY <1>1, <2>1 DEF GapsSound
<1>6. StampSound'
  BY <1>1, <1>2 DEF StampSound
<1>7. DamageSound'
  <2>1. (at \notin DOMAIN session => damage = NoDamage /\ lastTs = None)'
    BY <1>1 DEF DamageSound
  <2>2. (at \in DOMAIN session =>
           /\ damage.had   <=> HasBroken(at)
           /\ damage.last  <=> EndsBroken(at)
           /\ damage.after <=> BrokenInside(at))'
    BY <1>1 DEF DamageSound, HasBroken, EndsBroken, BrokenInside
  <2>3. (count.interspersed > 0 <=> \E f \in DOMAIN session : f < at /\ BrokenInside(f))'
    BY <1>1, <1>2 DEF DamageSound
  <2>4. (count.interspersed > 0 \/ count.tailTruncated > 0 <=>
           \E f \in DOMAIN session : f < at /\ HasBroken(f))'
    BY <1>1, <1>2 DEF DamageSound
  <2>5. QED
    BY <2>1, <2>2, <2>3, <2>4 DEF DamageSound
<1>8. ChainSound' /\ CountSound' /\ DirtSound' /\ CutoffSound'
  BY <1>1, Kept
<1>9. QED
  BY <1>3, <1>4, <1>5, <1>6, <1>7, <1>8 DEF ScanInv

(* The verdict says what the counters say.                                 *)
LEMMA VerdictStep == ASSUME ScanInv, Verdict PROVE ScanInv'
<1>1. TypeOK
  BY DEF ScanInv
<1>2. /\ at' = at /\ session' = session /\ count' = count /\ at = Len(session) + 1
      /\ verdict' = IF count.interspersed > 0 THEN "FAIL"
                    ELSE IF Suspect \/ count.tailTruncated > 0 THEN "WARN" ELSE "PASS"
  BY DEF Verdict
<1>3. count.interspersed \in Nat /\ count.tailTruncated \in Nat
  BY <1>1, CountersAre
<1>4. Suspect' <=> Suspect
  BY <1>2 DEF Suspect, ChainBreaksUnexplained, Saturating
<1>5. verdict' \in {"", "PASS", "WARN", "FAIL", "error"}
  BY <1>2
<1>6. verdict' = "FAIL" <=> count.interspersed > 0
  BY <1>2
<1>7. verdict' = "PASS" => ~Suspect /\ count.tailTruncated = 0
  BY <1>2, <1>3
<1>8. VerdictSound'
  BY <1>2, <1>4, <1>6, <1>7 DEF VerdictSound
<1>9. QED
  BY <1>5, <1>8, Ended DEF Verdict

(* A failed read ends the check without a verdict.                         *)
LEMMA ReadFailsStep == ASSUME ScanInv, ReadFails PROVE ScanInv'
<1>1. verdict' = "error"
  BY DEF ReadFails
<1>2. VerdictSound'
  BY <1>1 DEF VerdictSound
<1>3. QED
  BY <1>1, <1>2, Ended DEF ReadFails

(* Every step of the check keeps the invariant.                            *)
LEMMA ScanStep == ASSUME ScanInv, [Next]_vars PROVE ScanInv'
<1>1. CASE PreScan
  BY <1>1, PreScanStep
<1>2. CASE StartFiles
  BY <1>2, StartFilesStep
<1>3. CASE ReadBroken
  BY <1>3, ReadBrokenStep
<1>4. CASE ReadUndecodable
  BY <1>4, ReadUndecodableStep
<1>5. CASE ReadEvent
  BY <1>5, ReadEventStep
<1>6. CASE ReadFails
  BY <1>6, ReadFailsStep
<1>7. CASE CloseFile
  BY <1>7, CloseFileStep
<1>8. CASE Verdict
  BY <1>8, VerdictStep
<1>9. CASE UNCHANGED vars
  <2>1. /\ session' = session /\ lines' = lines /\ lastTs' = lastTs /\ damage' = damage
        /\ prev' = prev /\ cutoff' = cutoff /\ dirty' = dirty /\ verdict' = verdict
        /\ at' = at /\ scanned' = scanned /\ count' = count
    BY <1>9 DEF vars
  <2>2. TypeOK /\ VerdictSound
    BY DEF ScanInv
  <2>3. VerdictSound'
    BY <2>1, <2>2 DEF VerdictSound, Suspect, ChainBreaksUnexplained, Saturating
  <2>4. verdict' \in {"", "PASS", "WARN", "FAIL", "error"}
    BY <2>1, <2>2 DEF TypeOK
  <2>5. QED
    BY <2>1, <2>3, <2>4, Ended
<1>10. QED
  BY <1>1, <1>2, <1>3, <1>4, <1>5, <1>6, <1>7, <1>8, <1>9 DEF Next

(* What the counters, the marks per stream and per file, and the cutoffs   *)
(* of check_session say of all the lines read so far.                      *)
THEOREM ScanInvariant == Spec => []ScanInv
<1>1. Init => ScanInv
  BY StartsSound
<1>2. ScanInv /\ [Next]_vars => ScanInv'
  BY ScanStep
<1>3. QED
  BY <1>1, <1>2, PTL DEF Spec

-----------------------------------------------------------------------------
(* With no counter raised, no pair of lines is out of order; the chain     *)
(* breaks are the holes, and the snapshots at least as many.               *)
LEMMA PassSound == ASSUME ScanInv PROVE PassMeansReplayable
<1>1. /\ TypeOK /\ CountSound /\ DamageSound /\ VerdictSound
  BY DEF ScanInv
<1>2. SUFFICES ASSUME verdict = "PASS"
               PROVE  /\ \A p \in Places : LineAt(p).kind = "event"
                      /\ FilesInTimeOrder
                      /\ IdsInOrder
                      /\ Cardinality(Holes) <=
                           Cardinality({p \in Places : StreamAt(p) = "depth_snapshot"})
  BY DEF PassMeansReplayable
<1>3. /\ at = Len(session) + 1 /\ ~(count.interspersed > 0) /\ ~Suspect /\ count.tailTruncated = 0
  BY <1>1, <1>2 DEF VerdictSound
<1>4. /\ ~(count.tsViolations > 0) /\ ~(count.decodeErrors > 0) /\ ~(count.idBreaks > 0)
      /\ ~(ChainBreaksUnexplained > 0)
  BY <1>3 DEF Suspect
<1>5. count.chainBreaks \in Nat /\ count.snapshots \in Nat
  BY <1>1, CountersAre
<1>6. count.chainBreaks <= count.snapshots
  BY <1>4, <1>5 DEF ChainBreaksUnexplained, Saturating
<1>7. /\ ~\E q \in Whole : TsIssue(q)
      /\ ~\E q \in Places : LineAt(q).kind = "undecodable"
      /\ ~\E q \in EventPlaces : IdIssue(q)
      /\ Cardinality(Holes) <= Cardinality(SnapshotPlaces)
  BY <1>1, <1>4, <1>6 DEF CountSound
<1>8. PICK N \in Nat : DOMAIN session = 1 .. N /\ at = N + 1
  BY <1>1, <1>3, FilesAre
<1>9. \A f \in DOMAIN session : ~HasBroken(f)
  <2>1. ~\E f \in DOMAIN session : f < at /\ HasBroken(f)
    BY <1>1, <1>3 DEF DamageSound
  <2>2. \A f \in DOMAIN session : f < at
    BY <1>8
  <2>3. QED
    BY <2>1, <2>2
<1>10. ASSUME NEW p \in Places PROVE LineAt(p).kind = "event"
  <2>1. /\ p[1] \in DOMAIN session /\ p[2] \in DOMAIN lines[p[1]]
        /\ StreamAt(p) \in Streams /\ LineAt(p) \in LinesOf(StreamAt(p))
    BY <1>1, PlacesAre
  <2>2. LineAt(p) # Broken
    BY <1>9, <2>1 DEF HasBroken, LineAt
  <2>3. LineAt(p).kind # "broken" /\ LineAt(p).kind \in {"broken", "undecodable", "event"}
    BY <2>1, <2>2, LineIs
  <2>4. QED
    BY <1>7, <2>3
<1>11. ASSUME NEW p \in Places
       PROVE  /\ LineAt(p).ts \in Nat /\ LineAt(p).lo \in Nat /\ LineAt(p).hi \in Nat
              /\ p \in Whole /\ p \in EventPlaces
  <2>1. StreamAt(p) \in Streams /\ LineAt(p) \in LinesOf(StreamAt(p)) /\ LineAt(p).kind = "event"
    BY <1>1, <1>10, PlacesAre
  <2>2. LineAt(p).ts \in Ts /\ LineAt(p).lo \in Id /\ LineAt(p).hi \in Id
    BY <2>1, LineIs
  <2>3. (\A t \in Ts : t \in Nat) /\ (\A i \in Id : i \in Nat)
    BY IntegrityAssumption DEF Ts, Id
  <2>4. QED
    BY <2>1, <2>2, <2>3 DEF Whole, EventPlaces
<1>12. FilesInTimeOrder
  <2>1. \A p, q \in Whole : p[1] = q[1] /\ p[2] < q[2] => ~(LineAt(p).ts > LineAt(q).ts)
    BY <1>7 DEF TsIssue
  <2>2. \A p \in Whole : LineAt(p).ts \in Nat
    BY <1>11 DEF Whole
  <2>3. QED
    BY <2>1, <2>2 DEF FilesInTimeOrder
<1>13. IdsInOrder
  <2>1. SUFFICES ASSUME NEW q \in EventPlaces, NEW p \in Since(q)
                 PROVE  /\ StreamAt(q) \in {"bookTicker", "market_trades"} => LineAt(p).hi < LineAt(q).lo
                        /\ StreamAt(q) = "market" => LineAt(p).lo <= LineAt(q).lo
    BY DEF IdsInOrder
  <2>2. ~IdIssue(q)
    BY <1>7
  <2>3. q \in Places /\ p \in Places
    BY DEF EventPlaces, Since
  <2>4. /\ LineAt(p).lo \in Nat /\ LineAt(p).hi \in Nat /\ LineAt(q).lo \in Nat
    BY <1>11, <2>3
  <2>5. StreamAt(q) \in {"bookTicker", "market_trades"} => LineAt(p).hi < LineAt(q).lo
    <3>1. SUFFICES ASSUME StreamAt(q) \in {"bookTicker", "market_trades"}
                   PROVE  LineAt(p).hi < LineAt(q).lo
      OBVIOUS
    <3>2. ~(LineAt(p).hi >= LineAt(q).lo)
      BY <2>2, <3>1 DEF IdIssue
    <3>3. QED
      BY <2>4, <3>2
  <2>6. StreamAt(q) = "market" => LineAt(p).lo <= LineAt(q).lo
    <3>1. SUFFICES ASSUME StreamAt(q) = "market"
                   PROVE  LineAt(p).lo <= LineAt(q).lo
      OBVIOUS
    <3>2. ~(LineAt(p).lo > LineAt(q).lo)
      BY <2>2, <3>1 DEF IdIssue
    <3>3. QED
      BY <2>4, <3>2
  <2>7. QED
    BY <2>5, <2>6
<1>14. SnapshotPlaces = {p \in Places : StreamAt(p) = "depth_snapshot"}
  BY <1>10 DEF SnapshotPlaces, EventPlaces
<1>15. QED
  BY <1>7, <1>10, <1>12, <1>13, <1>14

(* A file is damaged inside when the scan saw a line behind a broken one.  *)
LEMMA FailSound == ASSUME ScanInv PROVE FailMeansDamageInside
<1>1. /\ TypeOK /\ DamageSound /\ VerdictSound
  BY DEF ScanInv
<1>2. SUFFICES ASSUME verdict \in {"PASS", "WARN", "FAIL"}
               PROVE  verdict = "FAIL" <=> DamagedInside
  BY DEF FailMeansDamageInside
<1>3. /\ at = Len(session) + 1
      /\ verdict = "FAIL" <=> count.interspersed > 0
      /\ count.interspersed > 0 <=> \E f \in DOMAIN session : f < at /\ BrokenInside(f)
  BY <1>1, <1>2 DEF VerdictSound, DamageSound
<1>4. PICK N \in Nat : DOMAIN session = 1 .. N /\ at = N + 1
  BY <1>1, <1>3, FilesAre
<1>5. \A f \in DOMAIN session : f < at
  BY <1>4
<1>6. ASSUME NEW f \in DOMAIN session, BrokenInside(f) PROVE DamagedInside
  <2>1. PICK i \in DOMAIN lines[f], j \in DOMAIN lines[f] :
          i < j /\ lines[f][i] = Broken /\ lines[f][j] # Broken
    BY <1>6 DEF BrokenInside
  <2>2. << f, i >> \in Places /\ << f, j >> \in Places
    BY DEF Places
  <2>3. LineAt(<< f, i >>) = Broken /\ LineAt(<< f, j >>) # Broken
    BY <2>1 DEF LineAt
  <2>4. QED
    BY <2>1, <2>2, <2>3 DEF DamagedInside
<1>7. ASSUME DamagedInside PROVE \E f \in DOMAIN session : BrokenInside(f)
  <2>1. PICK p \in Places, q \in Places :
          p[1] = q[1] /\ p[2] < q[2] /\ LineAt(p) = Broken /\ LineAt(q) # Broken
    BY <1>7 DEF DamagedInside
  <2>2. /\ p[1] \in DOMAIN session /\ p[2] \in DOMAIN lines[p[1]] /\ q[2] \in DOMAIN lines[q[1]]
    BY <1>1, PlacesAre
  <2>3. BrokenInside(p[1])
    BY <2>1, <2>2 DEF BrokenInside, LineAt
  <2>4. QED
    BY <2>2, <2>3
<1>8. QED
  BY <1>3, <1>5, <1>6, <1>7

(* The largest member of a set.                                            *)
LEMMA MaxIs ==
  ASSUME NEW S, \A k \in S : k \in Int, NEW m \in S, \A k \in S : k <= m
  PROVE  Max(S) = m
<1>1. \A k \in S : m >= k
  OBVIOUS
<1>2. Max(S) \in S /\ \A k \in S : Max(S) >= k
  BY <1>1 DEF Max
<1>3. m \in Int /\ Max(S) \in Int /\ m <= Max(S) /\ Max(S) <= m
  BY <1>2
<1>4. QED
  BY <1>3

(* A clean line is an event, so its stamp is a number and the cutoff is    *)
(* the largest.                                                            *)
LEMMA CutoffIsMax == ASSUME ScanInv PROVE CutoffOfTheCleanPart
<1>1. TypeOK /\ CutoffSound
  BY DEF ScanInv
<1>2. ASSUME NEW v \in Venues
      PROVE  cutoff[v] = IF CleanOf(v) = {} THEN None ELSE Max({LineAt(q).ts : q \in CleanOf(v)})
  <2>1. CASE CleanOf(v) = {}
    BY <1>1, <2>1 DEF CutoffSound
  <2>2. CASE CleanOf(v) # {}
    <3>1. PICK q \in CleanOf(v) : LineAt(q).ts = cutoff[v]
      BY <1>1, <2>2 DEF CutoffSound
    <3>2. \A r \in CleanOf(v) : LineAt(r).ts <= cutoff[v]
      BY <1>1 DEF CutoffSound
    <3>3. ASSUME NEW r \in CleanOf(v) PROVE LineAt(r).ts \in Int
      <4>1. r \in Places /\ VenueAt(r) = v
        BY DEF CleanOf
      <4>2. ~Precedes(r, r)
        BY <1>1, <4>1, PlacesInLine
      <4>3. ~Issue(r)
        BY <4>1, <4>2 DEF CleanOf
      <4>4. LineAt(r).kind = "event"
        BY <4>3 DEF Issue
      <4>5. StreamAt(r) \in Streams /\ LineAt(r) \in LinesOf(StreamAt(r))
        BY <1>1, <4>1, PlacesAre
      <4>6. LineAt(r).ts \in Ts
        BY <4>4, <4>5, LineIs
      <4>7. QED
        BY <4>6, IntegrityAssumption DEF Ts
    <3>4. PICK S : S = {LineAt(r).ts : r \in CleanOf(v)}
      OBVIOUS
    <3>5. cutoff[v] \in S /\ \A t \in S : t \in Int /\ t <= cutoff[v]
      BY <3>1, <3>2, <3>3, <3>4
    <3>6. Max(S) = cutoff[v]
      BY <3>5, MaxIs
    <3>7. QED
      BY <2>2, <3>4, <3>6
  <2>3. QED
    BY <2>1, <2>2
<1>3. QED
  BY <1>2 DEF CutoffOfTheCleanPart, CleanOf

(* Behind the pre-scan the buckets missing up to the last file are all     *)
(* there are.                                                              *)
LEMMA GapsCounted == ASSUME ScanInv PROVE GapsAreMissingBuckets
<1>1. TypeOK /\ GapsSound
  BY DEF ScanInv
<1>2. SUFFICES ASSUME at > 0
               PROVE  count.bucketGaps =
                        Cardinality(UNION {MissingBetween(f, g) : f, g \in DOMAIN session})
  BY DEF GapsAreMissingBuckets
<1>3. DOMAIN session = 1 .. Len(session) /\ scanned = Len(session)
  BY <1>1, <1>2, FilesAre DEF GapsSound
<1>4. MissingUpTo(scanned) = UNION {MissingBetween(f, g) : f, g \in DOMAIN session}
  BY <1>3 DEF MissingUpTo
<1>5. QED
  BY <1>1, <1>4 DEF GapsSound

(* A session check_session gives PASS is whole, each of its files is in    *)
(* time-stamp order, ids go up over all the buckets of a stream, and the   *)
(* depth chain has no more holes than snapshots: for every list of files   *)
(* of any length, any stamps and ids.                                      *)
THEOREM PassIsReplayable == Spec => []PassMeansReplayable
<1>1. ScanInv => PassMeansReplayable
  BY PassSound
<1>2. QED
  BY <1>1, ScanInvariant, PTL

(* The verdict is FAIL exactly of the sessions with a file where a line    *)
(* that parses is behind one that does not.                                *)
THEOREM FailIsDamageInside == Spec => []FailMeansDamageInside
<1>1. ScanInv => FailMeansDamageInside
  BY FailSound
<1>2. QED
  BY <1>1, ScanInvariant, PTL

(* Safe_replay_cutoff_ns of a venue is the latest stamp in front of its    *)
(* first issue in the order of the scan.                                   *)
THEOREM CutoffIsCleanPart == Spec => []CutoffOfTheCleanPart
<1>1. ScanInv => CutoffOfTheCleanPart
  BY CutoffIsMax
<1>2. QED
  BY <1>1, ScanInvariant, PTL

(* Bucket_gaps is the number of buckets between the first and the last of  *)
(* a stream that have no file, counted once each, whatever is there twice. *)
THEOREM GapsAreCounted == Spec => []GapsAreMissingBuckets
<1>1. ScanInv => GapsAreMissingBuckets
  BY GapsCounted
<1>2. QED
  BY <1>1, ScanInvariant, PTL

(* Every variable of the check keeps its type.                             *)
THEOREM ScanTypeOK == Spec => []TypeOK
<1>1. ScanInv => TypeOK
  BY DEF ScanInv
<1>2. QED
  BY <1>1, ScanInvariant, PTL
=============================================================================
