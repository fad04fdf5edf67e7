----------------------------- MODULE Integrity -----------------------------
(***************************************************************************)
(* `check_session` (crates/replayer/src/integrity.rs): one pass over the   *)
(* files of a session, file after file in the order of `list_files`        *)
(* (discovery.rs), that keeps a little state per file and per stream and   *)
(* ends in a verdict and a cutoff per venue.                               *)
(*                                                                         *)
(* The session is chosen while it is read: every line is any line its      *)
(* stream can hold, and `lines` keeps what was read, so the properties can *)
(* say what the counters and the verdict mean for the whole session.       *)
(*                                                                         *)
(* A line that decodes has a local time stamp and the numbers lo .. hi its *)
(* venue gives it: the update ids of a depth diff, the id of a book ticker *)
(* (lo = hi), the least and the largest trade id of a batch, the venue     *)
(* time of a market event (lo = hi).  A file of a market is about one      *)
(* asset, and the numbers of a trade or a snapshot are not looked at, as   *)
(* nothing is of acks and other events the check does not know.            *)
(*                                                                         *)
(* The state of a stream is keyed by the stream, so what it is at the end  *)
(* of one bucket is what its next bucket starts with.                      *)
(***************************************************************************)
EXTENDS Integers, Sequences, FiniteSets, FiniteSetsExt

CONSTANTS
  Sessions,   \* file lists: sequences of [venue, stream, bucket], sorted
  MaxLines,   \* bound: lines of a session
  MaxTs,      \* bound: local time stamps
  MaxId       \* bound: ids

Streams == {"bookTicker", "depth", "depth_snapshot", "trade", "market_trades", "market"}
Venues  == {"binance", "coinbase", "polymarket"}
Ts      == 1 .. MaxTs
Id      == 1 .. MaxId
None    == 0

(* list_files sorts by venue, stream and bucket: a stream is contiguous    *)
(* and its buckets do not decrease.  A bucket is there twice while it is   *)
(* both plain and compressed.  A stream is one venue's.                    *)
ASSUME IntegrityAssumption ==
  /\ MaxLines \in Nat /\ MaxTs \in Nat /\ MaxId \in Nat \ {0}
  /\ Sessions \subseteq Seq([venue : Venues, stream : Streams, bucket : Nat])
  /\ \A s \in Sessions : \A i, j \in DOMAIN s : i < j /\ s[i].stream = s[j].stream =>
       /\ s[i].bucket <= s[j].bucket /\ s[i].venue = s[j].venue
       /\ \A k \in i .. j : s[k].stream = s[i].stream

VARIABLES
  session,   \* the files
  scanned,   \* how many files the pre-scan has gone through
  lines,     \* history: what was read of each file
  at,        \* the file being read; 0 in the pre-scan, Len + 1 behind the last
  lastTs,    \* last_local_ts_ns, per file
  damage,    \* had_parse_error, last_was_parse_error, had_event_after_parse_error
  prev,      \* depth_chain_state, book_ticker_state, ..., per stream
  count,     \* the counters of the report the verdict is made of
  cutoff,    \* last_clean_ns_by_venue
  dirty,     \* venue_dirty
  verdict    \* "", then "PASS", "WARN", "FAIL"; "error": Err was returned

vars == << session, scanned, lines, at, lastTs, damage, prev, count, cutoff, dirty, verdict >>

Broken == [kind |-> "broken"]

(* The lines a stream can hold.                                            *)
Undecodable == [kind : {"undecodable"}, ts : Ts]

EventsOf(stream) ==
  {e \in [kind : {"event"}, ts : Ts, lo : Id, hi : Id, base : BOOLEAN] :
     /\ e.lo <= e.hi
     /\ stream \in {"bookTicker", "market"} => e.lo = e.hi
     /\ stream \in {"depth_snapshot", "trade"} => e.hi = 1
     /\ stream = "depth_snapshot" => e.base
     /\ e.base => stream \in {"depth_snapshot", "market_trades"}}

LinesOf(stream) == {Broken} \cup Undecodable \cup EventsOf(stream)

Counters == {"chainBreaks", "snapshots", "idBreaks", "tsViolations", "decodeErrors",
             "interspersed", "tailTruncated", "bucketGaps"}

NoDamage == [had |-> FALSE, last |-> FALSE, after |-> FALSE]

Init ==
  /\ session \in Sessions
  /\ scanned = 0
  /\ lines = [f \in DOMAIN session |-> << >>]
  /\ at = 0
  /\ lastTs = None
  /\ damage = NoDamage
  /\ prev = [s \in Streams |-> None]
  /\ count = [c \in Counters |-> 0]
  /\ cutoff = [v \in Venues |-> None]
  /\ dirty = {}
  /\ verdict = ""

-----------------------------------------------------------------------------
(* The pre-scan: gaps in the rotated buckets of each stream.               *)

(* Mutant: a bucket that is there twice wraps.                             *)
NotSaturating(n) == n

Saturating(n) == IF n < 0 THEN 0 ELSE n

(* Mutant: a gap counts the steps and not the buckets between.             *)
GapSteps(f) == Saturating(session[f + 1].bucket - session[f].bucket)

Gap(f) == Saturating(session[f + 1].bucket - session[f].bucket - 1)

Following == {f \in DOMAIN session :
                f + 1 \in DOMAIN session /\ session[f].stream = session[f + 1].stream}

PreScan ==
  /\ at = 0 /\ scanned < Len(session)
  /\ scanned' = scanned + 1
  /\ count' = [count EXCEPT !.bucketGaps = @ + IF scanned \in Following THEN Gap(scanned) ELSE 0]
  /\ UNCHANGED << session, lines, at, lastTs, damage, prev, cutoff, dirty, verdict >>

StartFiles ==
  /\ at = 0 /\ scanned = Len(session)
  /\ at' = 1
  /\ UNCHANGED << session, scanned, lines, lastTs, damage, prev, count, cutoff, dirty, verdict >>

-----------------------------------------------------------------------------
(* Reading a file.                                                         *)

File  == session[at]
Reading == at \in DOMAIN session /\ verdict = ""
ResetFile == lastTs' = None /\ damage' = NoDamage

(* The places of the lines that were read.                                 *)
Places == UNION {{<< f, n >> : n \in DOMAIN lines[f]} : f \in DOMAIN session}

Appended(l) == lines' = [lines EXCEPT ![at] = Append(@, l)]

If(b) == IF b THEN 1 ELSE 0

(* Mutant: an id may be seen again.                                        *)
BreaksUnlessRepeated(stream, before, l) ==
  /\ before # None
  /\ \/ stream = "depth" /\ l.lo # before + 1
     \/ stream \in {"bookTicker", "market_trades", "market"} /\ l.lo < before

(* What of the stream's numbers breaks at line l.                          *)
Breaks(stream, before, l) ==
  /\ before # None
  /\ \/ stream = "depth" /\ l.lo # before + 1
     \/ stream \in {"bookTicker", "market_trades"} /\ l.lo <= before
     \/ stream = "market" /\ l.lo < before

(* The state of the stream a line is checked against: a snapshot clears    *)
(* that of its own stream.                                                 *)
Before(stream, l) == IF l.base THEN None ELSE prev[stream]

After(stream, before, l) ==
  IF stream \in {"depth_snapshot", "trade"} THEN None
  ELSE IF stream = "market" /\ Breaks(stream, before, l) THEN before ELSE l.hi

Misordered(l) == lastTs # None /\ l.ts < lastTs

(* venue_dirty and last_clean_ns_by_venue.                                 *)
Clean(l) ==
  /\ cutoff' = [cutoff EXCEPT ![File.venue] =
                  IF File.venue \notin dirty /\ l.ts > @ THEN l.ts ELSE @]
  /\ UNCHANGED dirty
Soiled == dirty' = dirty \cup {File.venue} /\ UNCHANGED cutoff

Seen == [damage EXCEPT !.after = @ \/ damage.last, !.last = FALSE]

ReadBroken ==
  /\ Reading /\ Cardinality(Places) < MaxLines
  /\ Appended(Broken)
  /\ damage' = [damage EXCEPT !.had = TRUE, !.last = TRUE]
  /\ Soiled
  /\ UNCHANGED << session, scanned, at, lastTs, prev, count, verdict >>

(* Mutant: a line that does not decode does not soil its venue.            *)
ReadUndecodableAsClean ==
  /\ Reading /\ Cardinality(Places) < MaxLines
  /\ \E l \in Undecodable :
       /\ Appended(l)
       /\ count' = [count EXCEPT !.tsViolations = @ + If(Misordered(l)),
                                 !.decodeErrors = @ + 1]
       /\ damage' = Seen
       /\ lastTs' = l.ts
       /\ Clean(l)
       /\ UNCHANGED << session, scanned, at, prev, verdict >>

ReadUndecodable ==
  /\ Reading /\ Cardinality(Places) < MaxLines
  /\ \E l \in Undecodable :
       /\ Appended(l)
       /\ count' = [count EXCEPT !.tsViolations = @ + If(Misordered(l)),
                                 !.decodeErrors = @ + 1]
       /\ damage' = Seen
       /\ lastTs' = l.ts
       /\ Soiled
       /\ UNCHANGED << session, scanned, at, prev, verdict >>

(* A break of the depth chain is counted and does not soil the venue.      *)
ReadEvent ==
  /\ Reading /\ Cardinality(Places) < MaxLines
  /\ \E l \in EventsOf(File.stream) :
       LET before == Before(File.stream, l)
           breaks == Breaks(File.stream, before, l)
       IN
       /\ Appended(l)
       /\ count' = [count EXCEPT
            !.tsViolations = @ + If(Misordered(l)),
            !.snapshots    = @ + If(File.stream = "depth_snapshot"),
            !.chainBreaks  = @ + If(breaks /\ File.stream = "depth"),
            !.idBreaks     = @ + If(breaks /\ File.stream # "depth")]
       /\ prev' = [prev EXCEPT ![File.stream] = After(File.stream, before, l)]
       /\ damage' = Seen
       /\ lastTs' = l.ts
       /\ IF Misordered(l) \/ (breaks /\ File.stream # "depth") THEN Soiled ELSE Clean(l)
       /\ UNCHANGED << session, scanned, at, verdict >>

(* A file that cannot be opened or read on ends the check: `check_session` *)
(* returns the error and there is no report.                               *)
ReadFails ==
  /\ Reading
  /\ verdict' = "error"
  /\ UNCHANGED << session, scanned, lines, at, lastTs, damage, prev, count, cutoff, dirty >>

(* Mutant: damage counts as damage inside only when the last line is good. *)
CloseFileByLastLine ==
  /\ Reading
  /\ count' = [count EXCEPT
       !.interspersed  = @ + If(damage.had /\ damage.after /\ ~damage.last),
       !.tailTruncated = @ + If(damage.had /\ damage.last)]
  /\ at' = at + 1
  /\ ResetFile
  /\ UNCHANGED << session, scanned, lines, prev, cutoff, dirty, verdict >>

(* The end of a file, an empty one too: what its broken lines amount to.   *)
CloseFile ==
  /\ Reading
  /\ count' = [count EXCEPT
       !.interspersed  = @ + If(damage.had /\ damage.after),
       !.tailTruncated = @ + If(damage.had /\ ~damage.after /\ damage.last)]
  /\ at' = at + 1
  /\ ResetFile
  /\ UNCHANGED << session, scanned, lines, prev, cutoff, dirty, verdict >>

-----------------------------------------------------------------------------
(* The verdict.                                                            *)

ChainBreaksUnexplained == Saturating(count.chainBreaks - count.snapshots)

Suspect ==
  \/ ChainBreaksUnexplained > 0
  \/ count.idBreaks > 0 \/ count.tsViolations > 0 \/ count.decodeErrors > 0

Verdict ==
  /\ at = Len(session) + 1 /\ verdict = ""
  /\ verdict' = IF count.interspersed > 0 THEN "FAIL"
                ELSE IF Suspect \/ count.tailTruncated > 0 THEN "WARN" ELSE "PASS"
  /\ UNCHANGED << session, scanned, lines, at, lastTs, damage, prev, count, cutoff, dirty >>

Next ==
  \/ PreScan \/ StartFiles \/ ReadBroken \/ ReadUndecodable \/ ReadEvent
  \/ ReadFails \/ CloseFile \/ Verdict

Spec == Init /\ [][Next]_vars

-----------------------------------------------------------------------------
(* What was read, without the state of the scan.                           *)

LineAt(p) == lines[p[1]][p[2]]
StreamAt(p) == session[p[1]].stream
VenueAt(p) == session[p[1]].venue
Precedes(p, q) == p[1] < q[1] \/ (p[1] = q[1] /\ p[2] < q[2])
Whole == {p \in Places : LineAt(p).kind # "broken"}
EventPlaces == {p \in Places : LineAt(p).kind = "event"}

(* The events of the stream of q before q, back to its last snapshot.      *)
Since(q) ==
  {p \in EventPlaces :
     /\ StreamAt(p) = StreamAt(q) /\ Precedes(p, q) /\ ~LineAt(q).base
     /\ \A r \in EventPlaces :
          StreamAt(r) = StreamAt(q) /\ Precedes(p, r) /\ Precedes(r, q) => ~LineAt(r).base}

FilesInTimeOrder ==
  \A p, q \in Whole : p[1] = q[1] /\ p[2] < q[2] => LineAt(p).ts <= LineAt(q).ts

IdsInOrder ==
  \A q \in EventPlaces : \A p \in Since(q) :
    /\ StreamAt(q) \in {"bookTicker", "market_trades"} => LineAt(p).hi < LineAt(q).lo
    /\ StreamAt(q) = "market" => LineAt(p).lo <= LineAt(q).lo

(* Diffs that do not go on where the diff before them ended.               *)
Holes ==
  {q \in EventPlaces :
     /\ StreamAt(q) = "depth"
     /\ \E p \in Since(q) :
          /\ \A r \in Since(q) : ~Precedes(p, r)
          /\ LineAt(p).hi + 1 # LineAt(q).lo}

DamagedInside ==
  \E p, q \in Places : p[1] = q[1] /\ p[2] < q[2] /\ LineAt(p) = Broken /\ LineAt(q) # Broken

TypeOK ==
  /\ session \in Sessions
  /\ scanned \in 0 .. Len(session)
  /\ DOMAIN lines = DOMAIN session
  /\ \A f \in DOMAIN session : lines[f] \in Seq(LinesOf(session[f].stream))
  /\ at \in 0 .. Len(session) + 1
  /\ lastTs \in Ts \cup {None}
  /\ damage \in [had : BOOLEAN, last : BOOLEAN, after : BOOLEAN]
  /\ prev \in [Streams -> Id \cup {None}]
  /\ count \in [Counters -> Nat]
  /\ cutoff \in [Venues -> Ts \cup {None}]
  /\ dirty \in SUBSET Venues
  /\ verdict \in {"", "PASS", "WARN", "FAIL", "error"}

(* A session that passes can be replayed: no line is broken, every file is *)
(* in time-stamp order (what the merge relies on), ids go up across all    *)
(* the buckets of a stream, and the depth chain has no more holes than     *)
(* there are snapshots to start from.  Said of all pairs of lines, where   *)
(* the code remembers only the last one, and its stream's last number.     *)
PassMeansReplayable ==
  verdict = "PASS" =>
    /\ \A p \in Places : LineAt(p).kind = "event"
    /\ FilesInTimeOrder
    /\ IdsInOrder
    /\ Cardinality(Holes) <= Cardinality({p \in Places : StreamAt(p) = "depth_snapshot"})

(* FAIL is said exactly of the sessions with a file that has a broken line *)
(* and a line that parses behind it, whatever else is in the session.      *)
FailMeansDamageInside == verdict \in {"PASS", "WARN", "FAIL"} => (verdict = "FAIL" <=> DamagedInside)

(* What soils a venue, said of the lines alone.                            *)
Issue(q) ==
  \/ LineAt(q).kind # "event"
  \/ \E p \in Whole : p[1] = q[1] /\ p[2] < q[2] /\ LineAt(p).ts > LineAt(q).ts
  \/ /\ StreamAt(q) \in {"bookTicker", "market_trades", "market"}
     /\ \E p \in Since(q) : IF StreamAt(q) = "market" THEN LineAt(p).lo > LineAt(q).lo
                            ELSE LineAt(p).hi >= LineAt(q).lo

(* The cutoff of a venue is the latest stamp in front of its first issue,  *)
(* in the order of the scan; a venue without an issue is not cut at all.   *)
CutoffOfTheCleanPart ==
  \A v \in Venues :
    LET clean == {q \in Places : /\ VenueAt(q) = v
                                 /\ \A p \in Places : VenueAt(p) = v /\ ~Precedes(q, p) => ~Issue(p)}
    IN cutoff[v] = IF clean = {} THEN None ELSE Max({LineAt(q).ts : q \in clean})

BucketsOf(stream) ==
  {session[f].bucket : f \in {g \in DOMAIN session : session[g].stream = stream}}

(* The buckets from one file to another of its stream, without a file.     *)
MissingBetween(f, g) ==
  IF session[f].stream # session[g].stream THEN {}
  ELSE {<< session[f].stream, b >> :
          b \in (session[f].bucket .. session[g].bucket) \ BucketsOf(session[f].stream)}

(* The buckets counted as missing are those between the first and the last *)
(* of a stream that have no file, plain or compressed.                     *)
GapsAreMissingBuckets ==
  at > 0 => count.bucketGaps =
    Cardinality(UNION {MissingBetween(f, g) : f, g \in DOMAIN session})

(* integrity.rs:70-72, "Last clean event timestamp per venue [...] Clean = *)
(* before any structural or sequence issue surfaced for that venue. Use as *)
(* a safe upper bound for replay/analysis": in a session whose files are   *)
(* each in time-stamp order, no issue of the venue is earlier than its     *)
(* cutoff.                                                                 *)
CutoffIsSafe ==
  verdict \in {"PASS", "WARN", "FAIL"} /\ FilesInTimeOrder =>
    \A q \in Whole : LineAt(q).ts < cutoff[VenueAt(q)] => ~Issue(q)
=============================================================================
