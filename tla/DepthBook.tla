----------------------------- MODULE DepthBook -----------------------------
(***************************************************************************)
(* The Binance depth book, from the venue to the replay: the venue's book  *)
(* and the diffs it sends, the connection that records them and the REST   *)
(* snapshots it asks for (crates/binance_feed/src/conn.rs, snapshot.rs),   *)
(* and the `BinanceBook` a replay of the records has reached               *)
(* (crates/replayer/src/book/binance.rs).                                  *)
(*                                                                         *)
(* The venue numbers its updates 1, 2, ...; an update sets the quantity of *)
(* one level, zero removes it.  A diff [first, final] carries, for every   *)
(* level updated in that range, its quantity after update `final`; a       *)
(* snapshot answers with the best levels of the book after its last        *)
(* update.  Records are replayed in the order they were made, which is     *)
(* what Merge.tla shows of a monotone clock, so the replayed book is kept  *)
(* beside the recording.                                                   *)
(***************************************************************************)
EXTENDS Integers, Sequences, FiniteSets, FiniteSetsExt

CONSTANTS
  NumLevels,    \* price levels of a side, the best first
  Limit,        \* levels of a side in a snapshot (1000)
  MaxQty,       \* bound: the largest quantity of a level
  MaxUpdates,   \* bound: updates the venue makes
  MaxConnects,  \* bound: connections
  MaxTicks,     \* bound: ticks of the 600 s interval; 0: connections are shorter
  MaxFaults     \* bound: diffs lost, records that fail to be written

ASSUME DepthBookAssumption ==
  /\ NumLevels \in Nat /\ Limit \in Nat
  /\ MaxQty \in Nat /\ MaxUpdates \in Nat /\ MaxConnects \in Nat
  /\ MaxTicks \in Nat /\ MaxFaults \in Nat

Level == 1 .. NumLevels
Qty   == 0 .. MaxQty
Id    == 0 .. MaxUpdates
None  == -1

VARIABLES
  venue,     \* the updates the venue has made, [level, qty]
  streamed,  \* the last update the venue has sent on this connection, or None
  wire,      \* diffs sent and not read yet, in order
  conn,      \* "down", "priming" (awaiting the first snapshot), "reading"
  rest,      \* the REST call: "idle", "asked", "answered"
  answer,    \* the last update of the answer while rest = "answered"
  recorded,  \* updates covered by the recorded diffs
  book,      \* BinanceBook: bids and asks, a level of quantity 0 is absent
  last,      \* BinanceBook: last_update_id, or None
  base,      \* history: last_update_id of the snapshot under the book
  outcome,   \* what the last apply returned
  left       \* what is left of the bounds

vars == << venue, streamed, wire, conn, rest, answer, recorded, book, last, base, outcome, left >>

LastId == Len(venue)

(* The venue's book after update n.                                        *)
Touching(l, n) == {k \in 1 .. n : venue[k].level = l}
BookAt(n) == [l \in Level |-> IF Touching(l, n) = {} THEN 0
                              ELSE venue[Max(Touching(l, n))].qty]

(* What a snapshot holds: no more than Limit levels, the best.             *)
Holds(x, l) == Cardinality({k \in 1 .. l - 1 : BookAt(x)[k] > 0}) < Limit
SnapshotAt(x) == [l \in Level |-> IF Holds(x, l) THEN BookAt(x)[l] ELSE 0]

(* What a diff carries.                                                    *)
Carries(d, l) == \E k \in Touching(l, d.final) : d.first <= k

Spend(b) == left[b] > 0 /\ left' = [left EXCEPT ![b] = @ - 1]

NotApplied == [kind |-> "none", expected |-> 0, got |-> 0]

Init ==
  /\ venue = << >>
  /\ streamed = None
  /\ wire = << >>
  /\ conn = "down"
  /\ rest = "idle"
  /\ answer = None
  /\ recorded = {}
  /\ book = [l \in Level |-> 0]
  /\ last = None
  /\ base = None
  /\ outcome = NotApplied
  /\ left = [connects |-> MaxConnects, ticks |-> MaxTicks, faults |-> MaxFaults]

-----------------------------------------------------------------------------
(* BinanceBook                                                             *)

(* Mutant: the levels the snapshot does not hold stay as they are.         *)
ResetKeepsRest(x) ==
  /\ book' = [l \in Level |-> IF Holds(x, l) THEN BookAt(x)[l] ELSE book[l]]
  /\ last' = x
  /\ base' = x
  /\ outcome' = [NotApplied EXCEPT !.kind = "applied"]

(* reset_with_snapshot: both sides are cleared first.                      *)
ResetWithSnapshot(x) ==
  /\ book' = SnapshotAt(x)
  /\ last' = x
  /\ base' = x
  /\ outcome' = [NotApplied EXCEPT !.kind = "applied"]

Stale(d)   == d.final <= last
Gapped(d)  == d.first > last + 1
Spliced(d) == [l \in Level |-> IF Carries(d, l) THEN BookAt(d.final)[l] ELSE book[l]]

(* Mutant: a diff is spliced in whether or not it chains.                  *)
SpliceAnyway(d) ==
  /\ book' = IF last = None \/ Stale(d) THEN book ELSE Spliced(d)
  /\ last' = IF last = None \/ Stale(d) THEN last ELSE d.final
  /\ UNCHANGED base
  /\ outcome' = [NotApplied EXCEPT !.kind = "applied"]

(* Mutant: a diff must start after last + 1.                               *)
GapAtBoundary(d) ==
  IF last = None \/ Stale(d)
  THEN outcome' = [NotApplied EXCEPT !.kind = "skipped"] /\ UNCHANGED << book, last, base >>
  ELSE IF d.first > last
  THEN /\ outcome' = [kind |-> "gap", expected |-> last + 1, got |-> d.first]
       /\ UNCHANGED << book, last, base >>
  ELSE /\ book' = Spliced(d)
       /\ last' = d.final
       /\ UNCHANGED base
       /\ outcome' = [NotApplied EXCEPT !.kind = "applied"]

(* apply_diff                                                              *)
ApplyDiff(d) ==
  \/ /\ last = None \/ Stale(d)
     /\ outcome' = [NotApplied EXCEPT !.kind = "skipped"]
     /\ UNCHANGED << book, last, base >>
  \/ /\ last # None /\ ~Stale(d) /\ Gapped(d)
     /\ outcome' = [kind |-> "gap", expected |-> last + 1, got |-> d.first]
     /\ UNCHANGED << book, last, base >>
  \/ /\ last # None /\ ~Stale(d) /\ ~Gapped(d)
     /\ book' = Spliced(d)
     /\ last' = d.final
     /\ UNCHANGED base
     /\ outcome' = [NotApplied EXCEPT !.kind = "applied"]

BookUnchanged == UNCHANGED << book, last, base, outcome >>

-----------------------------------------------------------------------------
(* The venue                                                               *)

Update ==
  /\ LastId < MaxUpdates
  /\ \E l \in Level, q \in Qty : venue' = Append(venue, [level |-> l, qty |-> q])
  /\ UNCHANGED << streamed, wire, conn, rest, answer, recorded, left >>
  /\ BookUnchanged

(* The venue acts on the SUBSCRIBE, which nobody waits for: diffs start    *)
(* with the next update.                                                   *)
Subscribe ==
  /\ conn # "down" /\ streamed = None
  /\ streamed' = LastId
  /\ UNCHANGED << venue, wire, conn, rest, answer, recorded, left >>
  /\ BookUnchanged

(* Every 100 ms: one diff for all updates since the one before.            *)
SendDiff ==
  /\ streamed # None /\ streamed < LastId
  /\ wire' = Append(wire, [first |-> streamed + 1, final |-> LastId])
  /\ streamed' = LastId
  /\ UNCHANGED << venue, conn, rest, answer, recorded, left >>
  /\ BookUnchanged

(* The venue drops a diff.                                                 *)
SkipDiff ==
  /\ streamed # None /\ streamed < LastId
  /\ Spend("faults")
  /\ streamed' = LastId
  /\ UNCHANGED << venue, wire, conn, rest, answer, recorded >>
  /\ BookUnchanged

Answer ==
  /\ rest = "asked"
  /\ rest' = "answered"
  /\ answer' = LastId
  /\ UNCHANGED << venue, streamed, wire, conn, recorded, left >>
  /\ BookUnchanged

-----------------------------------------------------------------------------
(* The recorder                                                            *)

(* Mutant: the read loop does not wait for the first snapshot.             *)
ConnectAndRead ==
  /\ conn = "down"
  /\ Spend("connects")
  /\ conn' = "reading"
  /\ rest' = "asked"
  /\ UNCHANGED << venue, streamed, wire, answer, recorded >>
  /\ BookUnchanged

(* connect_async, SUBSCRIBE sent, the first snapshot asked for.            *)
Connect ==
  /\ conn = "down"
  /\ Spend("connects")
  /\ conn' = "priming"
  /\ rest' = "asked"
  /\ UNCHANGED << venue, streamed, wire, answer, recorded >>
  /\ BookUnchanged

(* The ticker of run_periodic: it waits while a fetch is under way.        *)
Tick ==
  /\ conn = "reading" /\ rest = "idle"
  /\ Spend("ticks")
  /\ rest' = "asked"
  /\ UNCHANGED << venue, streamed, wire, conn, answer, recorded >>
  /\ BookUnchanged

(* fetch_and_persist has the body: it stamps it and writes it at once.     *)
PersistSnapshot ==
  /\ rest = "answered"
  /\ ResetWithSnapshot(answer)
  /\ rest' = "idle" /\ answer' = None
  /\ conn' = "reading"
  /\ UNCHANGED << venue, streamed, wire, recorded, left >>

(* No answer, an HTTP error, a broken body, a store error: not fatal.      *)
SnapshotFails ==
  /\ rest # "idle"
  /\ Spend("faults")
  /\ rest' = "idle" /\ answer' = None
  /\ conn' = "reading"
  /\ UNCHANGED << venue, streamed, wire, recorded >>
  /\ BookUnchanged

(* The read loop hands a diff to process_text, which records it.           *)
ReadDiff ==
  /\ conn = "reading" /\ wire # << >>
  /\ wire' = Tail(wire)
  /\ recorded' = recorded \union (Head(wire).first .. Head(wire).final)
  /\ ApplyDiff(Head(wire))
  /\ UNCHANGED << venue, streamed, conn, rest, answer, left >>

(* process_text counts a failed write and goes on.                         *)
RecordFails ==
  /\ conn = "reading" /\ wire # << >>
  /\ Spend("faults")
  /\ wire' = Tail(wire)
  /\ UNCHANGED << venue, streamed, conn, rest, answer, recorded >>
  /\ BookUnchanged

(* A close, an error, the idle timeout: the read loop notices, and diffs   *)
(* not read yet are lost.  Dropping AbortOnDrop ends a fetch under way.    *)
Disconnect ==
  /\ conn = "reading"
  /\ conn' = "down"
  /\ streamed' = None /\ wire' = << >>
  /\ rest' = "idle" /\ answer' = None
  /\ UNCHANGED << venue, recorded, left >>
  /\ BookUnchanged

(* Every bound is used up: the only state this model may stop in.          *)
BoundsSpent ==
  /\ conn = "down" /\ left.connects = 0 /\ LastId = MaxUpdates
  /\ UNCHANGED vars

Next ==
  \/ Update \/ Subscribe \/ SendDiff \/ SkipDiff \/ Answer
  \/ Connect \/ Tick \/ PersistSnapshot \/ SnapshotFails
  \/ ReadDiff \/ RecordFails \/ Disconnect
  \/ BoundsSpent

Spec == Init /\ [][Next]_vars

-----------------------------------------------------------------------------
(* Properties                                                              *)

Diff    == [first : 1 .. MaxUpdates, final : 1 .. MaxUpdates]
Outcome == [kind : {"none", "applied", "skipped", "gap"}, expected : Nat, got : Nat]

(* Types, and the shape of a connection: nothing streams while it is down, *)
(* and priming ends with the REST call.                                    *)
TypeOK ==
  /\ venue \in Seq([level : Level, qty : Qty]) /\ Len(venue) <= MaxUpdates
  /\ streamed \in Id \union {None}
  /\ wire \in Seq(Diff)
  /\ conn \in {"down", "priming", "reading"}
  /\ conn = "down" => streamed = None /\ wire = << >>
  /\ rest \in {"idle", "asked", "answered"}
  /\ conn = "priming" => rest # "idle"
  /\ conn = "down" => rest = "idle"
  /\ answer \in Id \union {None} /\ (rest = "answered" <=> answer # None)
  /\ recorded \in SUBSET (1 .. MaxUpdates)
  /\ book \in [Level -> Qty]
  /\ last \in Id \union {None}
  /\ base \in Id \union {None}
  /\ outcome \in Outcome
  /\ left \in [connects : 0 .. MaxConnects, ticks : 0 .. MaxTicks, faults : 0 .. MaxFaults]

(* A live book is the venue's book after update last_update_id, whatever   *)
(* was lost, repeated by an overlap or reset on the way: a book is stale   *)
(* or right, never a mixture.  Missing are at most the levels that lay     *)
(* behind the last one of the snapshot and have not been updated since; a  *)
(* level the book has is always the venue's.                               *)
Beyond(l) == ~Holds(base, l) /\ \A k \in Touching(l, last) : k <= base
BookFaithful ==
  last # None => \A l \in Level :
    book[l] = BookAt(last)[l] \/ (Beyond(l) /\ book[l] = 0)

(* A Gap is reported only when an update really is missing from the        *)
(* records: where the chain is whole the book follows the venue.           *)
GapMeansLoss ==
  outcome.kind = "gap" =>
    \E k \in outcome.expected .. outcome.got - 1 : k \notin recorded

(* That holds until the interval ticks for the first time: neither a       *)
(* reconnect over a gap nor a failed or a late first snapshot makes the    *)
(* book report a loss that did not happen.                                 *)
Ticked == left.ticks < MaxTicks
GapMeansLossUntilTick == ~Ticked => GapMeansLoss
=============================================================================
