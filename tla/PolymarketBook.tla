--------------------------- MODULE PolymarketBook ---------------------------
(***************************************************************************)
(* The two-sided book of one Polymarket market, rebuilt from its records   *)
(* (crates/replayer/src/book/polymarket.rs), with the venue, the           *)
(* connection and the recording that the records come from.                *)
(*                                                                         *)
(* The venue numbers nothing: a `book` message is the whole book of one    *)
(* asset, a `price_change` sets levels of both assets, and each carries a  *)
(* time stamp in milliseconds that others may share.  A `book` is taken    *)
(* when the asset is subscribed to and may be sent behind later changes.   *)
(* Records of a market are in one file, in the order of the wire.          *)
(*                                                                         *)
(* Every message has a time stamp here; what happens without one, the      *)
(* `_ => true` of replay_pending, is left out.                             *)
(***************************************************************************)
EXTENDS Integers, Sequences, FiniteSets, FiniteSetsExt

CONSTANTS
  Asset,        \* the tokens of the market's outcomes
  Level,        \* a price of the bid or of the ask side
  MaxSize,      \* bound: the largest size of a level
  MaxUpdates,   \* bound: updates the venue makes
  MaxMs,        \* bound: the last time stamp
  MaxConnects,  \* bound: connections
  MaxFaults,    \* bound: messages that fail to be written
  MaxBuffer     \* MAX_BUFFER: 100

ASSUME PolymarketBookAssumption ==
  /\ MaxSize \in Nat /\ MaxUpdates \in Nat /\ MaxMs \in Nat
  /\ MaxConnects \in Nat /\ MaxFaults \in Nat /\ MaxBuffer \in Nat \ {0}

VARIABLES
  updates,   \* what the venue has done: [asset, level, size, ms]
  ms,        \* the venue's clock
  up,        \* whether a connection is up
  streamed,  \* the last update sent, or covered by what was taken
  pending,   \* `book` messages taken for this connection and not sent yet
  wire,      \* messages sent and not read yet
  recorded,  \* updates in recorded price_changes
  book,      \* PolymarketSideBook: bids and asks, size 0 is absent
  snapMs,    \* last_snapshot_ts_ms, or None before has_snapshot
  buffer,    \* yes_pending, no_pending: [ms, update]
  holds,     \* updates of the asset the book has taken in
  resets,    \* snapshots applied
  left       \* what is left of the bounds

venueVars == << updates, ms, streamed, pending >>
bookVars == << book, snapMs, buffer, holds, resets >>
vars == << venueVars, up, wire, recorded, bookVars, left >>

None == -1
LastUpdate == Len(updates)

Of(a, n) == {k \in 1 .. n : updates[k].asset = a}
BookAt(a, n) ==
  [l \in Level |->
     LET touching == {k \in Of(a, n) : updates[k].level = l}
     IN  IF touching = {} THEN 0 ELSE updates[Max(touching)].size]

Init ==
  /\ updates = << >> /\ ms = 0
  /\ up = FALSE
  /\ streamed = 0
  /\ pending = {}
  /\ wire = << >>
  /\ recorded = {}
  /\ book = [a \in Asset |-> [l \in Level |-> 0]]
  /\ snapMs = [a \in Asset |-> None]
  /\ buffer = [a \in Asset |-> << >>]
  /\ holds = [a \in Asset |-> {}]
  /\ resets = [a \in Asset |-> 0]
  /\ left = [connects |-> MaxConnects, faults |-> MaxFaults]

-----------------------------------------------------------------------------
(* The venue and the wire                                                  *)

Update ==
  /\ LastUpdate < MaxUpdates
  /\ \E a \in Asset, l \in Level, q \in 0 .. MaxSize :
       updates' = Append(updates, [asset |-> a, level |-> l, size |-> q, ms |-> ms])
  /\ UNCHANGED << ms, streamed, pending, up, wire, recorded, bookVars, left >>

TickMs ==
  /\ ms < MaxMs
  /\ ms' = ms + 1
  /\ UNCHANGED << updates, streamed, pending, up, wire, recorded, bookVars, left >>

(* The venue serves the subscription: it takes the book of every asset.    *)
Connect ==
  /\ ~up
  /\ left.connects > 0
  /\ left' = [left EXCEPT !.connects = @ - 1]
  /\ up' = TRUE
  /\ streamed' = LastUpdate
  /\ pending' = {[kind |-> "book", asset |-> a, at |-> LastUpdate, ms |-> ms] : a \in Asset}
  /\ UNCHANGED << updates, ms, wire, recorded, bookVars >>

SendBook ==
  /\ up
  /\ \E b \in pending :
       /\ wire' = Append(wire, b)
       /\ pending' = pending \ {b}
  /\ UNCHANGED << updates, ms, streamed, up, recorded, bookVars, left >>

(* One price_change for all updates since the one before, of both assets.  *)
SendChange ==
  /\ up
  /\ streamed < LastUpdate
  /\ wire' = Append(wire, [kind |-> "change", first |-> streamed + 1,
                           final |-> LastUpdate, ms |-> updates[LastUpdate].ms])
  /\ streamed' = LastUpdate
  /\ UNCHANGED << updates, ms, pending, up, recorded, bookVars, left >>

Disconnect ==
  /\ up
  /\ up' = FALSE
  /\ wire' = << >> /\ pending' = {}
  /\ UNCHANGED << updates, ms, streamed, recorded, bookVars, left >>

(* A message that the store refuses is counted and gone.                   *)
RecordFails ==
  /\ wire # << >>
  /\ left.faults > 0
  /\ left' = [left EXCEPT !.faults = @ - 1]
  /\ wire' = Tail(wire)
  /\ UNCHANGED << venueVars, up, recorded, bookVars >>

-----------------------------------------------------------------------------
(* PolymarketMarketBook                                                    *)

(* apply_price_change_item of one item after the other: the last that sets *)
(* a level remains.                                                        *)
ApplyItems(side, items) ==
  [l \in Level |->
     LET setting == {i \in DOMAIN items : updates[items[i].update].level = l}
     IN  IF setting = {} THEN side[l] ELSE updates[items[Max(setting)].update].size]

(* The numbers of a set, in their order.                                   *)
InOrder(S) ==
  [n \in 1 .. Cardinality(S) |-> CHOOSE k \in S : Cardinality({j \in S : j < k}) = n - 1]

(* replay_pending: what the snapshot does not cover, in the order it came. *)
After(items, t) ==
  LET at == InOrder({i \in DOMAIN items : items[i].ms > t})
  IN  [n \in DOMAIN at |-> items[at[n]]]

UpdatesIn(items) == {items[i].update : i \in DOMAIN items}

(* Mutants: a change of the snapshot's own millisecond is replayed too;    *)
(* the buffer is dropped.                                                  *)
ApplyBookInclusive(b) ==
  LET a == b.asset
      replay == After(buffer[a], b.ms - 1)
  IN  /\ book' = [book EXCEPT ![a] = ApplyItems(BookAt(a, b.at), replay)]
      /\ snapMs' = [snapMs EXCEPT ![a] = b.ms]
      /\ buffer' = [buffer EXCEPT ![a] = << >>]
      /\ holds' = [holds EXCEPT ![a] = Of(a, b.at) \union UpdatesIn(replay)]
      /\ resets' = [resets EXCEPT ![a] = @ + 1]
ApplyBookDiscards(b) ==
  LET a == b.asset
  IN  /\ book' = [book EXCEPT ![a] = BookAt(a, b.at)]
      /\ snapMs' = [snapMs EXCEPT ![a] = b.ms]
      /\ buffer' = [buffer EXCEPT ![a] = << >>]
      /\ holds' = [holds EXCEPT ![a] = Of(a, b.at)]
      /\ resets' = [resets EXCEPT ![a] = @ + 1]

(* apply_book: reset_with_snapshot, then replay_pending.                   *)
ApplyBook(b) ==
  LET a == b.asset
      replay == After(buffer[a], b.ms)
  IN  /\ book' = [book EXCEPT ![a] = ApplyItems(BookAt(a, b.at), replay)]
      /\ snapMs' = [snapMs EXCEPT ![a] = b.ms]
      /\ buffer' = [buffer EXCEPT ![a] = << >>]
      /\ holds' = [holds EXCEPT ![a] = Of(a, b.at) \union UpdatesIn(replay)]
      /\ resets' = [resets EXCEPT ![a] = @ + 1]

ItemsOf(c, a) == {k \in c.first .. c.final : updates[k].asset = a}
Pending(c, a) ==
  LET items == InOrder(ItemsOf(c, a))
  IN  [i \in DOMAIN items |-> [ms |-> c.ms, update |-> items[i]]]

(* A full buffer drops its oldest item for the new one.                    *)
BufferedItems(items) ==
  IF Len(items) > MaxBuffer THEN SubSeq(items, Len(items) - MaxBuffer + 1, Len(items))
  ELSE items

Live(a) == snapMs[a] # None

(* apply_price_change, apply_or_buffer_item: item by item, each to the     *)
(* book of its asset, or to its buffer before the first snapshot.          *)
ApplyChange(c) ==
  /\ book' = [a \in Asset |-> IF Live(a) THEN ApplyItems(book[a], Pending(c, a)) ELSE book[a]]
  /\ holds' = [a \in Asset |-> IF Live(a) THEN holds[a] \union ItemsOf(c, a)
                               ELSE holds[a]]
  /\ buffer' = [a \in Asset |-> IF Live(a) THEN buffer[a]
                                ELSE BufferedItems(buffer[a] \o Pending(c, a))]
  /\ UNCHANGED << snapMs, resets >>

(* A message is recorded, and replayed from the record.                    *)
Read ==
  /\ wire # << >>
  /\ wire' = Tail(wire)
  /\ LET msg == Head(wire)
     IN  \/ /\ msg.kind = "book"
            /\ ApplyBook(msg)
            /\ UNCHANGED recorded
         \/ /\ msg.kind = "change"
            /\ ApplyChange(msg)
            /\ recorded' = recorded \union (msg.first .. msg.final)
  /\ UNCHANGED << venueVars, up, left >>

BoundsSpent ==
  /\ ~up /\ left.connects = 0 /\ LastUpdate = MaxUpdates /\ ms = MaxMs
  /\ UNCHANGED vars

Next ==
  \/ Update \/ TickMs \/ Connect \/ SendBook \/ SendChange \/ Disconnect
  \/ RecordFails \/ Read
  \/ BoundsSpent

Spec == Init /\ [][Next]_vars

-----------------------------------------------------------------------------
(* Properties                                                              *)

Id == 1 .. MaxUpdates

Message ==
  [kind : {"book"}, asset : Asset, at : 0 .. MaxUpdates, ms : 0 .. MaxMs]
    \union [kind : {"change"}, first : Id, final : Id, ms : 0 .. MaxMs]

(* Types; a book is live from its first snapshot on and has no buffer      *)
(* then, and a buffer keeps to its limit.                                  *)
TypeOK ==
  /\ updates \in Seq([asset : Asset, level : Level, size : 0 .. MaxSize, ms : 0 .. MaxMs])
  /\ ms \in 0 .. MaxMs
  /\ up \in BOOLEAN /\ (~up => wire = << >> /\ pending = {})
  /\ streamed \in 0 .. MaxUpdates
  /\ pending \in SUBSET Message
  /\ wire \in Seq(Message)
  /\ recorded \in SUBSET Id
  /\ book \in [Asset -> [Level -> 0 .. MaxSize]]
  /\ snapMs \in [Asset -> {None} \union 0 .. MaxMs]
  /\ buffer \in [Asset -> Seq([ms : 0 .. MaxMs, update : Id])]
  /\ \A a \in Asset : Len(buffer[a]) <= (IF Live(a) THEN 0 ELSE MaxBuffer)
  /\ holds \in [Asset -> SUBSET Id]
  /\ resets \in [Asset -> 0 .. MaxConnects]
  /\ left \in [connects : 0 .. MaxConnects, faults : 0 .. MaxFaults]

Newest(a) == IF holds[a] = {} THEN 0 ELSE Max(holds[a])
Missing(a) == Of(a, Newest(a)) \ holds[a]

(* A live book that has taken in every update up to its newest one is      *)
(* exactly the venue's book after it: nothing is applied over something    *)
(* newer, whatever was buffered, dropped or lost before the snapshot.      *)
BookFaithful ==
  \A a \in Asset : Live(a) /\ Missing(a) = {} => book[a] = BookAt(a, Newest(a))

(* Behind its first snapshot a book misses no recorded update, however     *)
(* late the snapshot was sent: the buffer carries what came before it.     *)
(* The exceptions are updates that the full buffer dropped, and those that *)
(* share the millisecond of the snapshot.                                  *)
FirstSnapshotMissesNothing ==
  \A a \in Asset : resets[a] = 1 => \A k \in Missing(a) \intersect recorded :
    \/ updates[k].ms = snapMs[a]
    \/ Cardinality({j \in Of(a, LastUpdate) \intersect recorded : j > k}) >= MaxBuffer
=============================================================================
