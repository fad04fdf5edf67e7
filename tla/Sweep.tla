------------------------------- MODULE Sweep -------------------------------
(***************************************************************************)
(* The resolution sweeper (apps/recorder/src/sweep.rs) and the check of    *)
(* what it wrote, `replayer validate-resolutions`.  The sweeper asks Gamma *)
(* for the newest closed markets, appends one record per market it has not *)
(* seen to the session's _resolutions.ndjson, sleeps and starts again; its *)
(* memory of what it has seen is that of the process, and the sidecar that *)
(* of the session, which no later process appends to.                      *)
(*                                                                         *)
(* The sidecar is a sequence of pieces, what one append left of a record:  *)
(* all of it with its newline; all of it but the newline ("body"); a part  *)
(* that ends between two characters or within one ("char").  A line is     *)
(* what lies between two newlines, so a piece without one is glued to the  *)
(* piece behind it.                                                        *)
(***************************************************************************)
EXTENDS Naturals, Sequences, FiniteSets, Functions

CONSTANTS
  Market,     \* the conditionIds of the configured series
  PageLimit,  \* how many closed events a query returns (500)
  MaxFaults   \* bound: appends that fail, whole or in part

ASSUME SweepAssumption ==
  IsFiniteSet(Market) /\ PageLimit \in Nat /\ MaxFaults \in Nat

VARIABLES
  shape,    \* what Gamma's event of each market looks like
  closed,   \* Gamma: the closed markets, the newest first
  settled,  \* Gamma: those whose outcomePrices name a winner
  seen,     \* the markets whose append returned Ok
  todo,     \* the fetched events that are still to be looked at
  pc,       \* "asleep" or "sweeping", or "dead"
  sidecar,  \* the pieces of _resolutions.ndjson
  faults,   \* appends that failed
  torn      \* those of them that left something in the sidecar

vars == << shape, closed, settled, seen, todo, pc, sidecar, faults, torn >>

(* "good": decisive once settled.  "padded": the price is "1" after        *)
(* trimming only, which Gamma's mapping does and the record's does not.    *)
(* "malformed": of another series, without markets, or not mappable.       *)
Shapes == {"good", "padded", "malformed"}

Init ==
  /\ shape \in [Market -> Shapes]
  /\ closed = << >> /\ settled = {}
  /\ seen = {} /\ todo = << >> /\ pc = "asleep"
  /\ sidecar = << >> /\ faults = 0 /\ torn = 0

FirstOf(s, n) == IF Len(s) <= n THEN s ELSE SubSeq(s, 1, n)

-----------------------------------------------------------------------------
(* Gamma.                                                                  *)

CloseMarket(m) ==
  /\ m \notin Range(closed)
  /\ closed' = << m >> \o closed
  /\ UNCHANGED << shape, settled, seen, todo, pc, sidecar, faults, torn >>

Settle(m) ==
  /\ m \in Range(closed) \ settled
  /\ settled' = settled \union {m}
  /\ UNCHANGED << shape, closed, seen, todo, pc, sidecar, faults, torn >>

Page == FirstOf(closed, PageLimit)

(* Mutant: a market without a winner yet is kept.                          *)
Mapped(m) == shape[m] # "malformed"

(* What fetch_resolved_events keeps of the page.                           *)
Resolved(m) == m \in settled /\ shape[m] # "malformed"

-----------------------------------------------------------------------------
(* The sweeper.  A query that fails changes nothing: the loop sleeps and   *)
(* asks again.                                                             *)
Fetch ==
  /\ pc = "asleep"
  /\ todo' = SelectSeq(Page, Resolved)
  /\ pc' = "sweeping"
  /\ UNCHANGED << shape, closed, settled, seen, sidecar, faults, torn >>

At(m) == pc = "sweeping" /\ todo # << >> /\ m = Head(todo)

(* Already recorded.                                                       *)
Skip(m) ==
  /\ At(m) /\ m \in seen
  /\ todo' = Tail(todo)
  /\ UNCHANGED << shape, closed, settled, seen, pc, sidecar, faults, torn >>

(* Mutant: the sweep ends there.                                           *)
BuildFailsBreaks(m) ==
  /\ At(m) /\ m \notin seen /\ shape[m] = "padded"
  /\ todo' = << >>
  /\ UNCHANGED << shape, closed, settled, seen, pc, sidecar, faults, torn >>

(* build_resolution_record finds no decisive winner; the market is not     *)
(* seen and is tried again by every later sweep.                           *)
BuildFails(m) ==
  /\ At(m) /\ m \notin seen /\ shape[m] = "padded"
  /\ todo' = Tail(todo)
  /\ UNCHANGED << shape, closed, settled, seen, pc, sidecar, faults, torn >>

ToAppend(m) == At(m) /\ m \notin seen /\ shape[m] = "good"

Piece(m, kind) == [market |-> m, kind |-> kind]

(* Mutant: the market is never remembered.                                 *)
AppendForgets(m) ==
  /\ ToAppend(m)
  /\ sidecar' = Append(sidecar, Piece(m, "whole"))
  /\ todo' = Tail(todo)
  /\ UNCHANGED << shape, closed, settled, seen, pc, faults, torn >>

AppendResolution(m) ==
  /\ ToAppend(m)
  /\ sidecar' = Append(sidecar, Piece(m, "whole"))
  /\ seen' = seen \union {m}
  /\ todo' = Tail(todo)
  /\ UNCHANGED << shape, closed, settled, pc, faults, torn >>

(* Mutant: the market is remembered before it is written.                  *)
AppendFailsSeen(m) ==
  /\ ToAppend(m) /\ faults < MaxFaults
  /\ seen' = seen \union {m}
  /\ todo' = Tail(todo)
  /\ faults' = faults + 1
  /\ UNCHANGED << shape, closed, settled, pc, sidecar, torn >>

(* The file cannot be opened, or nothing of the record can be written.     *)
AppendFails(m) ==
  /\ ToAppend(m) /\ faults < MaxFaults
  /\ todo' = Tail(todo)
  /\ faults' = faults + 1
  /\ UNCHANGED << shape, closed, settled, seen, pc, sidecar, torn >>

Cut == {"part", "char", "body"}

(* write_all fails when some of the record is in the file.                 *)
AppendTears(m, kind) ==
  /\ ToAppend(m) /\ faults < MaxFaults
  /\ sidecar' = Append(sidecar, Piece(m, kind))
  /\ todo' = Tail(todo)
  /\ faults' = faults + 1
  /\ torn' = torn + 1
  /\ UNCHANGED << shape, closed, settled, seen, pc >>

Sleep ==
  /\ pc = "sweeping" /\ todo = << >>
  /\ pc' = "asleep"
  /\ UNCHANGED << shape, closed, settled, seen, todo, sidecar, faults, torn >>

(* The process ends anywhere, also in the middle of a write.               *)
Die ==
  /\ pc # "dead"
  /\ pc' = "dead"
  /\ \/ UNCHANGED << sidecar, torn >>
     \/ \E m \in Market, kind \in Cut :
          /\ ToAppend(m)
          /\ sidecar' = Append(sidecar, Piece(m, kind))
          /\ torn' = torn + 1
  /\ UNCHANGED << shape, closed, settled, seen, todo, faults >>

Progress ==
  \/ Fetch \/ Sleep
  \/ \E m \in Market : Skip(m) \/ BuildFails(m) \/ AppendResolution(m)

Next ==
  \/ Progress
  \/ \E m \in Market :
       \/ CloseMarket(m) \/ Settle(m)
       \/ AppendFails(m) \/ \E kind \in Cut : AppendTears(m, kind)
  \/ Die
  \/ pc = "dead" /\ UNCHANGED vars

(* The loop runs as long as the process does, and Gamma answers from time  *)
(* to time.                                                                *)
Spec == Init /\ [][Next]_vars /\ WF_vars(Progress)

-----------------------------------------------------------------------------
(* validate_session_resolutions: the sidecar read line by line.  `lines()` *)
(* fails on a line that is not UTF-8, and the check reads no further.      *)
Ends(i)  == sidecar[i].kind = "whole" \/ i = Len(sidecar)
Begins(i) == i = 1 \/ sidecar[i - 1].kind = "whole"

Line == {l \in (DOMAIN sidecar) \X (DOMAIN sidecar) :
           /\ l[1] <= l[2] /\ Begins(l[1]) /\ Ends(l[2])
           /\ \A i \in l[1] .. l[2] - 1 : ~Ends(i)}

Utf8(l)   == \A i \in l[1] .. l[2] : sidecar[i].kind # "char"
Parses(l) == l[1] = l[2] /\ sidecar[l[1]].kind \in {"whole", "body"}
Reads(l)  == \A k \in Line : k[2] < l[1] => Utf8(k)

ParseErrors   == {l \in Line : Reads(l) /\ ~Parses(l)}
ParsedRecords == {l \in Line : Reads(l) /\ Parses(l)}

(* An absent sidecar is an empty one here; both are a WARN, and so is one  *)
(* that legacy per-market files stand beside.                              *)
Verdict ==
  CASE ParseErrors # {}   -> "FAIL"
    [] ParseErrors = {} /\ ParsedRecords = {} -> "WARN"
    [] OTHER              -> "PASS"

-----------------------------------------------------------------------------
(* Properties                                                              *)

(* Types, and that only settled markets are looked at and recorded.        *)
TypeOK ==
  /\ shape \in [Market -> Shapes]
  /\ closed \in Seq(Market) /\ settled \subseteq Range(closed)
  /\ seen \subseteq settled
  /\ todo \in Seq(Market) /\ Range(todo) \subseteq settled
  /\ pc \in {"asleep", "sweeping", "dead"}
  /\ sidecar \in Seq([market : Market, kind : Cut \union {"whole"}])
  /\ torn \in Nat /\ faults \in 0 .. MaxFaults

RecordsOf(m) == {l \in Line : Parses(l) /\ sidecar[l[1]].market = m}
Lost == {m \in seen : RecordsOf(m) = {}}

(* A record that was appended and cannot be read shows: the check fails    *)
(* the session.  Every such loss has a torn append of its own.             *)
LossSurfaces ==
  /\ Lost # {} => Verdict = "FAIL"
  /\ Cardinality(Lost) <= torn

(* No market is recorded twice, however often a sweep finds or retries it. *)
RecordedOnce == \A m \in Market : Cardinality(RecordsOf(m)) <= 1

Listed(m) ==
  pc # "dead" /\ m \in Range(Page) /\ m \in settled /\ shape[m] = "good"

(* A settled market that stays among the newest closed ones is recorded,   *)
(* whatever fails for a while.                                             *)
RecordedWhileListed ==
  \A m \in Market : <>[]Listed(m) => <>(m \in seen)
=============================================================================
