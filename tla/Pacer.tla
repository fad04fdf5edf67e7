------------------------------- MODULE Pacer -------------------------------
(***************************************************************************)
(* The library's `Pacer` (crates/replayer/src/pacer.rs) around a           *)
(* `MergedReader`: each event's time stamp is shifted by the offset of its *)
(* venue, and in realtime mode the event is held back until the wall clock *)
(* has advanced as far from the first event as its stamp has, divided by   *)
(* the speed.  Errors go through at once.                                  *)
(*                                                                         *)
(* Every file is of a venue of its own.  Speed 0 stands for max-speed; the *)
(* other speeds are whole multiples.  A speed of 0 or less is outside the  *)
(* model: the code raises it to the smallest positive float and sleeps for *)
(* centuries.                                                              *)
(***************************************************************************)
EXTENDS Merge, Integers

CONSTANTS
  MaxSpeed,   \* bound: the fastest realtime speed
  MaxOffset,  \* bound: the largest latency offset, either way
  MaxWall     \* bound: how far time passes outside the pacer's own sleeps

ASSUME PacerAssumption ==
  MaxSpeed \in Nat /\ MaxOffset \in Nat /\ MaxWall \in Nat

VARIABLES
  speed,   \* PaceMode: 0 is MaxSpeed, otherwise Realtime { speed }
  offset,  \* the latency offset of each file's venue, 0 where none is set
  wall,    \* the wall clock
  anchor,  \* the first event released in realtime mode, and when
  paced    \* what next() has returned, and when

pacerVars == << speed, offset, wall, anchor, paced >>

NoAnchor == [set |-> FALSE, wall |-> 0, ts |-> 0]

PacerInit ==
  /\ speed \in 0 .. MaxSpeed
  /\ offset \in [File -> -MaxOffset .. MaxOffset]
  /\ wall = 0
  /\ anchor = NoAnchor
  /\ paced = << >>

Later(a, b) == IF a < b THEN b ELSE a

(* Mutant: the offset is subtracted.                                       *)
ShiftedBack(e) == Later(0, e.ts - offset[e.file])

(* shift_ts: never below zero.                                             *)
Shifted(e) == Later(0, e.ts + offset[e.file])

(* pace_to: the earliest moment an event of this stamp may be released.    *)
Release(ts) == anchor.wall + Later(0, ts - anchor.ts) \div speed

-----------------------------------------------------------------------------
(* next() asks the merge for an item only when it has returned the last.   *)
Starved == Len(paced) = Len(out)
Item    == out[Len(paced) + 1]

Returned(ts, at) ==
  [ok |-> Item.ok, ts |-> ts, file |-> Item.file, line |-> Item.line, at |-> at]

(* An error is passed on without a look at the clock.                      *)
PassError ==
  /\ ~Starved /\ ~Item.ok
  /\ paced' = Append(paced, Returned(0, wall))
  /\ UNCHANGED << speed, offset, wall, anchor >>

PassEvent ==
  /\ ~Starved /\ Item.ok
  /\ speed = 0
  /\ paced' = Append(paced, Returned(Shifted(Item), wall))
  /\ UNCHANGED << speed, offset, wall, anchor >>

(* The first event in realtime mode is released at once and is the anchor. *)
SetAnchor ==
  /\ ~Starved /\ Item.ok
  /\ speed > 0 /\ ~anchor.set
  /\ anchor' = [set |-> TRUE, wall |-> wall, ts |-> Shifted(Item)]
  /\ paced' = Append(paced, Returned(Shifted(Item), wall))
  /\ UNCHANGED << speed, offset, wall >>

(* Mutant: each event is the anchor of the next, from before its sleep.    *)
HoldBackFromLast ==
  /\ ~Starved /\ Item.ok
  /\ speed > 0 /\ anchor.set
  /\ anchor' = [set |-> TRUE, wall |-> wall, ts |-> Shifted(Item)]
  /\ wall' = Later(wall, Release(Shifted(Item)))
  /\ paced' = Append(paced, Returned(Shifted(Item), wall'))
  /\ UNCHANGED << speed, offset >>

(* Any later one after a sleep, if it is early.                            *)
HoldBack ==
  /\ ~Starved /\ Item.ok
  /\ speed > 0 /\ anchor.set
  /\ wall' = Later(wall, Release(Shifted(Item)))
  /\ paced' = Append(paced, Returned(Shifted(Item), wall'))
  /\ UNCHANGED << speed, offset, anchor >>

Pace == PassError \/ PassEvent \/ SetAnchor \/ HoldBack

(* Time passes while the caller or the disk is busy.                       *)
TimePasses ==
  /\ speed > 0
  /\ wall < MaxWall
  /\ wall' = wall + 1
  /\ UNCHANGED << speed, offset, anchor, paced >>

-----------------------------------------------------------------------------
(* Properties                                                              *)

PacedType ==
  /\ speed \in 0 .. MaxSpeed
  /\ offset \in [File -> -MaxOffset .. MaxOffset]
  /\ wall \in Nat
  /\ anchor \in [set : BOOLEAN, wall : Nat, ts : Nat]
  /\ paced \in Seq([ok : BOOLEAN, ts : Nat, file : File, line : Nat, at : Nat])

(* Realtime is "no faster than": an event is never released earlier after  *)
(* the first event than the recording, played at that speed, had it; late  *)
(* events, errors in between and stamps below the anchor's included.       *)
NeverEarly ==
  speed > 0 => \A i, j \in DOMAIN paced :
    /\ i < j /\ paced[i].ok /\ paced[j].ok
    /\ \A k \in 1 .. i - 1 : ~paced[k].ok
    => (paced[j].at - paced[i].at) * speed + speed > paced[j].ts - paced[i].ts

(* Shifted stamps may run backwards, but by no more than two venues'       *)
(* offsets differ, and never within one file, except for an event whose    *)
(* own file goes back.                                                     *)
GlitchWithinBudget ==
  \A i, j \in DOMAIN paced :
    /\ i < j /\ paced[i].ok /\ paced[j].ok
    /\ ~WentBack(paced[j].file, paced[j].line)
    =>
    LET budget == offset[paced[i].file] - offset[paced[j].file]
    IN  paced[i].ts - paced[j].ts <= Later(0, budget)
=============================================================================
