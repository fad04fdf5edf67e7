------------------------------- MODULE Merge -------------------------------
(***************************************************************************)
(* The replayer's `MergedReader` (crates/replayer/src/merge.rs) over the   *)
(* `FileReader`s of reader.rs: a heap holds the next wanted event of every *)
(* file, the smallest by (time stamp, file, line) is yielded, and its file *)
(* is read on to refill the heap.                                          *)
(*                                                                         *)
(* A line is an event or it is broken: cut short, glued, unreadable.  The  *)
(* filter is what it decides of each event.  The events of a file are in   *)
(* time-stamp order unless the recorder's clock was stepped back.          *)
(***************************************************************************)
EXTENDS Naturals, Sequences, FiniteSets

CONSTANTS
  NumFiles,   \* how many files are merged
  MaxLines,   \* bound: lines of a file
  MaxTs,      \* bound: the last time stamp
  Damaged     \* whether lines can be broken

ASSUME MergeAssumption ==
  /\ NumFiles \in Nat /\ MaxLines \in Nat /\ MaxTs \in Nat
  /\ Damaged \in BOOLEAN

File == 1 .. NumFiles
Ts   == 0 .. MaxTs

Event  == [ok : {TRUE}, ts : Ts, wanted : BOOLEAN]
Broken == [ok |-> FALSE, ts |-> 0, wanted |-> FALSE]
Line   == Event \union (IF Damaged THEN {Broken} ELSE {})

VARIABLES
  file,    \* the lines of every file, in the order list_files gave the files
  pos,     \* lines read from each file
  heap,    \* one entry at most per file: the event the file offers next
  primed,  \* files read for the first time, while from_files runs
  out,     \* what next() has returned
  phase    \* "opening", "merging", "exhausted", or "refused" by from_files

vars == << file, pos, heap, primed, out, phase >>

Init ==
  /\ file \in [File -> UNION {[1 .. n -> Line] : n \in 0 .. MaxLines}]
  /\ pos = [f \in File |-> 0]
  /\ heap = {}
  /\ primed = 0
  /\ out = << >>
  /\ phase = "opening"

(* Mutant: the file decides before the time stamp.                         *)
LessByFile(a, b) == a.file < b.file \/ (a.file = b.file /\ a.line < b.line)

(* The order of the heap: time stamp, then file, then line.                *)
Less(a, b) ==
  \/ a.ts < b.ts
  \/ a.ts = b.ts /\ a.file < b.file
  \/ a.ts = b.ts /\ a.file = b.file /\ a.line < b.line

(* What `advance` stops at: an event the filter wants, or a broken line.   *)
Stops(f) == {j \in pos[f] + 1 .. Len(file[f]) : ~file[f][j].ok \/ file[f][j].wanted}
AtEnd(f) == Stops(f) = {}
NextLine(f) == CHOOSE j \in Stops(f) : \A k \in Stops(f) : j <= k
Fails(f) == ~AtEnd(f) /\ ~file[f][NextLine(f)].ok

(* How far `advance` reads.  A reader that was dropped at its end and one  *)
(* that stays there read alike, so the position stands for both.           *)
ReadTo(f) == IF AtEnd(f) THEN Len(file[f]) ELSE NextLine(f)

(* What `advance` pushes on the heap.                                      *)
Offered(f) ==
  IF AtEnd(f) THEN {}
  ELSE {[ts |-> file[f][NextLine(f)].ts, file |-> f, line |-> NextLine(f)]}

-----------------------------------------------------------------------------
(* from_files opens every file and reads each up to its first event; one   *)
(* that fails makes it return the error instead of a reader.               *)
Prime ==
  /\ phase = "opening"
  /\ primed < NumFiles
  /\ ~Fails(primed + 1)
  /\ pos' = [pos EXCEPT ![primed + 1] = ReadTo(primed + 1)]
  /\ heap' = heap \union Offered(primed + 1)
  /\ primed' = primed + 1
  /\ UNCHANGED << file, out, phase >>

PrimeFails ==
  /\ phase = "opening"
  /\ primed < NumFiles
  /\ Fails(primed + 1)
  /\ phase' = "refused"
  /\ UNCHANGED << file, pos, heap, primed, out >>

(* A file that cannot be opened at all.                                    *)
OpenFails ==
  /\ phase = "opening"
  /\ primed = 0 /\ NumFiles > 0
  /\ phase' = "refused"
  /\ UNCHANGED << file, pos, heap, primed, out >>

Primed ==
  /\ phase = "opening"
  /\ primed = NumFiles
  /\ phase' = "merging"
  /\ UNCHANGED << file, pos, heap, primed, out >>

(* next(): pop the smallest entry, read its file on.                       *)
Least(e) == e \in heap /\ \A d \in heap : d = e \/ Less(e, d)

Yield(e) == [ok |-> TRUE, ts |-> e.ts, file |-> e.file, line |-> e.line]
Error(f) == [ok |-> FALSE, ts |-> 0, file |-> f, line |-> NextLine(f)]

Pull(e) ==
  /\ phase = "merging"
  /\ Least(e)
  /\ ~Fails(e.file)
  /\ pos' = [pos EXCEPT ![e.file] = ReadTo(e.file)]
  /\ heap' = (heap \ {e}) \union Offered(e.file)
  /\ out' = Append(out, Yield(e))
  /\ UNCHANGED << file, primed, phase >>

(* Mutant: the error is swallowed, with the entry.                         *)
PullSilently(e) ==
  /\ phase = "merging"
  /\ Least(e)
  /\ Fails(e.file)
  /\ pos' = [pos EXCEPT ![e.file] = ReadTo(e.file)]
  /\ heap' = heap \ {e}
  /\ UNCHANGED << file, out, primed, phase >>

(* The popped event is gone when the line behind it is broken: the error   *)
(* is returned in its place, and nothing reads that file again.            *)
PullFails(e) ==
  /\ phase = "merging"
  /\ Least(e)
  /\ Fails(e.file)
  /\ pos' = [pos EXCEPT ![e.file] = ReadTo(e.file)]
  /\ heap' = heap \ {e}
  /\ out' = Append(out, Error(e.file))
  /\ UNCHANGED << file, primed, phase >>

Exhaust ==
  /\ phase = "merging"
  /\ heap = {}
  /\ phase' = "exhausted"
  /\ UNCHANGED << file, pos, heap, primed, out >>

Finished == phase \in {"exhausted", "refused"} /\ UNCHANGED vars

Next ==
  \/ Prime \/ PrimeFails \/ OpenFails \/ Primed
  \/ \E e \in heap : Pull(e) \/ PullFails(e)
  \/ Exhaust
  \/ Finished

Spec == Init /\ [][Next]_vars

-----------------------------------------------------------------------------
(* Properties                                                              *)

Entry  == [ts : Ts, file : File, line : Nat]
Result == [ok : BOOLEAN, ts : Ts, file : File, line : Nat]

(* Types, and that an entry offers the line its reader stands on.          *)
TypeOK ==
  /\ file \in [File -> Seq(Line)]
  /\ pos \in [File -> Nat] /\ \A f \in File : pos[f] <= Len(file[f])
  /\ heap \in SUBSET Entry
  /\ primed \in 0 .. NumFiles
  /\ out \in Seq(Result)
  /\ phase \in {"opening", "merging", "exhausted", "refused"}

Wanted(f)    == {j \in DOMAIN file[f] : file[f][j].ok /\ file[f][j].wanted}
Delivered(f) == {j \in DOMAIN file[f] : \E i \in DOMAIN out :
                    out[i].ok /\ out[i].file = f /\ out[i].line = j}
BrokenIn(f)  == {j \in DOMAIN file[f] : ~file[f][j].ok}
Reported(f)  == \E i \in DOMAIN out : ~out[i].ok /\ out[i].file = f

(* The recorder's clock went back before it stamped line j.                *)
WentBack(f, j) == \E k \in 1 .. j - 1 : file[f][k].ok /\ file[f][k].ts > file[f][j].ts

(* The events come out in time-stamp order, whatever errors are returned   *)
(* between them; equal stamps in the order of the files.  Only an event    *)
(* whose own file goes back can be late: the others are in order, also     *)
(* among themselves.  Those of one file are always in the order of their   *)
(* lines, none twice.                                                      *)
MergedInOrder ==
  \A i, j \in DOMAIN out : i < j /\ out[i].ok /\ out[j].ok =>
    /\ out[i].file = out[j].file => out[i].line < out[j].line
    /\ ~WentBack(out[j].file, out[j].line) =>
         /\ out[i].ts <= out[j].ts
         /\ out[i].ts = out[j].ts => out[i].file <= out[j].file

(* When the merge ends, an undamaged file has been delivered entirely, and *)
(* of a damaged one an error was reported and at most one wanted event in  *)
(* front of the damage is missing.                                         *)
DamageContained ==
  phase = "exhausted" => \A f \in File :
    IF BrokenIn(f) = {} THEN Delivered(f) = Wanted(f)
    ELSE LET first == CHOOSE j \in BrokenIn(f) : \A k \in BrokenIn(f) : j <= k
             before == {j \in Wanted(f) : j < first}
         IN  /\ Reported(f)
             /\ Delivered(f) \subseteq before
             /\ Cardinality(before \ Delivered(f)) <= 1
=============================================================================
