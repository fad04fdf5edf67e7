------------------------------- MODULE Replay -------------------------------
(***************************************************************************)
(* What is done with a replayed stream: the replayer's commands `count`,   *)
(* `head`, `tail` and `dump` (apps/replayer/src/main.rs), `dump` through   *)
(* the `ParquetSink` of crates/replayer/src/parquet.rs, and a library      *)
(* caller, "drain", that reads the stream to its end whatever errors are   *)
(* in it.  The commands use the merge directly, which is the pacer at      *)
(* max-speed without offsets; a library caller may pace what it drains or  *)
(* dumps.                                                                  *)
(*                                                                         *)
(* The stream is lazy: a step of the merge or the pacer is taken only for  *)
(* a command that asks for the next item, and one that returns leaves the  *)
(* rest of the files unread.                                               *)
(***************************************************************************)
EXTENDS Pacer

CONSTANTS
  MaxN,        \* bound: the largest -n
  MaxRows,     \* bound: the largest batch_rows
  DiskErrors   \* whether writing the Parquet file can fail

ASSUME ReplayAssumption ==
  MaxN \in Nat /\ MaxRows \in Nat \ {0} /\ DiskErrors \in BOOLEAN

VARIABLES
  cmd,     \* the command, its -n and the batch_rows of its sink
  taken,   \* how many items the command has been given
  kept,    \* what it holds: the counted events, the ring, the open batch
  output,  \* what it has printed
  sink,    \* whether the ParquetSink is yet to be made, open or consumed
  export,  \* the file at --out
  result   \* "running", or what the command returned

cmdVars == << cmd, taken, kept, output, sink, export, result >>
replayVars == << vars, pacerVars, cmdVars >>

Command == [kind : {"count", "head", "tail", "dump", "drain"},
            n : 0 .. MaxN, rows : 1 .. MaxRows]

(* A command may find the export of an earlier one at --out.               *)
EarlierExport == [fresh |-> FALSE, footer |-> TRUE, rows |-> << >>]

ReplayInit ==
  /\ Init
  /\ PacerInit
  /\ cmd \in Command
  /\ cmd.kind \in {"count", "head", "tail"} =>
       speed = 0 /\ \A f \in File : offset[f] = 0
  /\ taken = 0
  /\ kept = << >>
  /\ output = << >>
  /\ sink = "none"
  /\ export = EarlierExport
  /\ result = "running"

Running(kind) == result = "running" /\ cmd.kind = kind

-----------------------------------------------------------------------------
(* The stream.  open_any opens it before a sink is made.                   *)

Hungry == taken = Len(paced) /\ (cmd.kind = "dump" => sink = "open")

Open ==
  /\ result = "running"
  /\ Prime \/ PrimeFails \/ OpenFails \/ Primed
  /\ UNCHANGED << pacerVars, cmdVars >>

(* The command returns the error of open_any.                              *)
Refuse ==
  /\ result = "running" /\ phase = "refused"
  /\ result' = "error"
  /\ UNCHANGED << vars, pacerVars, cmd, taken, kept, output, sink, export >>

Ask ==
  /\ result = "running" /\ Hungry /\ Starved
  /\ \/ \E e \in heap : Pull(e) \/ PullFails(e)
     \/ Exhaust
  /\ UNCHANGED << pacerVars, cmdVars >>

Emit ==
  /\ result = "running"
  /\ Pace
  /\ UNCHANGED << vars, cmdVars >>

Wait ==
  /\ result = "running"
  /\ TimePasses
  /\ UNCHANGED << vars, cmdVars >>

Given == taken < Len(paced)
Offer == paced[taken + 1]
Row   == [ts |-> Offer.ts, file |-> Offer.file, line |-> Offer.line]
Over  == phase = "exhausted" /\ ~Given /\ Starved

(* The error is returned with what has been printed so far; everything     *)
(* else, a ring or an open sink, is dropped.                               *)
ReturnError ==
  /\ result' = "error"
  /\ UNCHANGED << vars, pacerVars, cmd, taken, kept, output, sink, export >>

(* Mutant: the sink is finished when it is dropped.                        *)
StopAtErrorFinishing ==
  /\ result = "running" /\ cmd.kind \in {"count", "tail", "dump"}
  /\ Given /\ ~Offer.ok
  /\ export' = IF sink = "open" THEN [export EXCEPT !.footer = TRUE,
                                                  !.rows = @ \o kept]
               ELSE export
  /\ result' = "error"
  /\ UNCHANGED << vars, pacerVars, cmd, taken, kept, output, sink >>

StopAtError ==
  /\ result = "running" /\ cmd.kind \in {"count", "tail", "dump"}
  /\ Given /\ ~Offer.ok
  /\ ReturnError

-----------------------------------------------------------------------------
(* run_count, and the library caller that reads past errors.               *)
CountTakes ==
  /\ Running("count")
  /\ Given /\ Offer.ok
  /\ kept' = Append(kept, Row)
  /\ taken' = taken + 1
  /\ UNCHANGED << vars, pacerVars, cmd, output, sink, export, result >>

DrainTakes ==
  /\ Running("drain")
  /\ Given
  /\ taken' = taken + 1
  /\ UNCHANGED << vars, pacerVars, cmd, kept, output, sink, export, result >>

(* run_head has pulled the item behind the last one it prints, and stops   *)
(* without looking at it.                                                  *)
HeadFull ==
  /\ Running("head")
  /\ Given /\ Len(output) >= cmd.n
  /\ result' = "ok"
  /\ UNCHANGED << vars, pacerVars, cmd, taken, kept, output, sink, export >>

HeadTakes ==
  /\ Running("head")
  /\ Given /\ Len(output) < cmd.n /\ Offer.ok
  /\ output' = Append(output, Row)
  /\ taken' = taken + 1
  /\ UNCHANGED << vars, pacerVars, cmd, kept, sink, export, result >>

HeadFails ==
  /\ Running("head")
  /\ Given /\ Len(output) < cmd.n /\ ~Offer.ok
  /\ ReturnError

(* Mutant: the ring drops its front once it is longer than n.              *)
RingOneLonger == IF Len(kept) > cmd.n THEN SubSeq(kept, 2, Len(kept)) ELSE kept

(* run_tail: a full ring drops its front; popping an empty one is nothing, *)
(* so with n = 0 the ring is never full again.                             *)
Ring ==
  IF Len(kept) = cmd.n THEN SubSeq(kept, 2, Len(kept)) ELSE kept

TailTakes ==
  /\ Running("tail")
  /\ Given /\ Offer.ok
  /\ kept' = Append(Ring, Row)
  /\ taken' = taken + 1
  /\ UNCHANGED << vars, pacerVars, cmd, output, sink, export, result >>

(* What the loop of a command leaves to do when the stream ends.           *)
Finish ==
  /\ result = "running" /\ cmd.kind # "dump"
  /\ Over
  /\ output' = IF cmd.kind \in {"count", "tail"} THEN kept ELSE output
  /\ result' = "ok"
  /\ UNCHANGED << vars, pacerVars, cmd, taken, kept, sink, export >>

-----------------------------------------------------------------------------
(* run_dump: ParquetSink::create truncates what is at --out.               *)
Blank == [fresh |-> TRUE, footer |-> FALSE, rows |-> << >>]

CreateSink ==
  /\ Running("dump")
  /\ phase = "merging" /\ sink = "none"
  /\ sink' = "open"
  /\ export' = Blank
  /\ UNCHANGED << vars, pacerVars, cmd, taken, kept, output, result >>

(* The file cannot be created, or not be begun.                            *)
CreateSinkFails ==
  /\ DiskErrors /\ Running("dump")
  /\ phase = "merging" /\ sink = "none"
  /\ export' \in {export, Blank}
  /\ result' = "error"
  /\ UNCHANGED << vars, pacerVars, cmd, taken, kept, output, sink >>

Appends == Running("dump") /\ Given /\ Offer.ok
Fills   == Len(kept) + 1 >= cmd.rows

AppendRow ==
  /\ Appends /\ ~Fills
  /\ kept' = Append(kept, Row)
  /\ taken' = taken + 1
  /\ UNCHANGED << vars, pacerVars, cmd, output, sink, export, result >>

(* flush_batch: the batch goes to the writer and the builders start anew.  *)
FlushBatch ==
  /\ Appends /\ Fills
  /\ export' = [export EXCEPT !.rows = @ \o Append(kept, Row)]
  /\ kept' = << >>
  /\ taken' = taken + 1
  /\ UNCHANGED << vars, pacerVars, cmd, output, sink, result >>

FlushBatchFails ==
  /\ DiskErrors /\ Appends /\ Fills
  /\ result' = "error"
  /\ sink' = "consumed"
  /\ UNCHANGED << vars, pacerVars, cmd, taken, kept, output, export >>

(* close: the rows that did not fill a batch, then the footer without      *)
(* which nobody can read the file.                                         *)
CloseSink ==
  /\ Running("dump") /\ sink = "open" /\ Over
  /\ export' = [export EXCEPT !.rows = @ \o kept, !.footer = TRUE]
  /\ sink' = "consumed"
  /\ result' = "ok"
  /\ UNCHANGED << vars, pacerVars, cmd, taken, kept, output >>

CloseSinkFails ==
  /\ DiskErrors /\ Running("dump") /\ sink = "open" /\ Over
  /\ sink' = "consumed"
  /\ result' = "error"
  /\ UNCHANGED << vars, pacerVars, cmd, taken, kept, output, export >>

HasReturned == result # "running" /\ UNCHANGED replayVars

ReplayNext ==
  \/ Open \/ Refuse \/ Ask \/ Emit \/ Wait
  \/ CountTakes \/ DrainTakes \/ StopAtError \/ Finish
  \/ HeadTakes \/ HeadFull \/ HeadFails \/ TailTakes
  \/ CreateSink \/ CreateSinkFails \/ AppendRow
  \/ FlushBatch \/ FlushBatchFails \/ CloseSink \/ CloseSinkFails
  \/ HasReturned

ReplaySpec == ReplayInit /\ [][ReplayNext]_replayVars

-----------------------------------------------------------------------------
(* Properties                                                              *)

RowType == [ts : Nat, file : File, line : Nat]

(* Types of every variable of the merge, the pacer and the command.        *)
ReplayTypeOK ==
  /\ TypeOK
  /\ PacedType
  /\ cmd \in Command
  /\ taken \in 0 .. Len(paced) /\ Len(paced) <= Len(out)
  /\ kept \in Seq(RowType) /\ output \in Seq(RowType)
  /\ sink \in {"none", "open", "consumed"}
  /\ export \in [fresh : BOOLEAN, footer : BOOLEAN, rows : Seq(RowType)]
  /\ result \in {"running", "ok", "error"}

(* The recorder's clock was not stepped back while it wrote the files.      *)
ClockSteady == \A f \in File : \A j \in DOMAIN file[f] : file[f][j].ok => ~WentBack(f, j)

(* The reference: every wanted, readable event of the files, by the stamp  *)
(* it was recorded with, then the file, then the line.                     *)
Events == UNION {{[ts |-> file[f][j].ts, file |-> f, line |-> j] : j \in Wanted(f)} : f \in File}

Before(a, b) ==
  \/ a.ts < b.ts
  \/ a.ts = b.ts /\ a.file < b.file
  \/ a.ts = b.ts /\ a.file = b.file /\ a.line < b.line

Rank(r) == Cardinality({q \in Events : Before(q, r)})

Recorded == [i \in 1 .. Cardinality(Events) |-> CHOOSE r \in Events : Rank(r) = i - 1]

FirstOf(s, n) == IF n >= Len(s) THEN s ELSE SubSeq(s, 1, n)
LastOf(s, n)  == IF n >= Len(s) THEN s ELSE SubSeq(s, Len(s) - n + 1, Len(s))

(* A command that succeeds has answered from everything that was recorded: *)
(* `count` and `tail` only when no file is damaged, `head` also when the   *)
(* damage lies behind what it printed; and a `head` that fails has printed *)
(* nothing but the first events.  A `tail` of no events prints them all.   *)
(* The order is that of the stamps as long as the recorder's clock was.    *)
AnswersExact ==
  /\ ClockSteady /\ result = "ok" =>
       /\ cmd.kind = "count" => output = Recorded
       /\ cmd.kind = "head" => output = FirstOf(Recorded, cmd.n)
       /\ cmd.kind = "tail" =>
            output = IF cmd.n = 0 THEN Recorded ELSE LastOf(Recorded, cmd.n)
  /\ result = "ok" /\ cmd.kind \in {"count", "tail", "dump"} =>
       \A f \in File : BrokenIn(f) = {}
  /\ ClockSteady /\ cmd.kind = "head" => output = FirstOf(Recorded, Len(output))

Replayed(e) == [e EXCEPT !.ts = Later(0, @ + offset[e.file])]

(* The file at --out can be read only when it is an earlier export, whole, *)
(* or a dump that succeeded, and then it has every recorded event once, in *)
(* recorded order, with the stamp the pacer gave it.  A session that       *)
(* cannot be opened leaves an earlier export alone.                        *)
ExportAllOrNothing ==
  /\ export.fresh /\ export.footer =>
       /\ result = "ok"
       /\ ClockSteady => export.rows = [i \in DOMAIN Recorded |-> Replayed(Recorded[i])]
  /\ ~export.fresh => export = EarlierExport
  /\ cmd.kind = "dump" /\ result = "ok" => export.fresh /\ export.footer
  /\ phase = "refused" => export = EarlierExport
=============================================================================
