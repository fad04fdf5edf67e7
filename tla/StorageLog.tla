----------------------------- MODULE StorageLog -----------------------------
EXTENDS Storage

(* The events whose whole line is in one of the stream's files.            *)
Filed(s) == {e \in Event : \E b \in Bucket :
                \E i \in DOMAIN disk[s][b] : disk[s][b][i] = <<e, 2>>}

(* Storage implements EventLog: a stream's log is what its files and its   *)
(* buffer hold, the saved part is what its files do, and the recording     *)
(* goes on until the store is dropped or the process dies.                 *)
Log   == [s \in Stream |-> Taken(s)]
Saved == [s \in Stream |-> Filed(s)]
Phase == IF status = "dropping" THEN "closing"
         ELSE IF status \in {"closed", "crashed"} THEN "ended" ELSE "recording"

Recorded == INSTANCE EventLog WITH log <- Log, saved <- Saved, phase <- Phase

RecordsLog == Recorded!Spec
=============================================================================
