------------------------------ MODULE EventLog ------------------------------
(***************************************************************************)
(* What a recording promises its reader, stream by stream: a log to which  *)
(* only newer events are added, and of which more and more of the oldest   *)
(* is in the session's files.  Nothing leaves it while the recording goes  *)
(* on.  The last flush of a stream may drop its newest events; the death   *)
(* of the process costs what was not in the files and nothing else; losing *)
(* the machine with it takes a stretch out of a file.                      *)
(*                                                                         *)
(* Events are numbered in the order they are handed over, so that a stream *)
(* is the set of its events: their order is that of the numbers.           *)
(***************************************************************************)
EXTENDS Naturals

CONSTANTS Stream, Event

VARIABLES
  log,    \* per stream, the events taken
  saved,  \* per stream, those of them that are in its files
  phase   \* how far the recording is: going on, closing its files, ended

logVars == << log, saved, phase >>

Init ==
  /\ log = [s \in Stream |-> {}]
  /\ saved = [s \in Stream |-> {}]
  /\ phase = "recording"

(* The oldest events of a log, up to some point.                           *)
Oldest(P, S) == P \subseteq S /\ \A p \in P, e \in S \ P : p < e

(* An event is newer than everything already taken from its stream.  It    *)
(* may go past the buffer, straight to the file, if nothing is before it.  *)
Take(s, e) ==
  /\ phase = "recording"
  /\ \A x \in log[s] : x < e
  /\ log' = [log EXCEPT ![s] = @ \union {e}]
  /\ \/ UNCHANGED saved
     \/ saved[s] = log[s] /\ saved' = [saved EXCEPT ![s] = @ \union {e}]
  /\ UNCHANGED phase

Save(s) ==
  /\ phase = "recording"
  /\ \E P \in SUBSET log[s] :
       /\ saved[s] \subseteq P /\ Oldest(P, log[s])
       /\ saved' = [saved EXCEPT ![s] = P]
  /\ UNCHANGED << log, phase >>

Close == phase = "recording" /\ phase' = "closing" /\ UNCHANGED << log, saved >>

(* The last flush of a stream saves some of what it holds and drops the    *)
(* rest.                                                                   *)
Settle(s) ==
  /\ phase = "closing"
  /\ \E P \in SUBSET log[s] :
       /\ saved[s] \subseteq P /\ Oldest(P, log[s])
       /\ saved' = [saved EXCEPT ![s] = P]
       /\ log' = [log EXCEPT ![s] = P]
  /\ UNCHANGED phase

(* However it ends, in order or not, what was saved is what is left.       *)
End == phase # "ended" /\ phase' = "ended" /\ log' = saved /\ UNCHANGED saved

(* A file of a stream loses its end, though later files keep theirs.       *)
Lose(s) ==
  /\ phase = "ended"
  /\ \E first, last \in Event :
       /\ log' = [log EXCEPT ![s] = @ \ (first .. last)]
       /\ saved' = [saved EXCEPT ![s] = @ \ (first .. last)]
  /\ UNCHANGED phase

Next ==
  \/ \E s \in Stream, e \in Event : Take(s, e)
  \/ \E s \in Stream : Save(s) \/ Settle(s) \/ Lose(s)
  \/ Close \/ End

Spec == Init /\ [][Next]_logVars
=============================================================================
