----------------------------- MODULE MCRecorder -----------------------------
(* Two tasks that wait for each other's writes: a feed that demultiplexes  *)
(* its frames over two streams and the detached snapshot task.             *)
EXTENDS Recorder, TLC

CONSTANTS feed, snap, trade, book, depth

MCStreamsOf == (feed :> {trade, book}) @@ (snap :> {depth})
=============================================================================
