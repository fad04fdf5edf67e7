------------------------------ MODULE Storage ------------------------------
(***************************************************************************)
(* The recorder's `Store` (crates/storage/src/lib.rs): one buffered writer *)
(* per stream, opened on the first write, rotated to a new file when the   *)
(* session-relative bucket advances, flushed on shutdown and once more     *)
(* when the store is dropped.                                              *)
(*                                                                         *)
(* Every call runs under the mutex the feeds share.  A call that does I/O  *)
(* takes several steps here, one per system call that can fail, because    *)
(* each `?` leaves the writer in a different state and because the process *)
(* can die between two of them.  `op` is the call that holds the mutex.    *)
(*                                                                         *)
(* An event is the number of the write call that carried it.  Its line is  *)
(* two halves, <<e, 1>> and <<e, 2>>, the second holding the newline: that *)
(* is the granularity at which a write can be cut short.                   *)
(*                                                                         *)
(* Two streams whose names sanitise to the same file name are outside this *)
(* model: a stream stands for its file.                                    *)
(***************************************************************************)
EXTENDS Integers, Sequences, FiniteSets

CONSTANTS
  Stream,      \* the (venue, stream) keys of `writers`
  Capacity,    \* BufWriter capacity, in half lines
  MaxBucket,   \* bound: last rotation bucket; 0 is rotate_minutes = 0
  MaxEvents,   \* bound: write calls in one behaviour
  Oversize,    \* whether a line can be at least as long as the buffer
  IoErrors,    \* whether the file system can refuse a call
  PowerLoss    \* whether a crash also loses what was never synced

ASSUME StorageAssumption ==
  /\ Stream # {}
  /\ Capacity \in Nat /\ Capacity > 2
  /\ MaxBucket \in Nat
  /\ MaxEvents \in Nat
  /\ Oversize \in BOOLEAN /\ IoErrors \in BOOLEAN /\ PowerLoss \in BOOLEAN

Bucket == 0 .. MaxBucket
Event  == 1 .. MaxEvents
Half   == Event \X {1, 2}
Line(e) == << <<e, 1>>, <<e, 2>> >>

VARIABLES
  fsync,    \* storage.fsync_on_write, as the process was configured
  now,      \* the bucket `bucket_for` computes from the session's age
  writer,   \* writers: per stream the file it is on and the bytes it buffers
  disk,     \* what each file of the session holds
  synced,   \* how much of each file sync_data has made durable
  op,       \* the call that holds the store's mutex
  offered,  \* write calls made so far
  acked,    \* events whose write returned Ok
  torn,     \* events of which an oversize write left only the first half
  todo,     \* writers that flush_all or drop has still to visit
  spoiled,  \* streams whose last flush, in drop, failed
  status    \* where the process is in its life

vars == << fsync, now, writer, disk, synced, op, offered, acked, torn, todo,
           spoiled, status >>

Closed == [open |-> FALSE, bucket |-> 0, buf |-> << >>]
NoOp   == [stage |-> "idle", stream |-> CHOOSE s \in Stream : TRUE,
           event |-> 0, bucket |-> 0, big |-> FALSE]

Init ==
  /\ fsync \in BOOLEAN
  /\ now = 0
  /\ writer = [s \in Stream |-> Closed]
  /\ disk = [s \in Stream |-> [b \in Bucket |-> << >>]]
  /\ synced = [s \in Stream |-> [b \in Bucket |-> 0]]
  /\ op = NoOp
  /\ offered = 0
  /\ acked = [s \in Stream |-> {}]
  /\ torn = {}
  /\ todo = {}
  /\ spoiled = {}
  /\ status = "running"

-----------------------------------------------------------------------------
(* Buffer and file.                                                        *)

Buffered(s) == Len(writer[s].buf)

(* Mutants: after a partial write the whole buffer is dropped; the whole   *)
(* buffer is kept.                                                         *)
WriteOutClears(s, k) ==
  /\ disk' = [disk EXCEPT ![s][writer[s].bucket] =
                            @ \o SubSeq(writer[s].buf, 1, k)]
  /\ writer' = [writer EXCEPT ![s].buf = << >>]
WriteOutRepeats(s, k) ==
  /\ disk' = [disk EXCEPT ![s][writer[s].bucket] =
                            @ \o SubSeq(writer[s].buf, 1, k)]
  /\ writer' = [writer EXCEPT ![s].buf = IF k < Len(@) THEN @ ELSE << >>]

(* BufWriter::flush_buf gets k half lines out; what it could not write it  *)
(* keeps, so that a later flush resumes where this one stopped.            *)
WriteOut(s, k) ==
  /\ disk' = [disk EXCEPT ![s][writer[s].bucket] =
                            @ \o SubSeq(writer[s].buf, 1, k)]
  /\ writer' = [writer EXCEPT ![s].buf = SubSeq(@, k + 1, Len(@))]

Drain(s) == WriteOut(s, Buffered(s))

At(stage) == op.stage = stage
Goto(stage) == op' = [op EXCEPT !.stage = stage]

(* The write call returns and the mutex is released.                       *)
ReturnErr == op' = NoOp /\ UNCHANGED acked
ReturnOk  == op' = NoOp /\ acked' = [acked EXCEPT ![op.stream] = @ \union {op.event}]

-----------------------------------------------------------------------------
(* write / write_with_bucket                                               *)

BeginWrite(s, big) ==
  /\ status \in {"running", "flushed"}
  /\ At("idle")
  /\ offered < MaxEvents
  /\ offered' = offered + 1
  /\ op' = [stage |-> "ensure", stream |-> s, event |-> offered + 1,
            bucket |-> now, big |-> big]
  /\ UNCHANGED << fsync, now, writer, disk, synced, acked, torn, todo, spoiled, status >>

Rotating == writer[op.stream].open /\ writer[op.stream].bucket # op.bucket

OpenWriter ==
  /\ At("ensure")
  /\ ~writer[op.stream].open
  /\ writer' = [writer EXCEPT ![op.stream] =
                  [open |-> TRUE, bucket |-> op.bucket, buf |-> << >>]]
  /\ Goto("put")
  /\ UNCHANGED << fsync, now, disk, synced, offered, acked, torn, todo, spoiled, status >>

SameBucket ==
  /\ At("ensure")
  /\ writer[op.stream].open /\ ~Rotating
  /\ Goto("put")
  /\ UNCHANGED << fsync, now, writer, disk, synced, offered, acked, torn, todo,
                  spoiled, status >>

(* Mutant: the outgoing file is not flushed.                               *)
RotateUnflushed ==
  /\ At("ensure")
  /\ Rotating
  /\ Goto("reopen")
  /\ UNCHANGED << fsync, now, writer, disk, synced, offered, acked, torn, todo,
                  spoiled, status >>

(* ensure_bucket flushes the outgoing file before it opens the next one.   *)
RotateFlush ==
  /\ At("ensure")
  /\ Rotating
  /\ Drain(op.stream)
  /\ Goto("reopen")
  /\ UNCHANGED << fsync, now, synced, offered, acked, torn, todo, spoiled, status >>

(* Mutants: the file is created anew under the path not yet updated; the   *)
(* writer's bucket is not updated, and the call looks at it again.         *)
RotateTruncates ==
  /\ At("reopen")
  /\ disk' = [disk EXCEPT ![op.stream][writer[op.stream].bucket] = << >>]
  /\ writer' = [writer EXCEPT ![op.stream].bucket = op.bucket,
                              ![op.stream].buf = << >>]
  /\ Goto("put")
  /\ UNCHANGED << fsync, now, synced, offered, acked, torn, todo, spoiled, status >>
RotateKeepsBucket ==
  /\ At("reopen")
  /\ writer' = [writer EXCEPT ![op.stream].buf = << >>]
  /\ Goto("ensure")
  /\ UNCHANGED << fsync, now, disk, synced, offered, acked, torn, todo, spoiled, status >>

RotateReopen ==
  /\ At("reopen")
  /\ writer' = [writer EXCEPT ![op.stream].bucket = op.bucket,
                              ![op.stream].buf = << >>]
  /\ Goto("put")
  /\ UNCHANGED << fsync, now, disk, synced, offered, acked, torn, todo, spoiled, status >>

(* BufWriter::write_all: a line that fits is copied; one that does not     *)
(* first makes room; one that no buffer can hold goes to the file itself.  *)
Fits == ~op.big /\ Buffered(op.stream) + 2 <= Capacity

WriteLine ==
  /\ At("put")
  /\ Fits
  /\ writer' = [writer EXCEPT ![op.stream].buf = @ \o Line(op.event)]
  /\ IF fsync THEN Goto("flush") /\ UNCHANGED acked ELSE ReturnOk
  /\ UNCHANGED << fsync, now, disk, synced, offered, torn, todo, spoiled, status >>

MakeRoom ==
  /\ At("put")
  /\ ~Fits /\ Buffered(op.stream) > 0
  /\ Drain(op.stream)
  /\ UNCHANGED << fsync, now, synced, op, offered, acked, torn, todo, spoiled, status >>

(* Mutant: an oversize line goes past a buffer that still holds lines.     *)
WriteThroughEarly ==
  /\ At("put")
  /\ op.big
  /\ disk' = [disk EXCEPT ![op.stream][writer[op.stream].bucket] =
                            @ \o Line(op.event)]
  /\ IF fsync THEN Goto("flush") /\ UNCHANGED acked ELSE ReturnOk
  /\ UNCHANGED << fsync, now, writer, synced, offered, torn, todo, spoiled, status >>

WriteThrough ==
  /\ At("put")
  /\ op.big /\ Buffered(op.stream) = 0
  /\ disk' = [disk EXCEPT ![op.stream][writer[op.stream].bucket] =
                            @ \o Line(op.event)]
  /\ IF fsync THEN Goto("flush") /\ UNCHANGED acked ELSE ReturnOk
  /\ UNCHANGED << fsync, now, writer, synced, offered, torn, todo, spoiled, status >>

(* Mutant: sync_data without the flush before it.                          *)
SyncUnflushed ==
  /\ At("flush")
  /\ Goto("sync")
  /\ UNCHANGED << fsync, now, writer, disk, synced, offered, acked, torn, todo,
                  spoiled, status >>

FlushLine ==
  /\ At("flush")
  /\ Drain(op.stream)
  /\ Goto("sync")
  /\ UNCHANGED << fsync, now, synced, offered, acked, torn, todo, spoiled, status >>

SyncLine ==
  /\ At("sync")
  /\ LET b == writer[op.stream].bucket
     IN  synced' = [synced EXCEPT ![op.stream][b] = Len(disk[op.stream][b])]
  /\ ReturnOk
  /\ UNCHANGED << fsync, now, writer, disk, offered, torn, todo, spoiled, status >>

(* The error returns.                                                      *)
OpenOrSyncFails ==
  /\ IoErrors
  /\ \/ At("ensure") /\ ~writer[op.stream].open
     \/ At("reopen")
     \/ At("sync")
  /\ ReturnErr
  /\ UNCHANGED << fsync, now, writer, disk, synced, offered, torn, todo, spoiled, status >>

FlushDue ==
  \/ At("ensure") /\ Rotating
  \/ At("put") /\ ~Fits
  \/ At("flush")

FlushFails ==
  /\ IoErrors
  /\ FlushDue
  /\ \E k \in 0 .. Buffered(op.stream) - 1 : WriteOut(op.stream, k)
  /\ ReturnErr
  /\ UNCHANGED << fsync, now, synced, offered, torn, todo, spoiled, status >>

(* Mutant: the failed write is reported as a success.                      *)
WriteThroughIgnoresError ==
  /\ IoErrors
  /\ At("put")
  /\ op.big /\ Buffered(op.stream) = 0
  /\ disk' = [disk EXCEPT ![op.stream][writer[op.stream].bucket] =
                            Append(@, <<op.event, 1>>)]
  /\ torn' = torn \union {op.event}
  /\ ReturnOk
  /\ UNCHANGED << fsync, now, writer, synced, offered, todo, spoiled, status >>

(* A failed write_all past the buffer keeps nothing to resume with.        *)
WriteThroughFails ==
  /\ IoErrors
  /\ At("put")
  /\ op.big /\ Buffered(op.stream) = 0
  /\ \/ UNCHANGED << disk, torn >>
     \/ /\ disk' = [disk EXCEPT ![op.stream][writer[op.stream].bucket] =
                                  Append(@, <<op.event, 1>>)]
        /\ torn' = torn \union {op.event}
  /\ ReturnErr
  /\ UNCHANGED << fsync, now, writer, synced, offered, todo, spoiled, status >>

-----------------------------------------------------------------------------
(* flush_all, then drop                                                    *)

OpenWriters == {s \in Stream : writer[s].open}

BeginFlushAll ==
  /\ status = "running"
  /\ At("idle")
  /\ status' = "flushing"
  /\ todo' = OpenWriters
  /\ op' = [NoOp EXCEPT !.stage = "flush_all"]
  /\ UNCHANGED << fsync, now, writer, disk, synced, offered, acked, torn, spoiled >>

FlushOne(s) ==
  /\ status = "flushing"
  /\ s \in todo
  /\ Drain(s)
  /\ synced' = IF fsync THEN [synced EXCEPT ![s][writer[s].bucket] =
                                Len(disk[s][writer[s].bucket]) + Buffered(s)]
                        ELSE synced
  /\ todo' = todo \ {s}
  /\ UNCHANGED << fsync, now, op, offered, acked, torn, spoiled, status >>

FlushAllReturns ==
  /\ status' = "flushed"
  /\ todo' = {}
  /\ op' = NoOp

FlushAllDone ==
  /\ status = "flushing"
  /\ todo = {}
  /\ FlushAllReturns
  /\ UNCHANGED << fsync, now, writer, disk, synced, offered, acked, torn, spoiled >>

(* The first writer that fails ends flush_all: the others are not visited. *)
FlushOneFails(s) ==
  /\ IoErrors
  /\ status = "flushing"
  /\ s \in todo
  /\ \E k \in 0 .. Buffered(s) :
       /\ k < Buffered(s) \/ fsync
       /\ WriteOut(s, k)
  /\ FlushAllReturns
  /\ UNCHANGED << fsync, now, synced, offered, acked, torn, spoiled >>

BeginDrop ==
  /\ status = "flushed"
  /\ At("idle")
  /\ status' = "dropping"
  /\ todo' = OpenWriters
  /\ UNCHANGED << fsync, now, writer, disk, synced, op, offered, acked, torn, spoiled >>

(* Mutant: drop does not get past a writer.                                *)
DropStays(s) ==
  /\ status = "dropping"
  /\ s \in todo
  /\ Drain(s)
  /\ UNCHANGED << fsync, now, synced, op, offered, acked, torn, todo, spoiled, status >>

(* Drop for Store ignores errors and goes on to the next writer; what a    *)
(* writer could not write dies with it.                                    *)
DropOne(s) ==
  /\ status = "dropping"
  /\ s \in todo
  /\ \E k \in 0 .. Buffered(s) :
       /\ k = Buffered(s) \/ IoErrors
       /\ disk' = [disk EXCEPT ![s][writer[s].bucket] =
                                 @ \o SubSeq(writer[s].buf, 1, k)]
       /\ spoiled' = IF k < Buffered(s) THEN spoiled \union {s} ELSE spoiled
  /\ writer' = [writer EXCEPT ![s] = Closed]
  /\ todo' = todo \ {s}
  /\ UNCHANGED << fsync, now, synced, op, offered, acked, torn, status >>

DropDone ==
  /\ status = "dropping"
  /\ todo = {}
  /\ status' = "closed"
  /\ UNCHANGED << fsync, now, writer, disk, synced, op, offered, acked, torn, todo,
                  spoiled >>

-----------------------------------------------------------------------------
(* The session's age, and the end of the process.                          *)

AdvanceBucket ==
  /\ status \in {"running", "flushed"}
  /\ now < MaxBucket
  /\ now' = now + 1
  /\ UNCHANGED << fsync, writer, disk, synced, op, offered, acked, torn, todo,
                  spoiled, status >>

(* The process is killed: what is buffered is gone, the files stay.        *)
Crash ==
  /\ status \notin {"closed", "crashed"}
  /\ status' = "crashed"
  /\ writer' = [s \in Stream |-> Closed]
  /\ op' = NoOp
  /\ todo' = {}
  /\ UNCHANGED << fsync, now, disk, synced, offered, acked, torn, spoiled >>

(* The machine went down with it: a file loses some suffix of what was     *)
(* never synced.                                                           *)
LoseUnsynced(s, b) ==
  /\ PowerLoss
  /\ status = "crashed"
  /\ \E k \in synced[s][b] .. Len(disk[s][b]) - 1 :
       disk' = [disk EXCEPT ![s][b] = SubSeq(@, 1, k)]
  /\ UNCHANGED << fsync, now, writer, synced, op, offered, acked, torn, todo,
                  spoiled, status >>

Finished == status \in {"closed", "crashed"} /\ UNCHANGED vars

(* The steps of a call that holds the mutex: there is no await among them. *)
CallStep ==
  \/ OpenWriter \/ SameBucket \/ RotateFlush \/ RotateReopen
  \/ WriteLine \/ MakeRoom \/ WriteThrough \/ FlushLine \/ SyncLine
  \/ OpenOrSyncFails \/ FlushFails \/ WriteThroughFails
  \/ \E s \in Stream : FlushOne(s) \/ FlushOneFails(s) \/ DropOne(s)
  \/ FlushAllDone \/ DropDone

Next ==
  \/ \E s \in Stream, big \in BOOLEAN : (big => Oversize) /\ BeginWrite(s, big)
  \/ CallStep
  \/ BeginFlushAll
  \/ BeginDrop
  \/ AdvanceBucket
  \/ Crash
  \/ \E s \in Stream, b \in Bucket : LoseUnsynced(s, b)
  \/ Finished

Spec == Init /\ [][Next]_vars

(* A call runs to its return: the handlers hold the mutex across no await. *)
(* flush_all is followed by the end of main, which drops the store.        *)
FairSpec == Spec /\ WF_vars(CallStep) /\ WF_vars(BeginDrop)

-----------------------------------------------------------------------------
(* Properties                                                              *)

(* What a stream has in a bucket's file and, still buffered, bound for it. *)
InBuffer(s, b) ==
  IF writer[s].open /\ writer[s].bucket = b THEN writer[s].buf ELSE << >>
Content(s, b) == disk[s][b] \o InBuffer(s, b)

Taken(s) == {e \in Event : \E b \in Bucket :
                \E i \in DOMAIN Content(s, b) : Content(s, b)[i] = <<e, 2>>}

(* The events a reader of the file finds on a line of their own.           *)
Readable(s) ==
  {e \in Event : \E b \in Bucket : \E i \in 1 .. Len(disk[s][b]) - 1 :
     /\ disk[s][b][i] = <<e, 1>>
     /\ disk[s][b][i + 1] = <<e, 2>>
     /\ i > 1 => disk[s][b][i - 1][2] = 2}

Writer == [open : BOOLEAN, bucket : Bucket, buf : Seq(Half)]
Call == [stage : {"idle", "ensure", "reopen", "put", "flush", "sync", "flush_all"},
         stream : Stream, event : Event \union {0}, bucket : Bucket, big : BOOLEAN]

TypeOK ==
  /\ fsync \in BOOLEAN
  /\ now \in Bucket
  /\ writer \in [Stream -> Writer]
  /\ disk \in [Stream -> [Bucket -> Seq(Half)]]
  /\ synced \in [Stream -> [Bucket -> Nat]]
  /\ op \in Call
  /\ op.event = 0 <=> op.stage \in {"idle", "flush_all"}
  /\ offered \in 0 .. MaxEvents
  /\ acked \in [Stream -> SUBSET Event]
  /\ torn \in SUBSET Event
  /\ todo \in SUBSET Stream
  /\ spoiled \in SUBSET Stream
  /\ status \in {"running", "flushing", "flushed", "dropping", "closed", "crashed"}

(* In a run of half lines, every newline half follows its own first half,  *)
(* and a first half is followed by its own second one unless it is torn or *)
(* is the last thing there.                                                *)
WellFormed(h, tears) ==
  \A i \in 1 .. Len(h) :
    /\ h[i][2] = 2 => i > 1 /\ h[i - 1] = <<h[i][1], 1>>
    /\ h[i][2] = 1 /\ i < Len(h) => h[i + 1] = <<h[i][1], 2>> \/ h[i][1] \in tears

Ordered(h) ==
  \A i, j \in 1 .. Len(h) : i < j => h[i][1] <= h[j][1] /\ h[i] # h[j]

Before(g, h) ==
  \A i \in 1 .. Len(g), j \in 1 .. Len(h) : g[i][1] < h[j][1]

(* Whatever fails and wherever the process dies, no file holds a broken    *)
(* line except where an oversize write was torn, and at its very end.      *)
LinesIntact == \A s \in Stream, b \in Bucket : WellFormed(disk[s][b], torn)

(* A file holds its stream's events in the order of the write calls, none  *)
(* twice, and a later bucket holds only later events: replay may read the  *)
(* buckets of a stream one after the other.                                *)
OrderKept ==
  \A s \in Stream :
    /\ \A b \in Bucket : Ordered(disk[s][b])
    /\ \A a, b \in Bucket : a < b => Before(disk[s][a], disk[s][b])

(* An event whose write returned Ok is in the file or in the buffer until  *)
(* the process is killed or drop fails to flush its stream: no rotation,   *)
(* failed flush, failed flush_all or failed write of another event loses   *)
(* it.                                                                     *)
AckedKept ==
  status # "crashed" => \A s \in Stream \ spoiled : acked[s] \subseteq Taken(s)

(* With fsync_on_write, an event whose write returned Ok is in the synced  *)
(* part of its file, in every state: a power failure cannot take it.       *)
FsyncDurable ==
  fsync => \A s \in Stream : \A e \in acked[s] :
    \E b \in Bucket : \E i \in 1 .. synced[s][b] :
      i \in DOMAIN disk[s][b] /\ disk[s][b][i] = <<e, 2>>

(* After an orderly exit a torn line has cost at most one acknowledged     *)
(* event, the one glued to it.                                             *)
OneVictimPerTear ==
  status = "closed" => \A s \in Stream \ spoiled :
    Cardinality(acked[s] \ Readable(s)) <= Cardinality(torn)

(* Bytes in a file never change: a step of a live process only appends.    *)
AppendOnly ==
  [][status' # "crashed" => \A s \in Stream, b \in Bucket :
       \E k \in 0 .. Len(disk'[s][b]) : disk[s][b] = SubSeq(disk'[s][b], 1, k)]_vars

(* A write call gives the mutex back, and an exit under way ends.          *)
CallsAndExitEnd ==
  /\ op.stage # "idle" ~> op.stage = "idle"
  /\ status = "flushing" ~> status \in {"closed", "crashed"}

-----------------------------------------------------------------------------
(* The inductive invariant behind LinesIntact, OrderKept and AckedKept.    *)

Live    == status \in {"running", "flushing", "flushed"}
InCall  == op.stage \notin {"idle", "flush_all"}
Pending == op.stage \in {"ensure", "reopen", "put"}

(* The last event that can be in a file or a buffer.                       *)
Newest == IF Pending THEN offered - 1 ELSE offered

Whole(h, tears) == Len(h) > 0 => h[Len(h)][2] = 2 \/ h[Len(h)][1] \in tears

UpTo(h, e) == \A i \in 1 .. Len(h) : h[i][1] <= e

(* Which file a writer is on, in each stage of a call.                     *)
Shape ==
  /\ InCall => /\ status \in {"running", "flushed"}
               /\ op.event = offered
               /\ op.bucket <= now
               /\ writer[op.stream].open => writer[op.stream].bucket <= op.bucket
  /\ op.stage \in {"reopen", "put", "flush", "sync"} => writer[op.stream].open
  /\ op.stage \in {"put", "flush", "sync"} => writer[op.stream].bucket = op.bucket
  /\ op.stage = "reopen" => writer[op.stream].buf = << >>
  /\ todo \subseteq OpenWriters
  /\ status = "crashed" => OpenWriters = {}
  /\ \A s \in Stream :
       /\ ~writer[s].open => writer[s].buf = << >>
       /\ writer[s].bucket <= now
       /\ Live => \A b \in Bucket :
            ~writer[s].open \/ b > writer[s].bucket => disk[s][b] = << >>

(* What files and buffers together hold.                                   *)
ContentSound ==
  \A s \in Stream :
    /\ \A b \in Bucket :
         /\ WellFormed(Content(s, b), torn)
         /\ Ordered(Content(s, b))
         /\ UpTo(Content(s, b), Newest)
         /\ Live => Whole(Content(s, b), torn)
    /\ \A a, b \in Bucket : a < b => Before(Content(s, a), Content(s, b))

(* An event whose line is written waits only for its sync.                 *)
Landed == op.stage \in {"flush", "sync"} => op.event \in Taken(op.stream)

IInv == TypeOK /\ Shape /\ ContentSound /\ Landed /\ AckedKept
=============================================================================
