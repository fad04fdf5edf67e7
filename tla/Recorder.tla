------------------------------ MODULE Recorder ------------------------------
(***************************************************************************)
(* The recording tasks around the store: the feed tasks of                 *)
(* crates/*_feed and the shutdown sequence of apps/recorder/src/main.rs.   *)
(*                                                                         *)
(* A task turns a frame it received into one or more events.  The frame is *)
(* stamped with the wall clock first and each event then takes the store's *)
(* mutex on its own, so other tasks write between the stamp and the write, *)
(* and between two events of one frame.  Nothing in that code awaits: an   *)
(* abort stops a task between two frames, never inside one.                *)
(***************************************************************************)
EXTENDS Storage

CONSTANTS
  Task,         \* the tasks that write events
  StreamsOf,    \* the streams each of them writes
  Detached,     \* the tasks main does not wait for: the periodic snapshot
  MaxItems,     \* bound: events demultiplexed from one frame
  MaxClock      \* bound: the last clock reading

ASSUME RecorderAssumption ==
  /\ Task # {}
  /\ StreamsOf \in [Task -> SUBSET Stream]
  /\ Detached \subseteq Task
  /\ MaxItems \in Nat /\ MaxClock \in Nat

(* A stream has one writing task: a feed writes its own venue's streams.   *)
(* The depth snapshots are fetched by the feed when it connects and then   *)
(* by a task it spawns, and after that one is aborted the feed backs off   *)
(* before it connects again: the two are one task here.                    *)
ASSUME OwnStreams ==
  \A t, u \in Task : t # u => StreamsOf[t] \cap StreamsOf[u] = {}

VARIABLES
  clock,      \* SystemTime, as LocalTimestamp::now reads it; never set back
  frame,      \* per task the frame being processed: its stamp, items left
  user,       \* the task inside Store::write
  alive,      \* tasks that have not ended
  signalled,  \* main got its signal and has aborted the tasks
  stamp,      \* local_ts_ns of every event, in the order of the writes
  home,       \* the stream of every event
  due         \* events that the frames stamped so far consist of

taskVars == << clock, frame, user, alive, signalled, stamp, home, due >>
recorderVars == << vars, taskVars >>

Idle == [ts |-> 0, left |-> 0]

RecorderInit ==
  /\ Init
  /\ clock = 0
  /\ frame = [t \in Task |-> Idle]
  /\ user = CHOOSE t \in Task : TRUE
  /\ alive = Task
  /\ signalled = FALSE
  /\ stamp = << >>
  /\ home = << >>
  /\ due = 0

InWrite(t) == user = t /\ op.stage \notin {"idle", "flush_all"}
Busy(t) == frame[t].left > 0 \/ InWrite(t)

(* process_text: LocalTimestamp::now(), then what the frame demuxes into.  *)
Stamp(t, items) ==
  /\ t \in alive /\ ~Busy(t)
  /\ due + items <= MaxEvents
  /\ frame' = [frame EXCEPT ![t] = [ts |-> clock, left |-> items]]
  /\ due' = due + items
  /\ UNCHANGED << vars, clock, user, alive, signalled, stamp, home >>

(* Mutant: an event goes to any stream.                                    *)
WriteOneAnywhere(t, s, big) ==
  /\ t \in alive
  /\ frame[t].left > 0 /\ ~InWrite(t)
  /\ BeginWrite(s, big)
  /\ frame' = [frame EXCEPT ![t].left = @ - 1]
  /\ user' = t
  /\ stamp' = Append(stamp, frame[t].ts)
  /\ home' = Append(home, s)
  /\ UNCHANGED << clock, alive, signalled, due >>

(* write_one: the next event of the frame takes the mutex.                 *)
WriteOne(t, s, big) ==
  /\ t \in alive
  /\ frame[t].left > 0 /\ ~InWrite(t)
  /\ s \in StreamsOf[t]
  /\ BeginWrite(s, big)
  /\ frame' = [frame EXCEPT ![t].left = @ - 1]
  /\ user' = t
  /\ stamp' = Append(stamp, frame[t].ts)
  /\ home' = Append(home, s)
  /\ UNCHANGED << clock, alive, signalled, due >>

Tick ==
  /\ clock < MaxClock
  /\ clock' = clock + 1
  /\ UNCHANGED << vars, frame, user, alive, signalled, stamp, home, due >>

-----------------------------------------------------------------------------
(* Shutdown: abort the tasks, wait for them, flush, drop the store.        *)

Signal ==
  /\ status = "running"
  /\ ~signalled
  /\ signalled' = TRUE
  /\ UNCHANGED << vars, clock, frame, user, alive, stamp, home, due >>

(* Mutants: an abort that cuts a frame in two, and a detached task that    *)
(* nothing aborts.                                                         *)
TaskEndsInFrame(t) ==
  /\ signalled
  /\ t \in alive
  /\ alive' = alive \ {t}
  /\ UNCHANGED << vars, clock, frame, user, signalled, stamp, home, due >>
TaskEndsUnlessDetached(t) ==
  /\ signalled
  /\ t \in alive \ Detached /\ ~Busy(t)
  /\ alive' = alive \ {t}
  /\ UNCHANGED << vars, clock, frame, user, signalled, stamp, home, due >>

(* An aborted task ends at its next await.                                 *)
TaskEnds(t) ==
  /\ signalled
  /\ t \in alive /\ ~Busy(t)
  /\ alive' = alive \ {t}
  /\ UNCHANGED << vars, clock, frame, user, signalled, stamp, home, due >>

FlushAfterJoin ==
  /\ signalled
  /\ alive \subseteq Detached
  /\ BeginFlushAll
  /\ UNCHANGED taskVars

(* The store is dropped with the last handle to it.                        *)
LastHandleDropped ==
  /\ alive = {}
  /\ BeginDrop
  /\ UNCHANGED taskVars

ProcessDies ==
  /\ Crash
  /\ alive' = {}
  /\ frame' = [t \in Task |-> Idle]
  /\ UNCHANGED << clock, user, signalled, stamp, home, due >>

RecorderNext ==
  \/ \E t \in Task, items \in 1 .. MaxItems : Stamp(t, items)
  \/ \E t \in Task, s \in Stream, big \in BOOLEAN :
       (big => Oversize) /\ WriteOne(t, s, big)
  \/ Tick
  \/ Signal
  \/ \E t \in Task : TaskEnds(t)
  \/ FlushAfterJoin \/ LastHandleDropped
  \/ CallStep /\ UNCHANGED taskVars
  \/ AdvanceBucket /\ UNCHANGED taskVars
  \/ ProcessDies
  \/ \E s \in Stream, b \in Bucket : LoseUnsynced(s, b) /\ UNCHANGED taskVars
  \/ Finished /\ UNCHANGED taskVars

RecorderSpec == RecorderInit /\ [][RecorderNext]_recorderVars

(* Workers keep polling a task that has work, the mutex is handed to one   *)
(* of those that wait for it, and main runs its shutdown to the end.       *)
RecorderFairSpec ==
  /\ RecorderSpec
  /\ WF_recorderVars(CallStep /\ UNCHANGED taskVars)
  /\ \A t \in Task :
       /\ SF_recorderVars(\E s \in Stream, big \in BOOLEAN :
                            (big => Oversize) /\ WriteOne(t, s, big))
       /\ SF_recorderVars(TaskEnds(t))
  /\ SF_recorderVars(FlushAfterJoin)
  /\ WF_recorderVars(LastHandleDropped)

-----------------------------------------------------------------------------
(* Properties                                                              *)

(* Types of the recorder's variables, beside those of the store.           *)
RecorderTypeOK ==
  /\ TypeOK
  /\ clock \in 0 .. MaxClock
  /\ frame \in [Task -> [ts : 0 .. MaxClock, left : 0 .. MaxItems]]
  /\ user \in Task
  /\ alive \in SUBSET Task
  /\ signalled \in BOOLEAN
  /\ stamp \in Seq(0 .. MaxClock) /\ Len(stamp) = offered
  /\ home \in Seq(Stream) /\ Len(home) = offered
  /\ due \in 0 .. MaxEvents

(* The events of one file are in the order of their time stamps, which is  *)
(* what the replayer's merge relies on (replayer/src/merge.rs): the wall   *)
(* clock is taken to go forward here.                                      *)
FileTimestampsMonotone ==
  \A s \in Stream, b \in Bucket : \A i, j \in DOMAIN disk[s][b] :
    i < j => stamp[disk[s][b][i][1]] <= stamp[disk[s][b][j][1]]

(* Shutdown cuts no frame in two: when the process has exited, every event *)
(* of every frame it had stamped is readable in a file, whichever tasks    *)
(* held, or waited for, the mutex when the signal came.                    *)
ShutdownLosesNothing ==
  status = "closed" /\ ~IoErrors =>
    /\ offered = due
    /\ \A e \in 1 .. due : e \in Readable(home[e])

(* A signal ends the process, however busy the tasks are.                  *)
ShutdownEnds == signalled ~> status \in {"closed", "crashed"}
=============================================================================
