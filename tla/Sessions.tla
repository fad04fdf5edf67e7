------------------------------- MODULE Sessions ------------------------------
(***************************************************************************)
(* The session directories under base_dir, and the three programs that     *)
(* meet there with nothing but names and times between them: the recorder  *)
(* opens a session and its files (Store::open, StreamWriter), disk_guard   *)
(* compresses old sessions, and the replayer lists what there is           *)
(* (SessionDir).                                                           *)
(*                                                                         *)
(* Time is counted in ticks, TicksPerDay of them a day; the wall clock can *)
(* be stepped back by one.  disk_guard's threshold of 120 seconds for a    *)
(* live session is less than a tick.                                       *)
(***************************************************************************)
EXTENDS Calendar, FileNames

CONSTANTS
  Streams,      \* stream names, as sequences of characters
  FirstDays,    \* days since 1970-01-01 at which the clock can start
  TicksPerDay,
  Age,          \* COMPRESS_AGE_HOURS in ticks
  MaxTicks,     \* bound: ticks
  MaxSessions,  \* bound: starts of the recorder
  MaxFiles,     \* bound: files that are made
  MaxKills      \* bound: kills of disk_guard, by the operator or with the machine

ASSUME SessionsAssumption ==
  /\ FirstDays \subseteq Nat
  /\ TicksPerDay \in Nat \ {0} /\ MaxTicks \in Nat /\ Age \in 2 .. MaxTicks
  /\ MaxSessions \in Nat /\ MaxFiles \in Nat /\ MaxKills \in Nat

VARIABLES
  firstDay, rotating,   \* when it began, and whether rotate_minutes > 0
  mono, back,           \* Instant, and by how much the wall clock is behind it
  run,       \* the recorder: whether it is up, its directory and when it began
  opened,    \* directories in the order in which they were opened
  files,     \* the files that were ever made, in the order of their making
  plain,     \* files that are there as .ndjson
  gz,        \* those that are there as .ndjson.gz
  whole,     \* those whose .gz is complete
  mtime,     \* of each file
  guard,     \* disk_guard: where it is, what it takes for live, what it compresses
  torn       \* files whose compression was cut short

store == << run, opened, files, mtime >>
disk  == << plain, gz, whole, torn >>
time  == << firstDay, rotating, mono, back >>
vars  == << time, store, disk, guard >>

now == mono - back     \* SystemTime::now

(* utc_compact_now                                                         *)
NameAt(t) ==
  LET date == CivilFromDays(firstDay + t \div TicksPerDay)
  IN  << date.y, date.mo, date.d, t % TicksPerDay >>

NoDir  == << 0, 0, 0, 0 >>
NoFileId == [dir |-> NoDir, stream |-> << >>, bucket |-> 0]

Dirs == Range(opened)
In(d, fs) == {f \in fs : f.dir = d}
MaxOf(S) == CHOOSE x \in S : \A y \in S : y <= x

-----------------------------------------------------------------------------
(* The recorder                                                            *)

Init ==
  /\ firstDay \in FirstDays /\ rotating \in BOOLEAN
  /\ mono = 0 /\ back = 0
  /\ run = [up |-> FALSE, dir |-> NoDir, start |-> 0]
  /\ opened = << >> /\ files = << >> /\ mtime = << >>
  /\ plain = {} /\ gz = {} /\ whole = {} /\ torn = {}
  /\ guard = [at |-> "idle", live |-> NoDir, sess |-> NoDir, file |-> NoFileId]

(* Store::open.  The service restarts after some seconds: no two starts    *)
(* are in the same moment, though a clock can be stepped back to one.      *)
Open ==
  /\ ~run.up /\ Len(opened) < MaxSessions
  /\ opened # << >> => mono > run.start
  /\ run' = [up |-> TRUE, dir |-> NameAt(now), start |-> mono]
  /\ opened' = Append(opened, NameAt(now))
  /\ UNCHANGED << files, mtime, time, disk, guard >>

(* bucket_for, in rotations of one tick                                    *)
Bucket == IF rotating THEN mono - run.start ELSE 0

Touch(f) == [g \in DOMAIN mtime \union {f} |-> IF g = f THEN now ELSE mtime[g]]

(* A writer's buffer reaches its file, which is made if it is not there.   *)
Write(stream) ==
  LET f == [dir |-> run.dir, stream |-> stream, bucket |-> Bucket]
  IN  /\ run.up
      /\ IF f \in plain THEN UNCHANGED << files, plain >>
         ELSE /\ Len(files) < MaxFiles
              /\ files' = Append(files, f)
              /\ plain' = plain \union {f}
      /\ mtime' = Touch(f)
      /\ UNCHANGED << run, opened, gz, whole, torn, time, guard >>

(* The recorder ends, or disk_guard stops it.                              *)
Stop ==
  /\ run.up
  /\ run' = [run EXCEPT !.up = FALSE]
  /\ UNCHANGED << opened, files, mtime, time, disk, guard >>

(* Some venue is heard from, and some buffer fills, at least once in every *)
(* Age - 1 ticks; a session without a file is not looked at by anyone.     *)
Busy == run.up /\ In(run.dir, DOMAIN mtime) # {} =>
          now - MaxOf({mtime[f] : f \in In(run.dir, DOMAIN mtime)}) < Age - 1

Tick ==
  /\ mono < MaxTicks /\ Busy
  /\ mono' = mono + 1
  /\ UNCHANGED << firstDay, rotating, back, store, disk, guard >>

StepBack ==
  /\ back = 0 /\ now > 0
  /\ back' = 1
  /\ UNCHANGED << firstDay, rotating, mono, store, disk, guard >>

-----------------------------------------------------------------------------
(* disk_guard, which the timer starts again when it has ended.             *)

(* find -type f: a .gz has the time of the file it was made of.            *)
Newest(d) == MaxOf({mtime[f] : f \in In(d, plain \union gz)})

(* live_session_path: the session written to last, if that is now.         *)
LiveSession ==
  LET there == {d \in Dirs : In(d, plain \union gz) # {}}
      last  == {d \in there : \A e \in there : Newest(e) <= Newest(d)}
  IN  {d \in last : now <= Newest(d)}

Look ==
  /\ guard.at = "idle"
  /\ \E d \in IF LiveSession = {} THEN {NoDir} ELSE LiveSession :
       guard' = [guard EXCEPT !.at = "looked", !.live = d]
  /\ UNCHANGED << time, store, disk >>

(* Mutant: the files that are compressed already count as well.            *)
CandidatesOfAllFiles(live) ==
  {d \in Dirs \ {live} : /\ In(d, plain \union gz) # {}
                         /\ \A f \in In(d, plain \union gz) : mtime[f] <= now - Age}

(* Mutant: only the live session is left out.                              *)
CandidatesButLive(live) == {d \in Dirs \ {live} : In(d, plain) # {}}

(* list_compressible_sessions                                              *)
Candidates(live) ==
  {d \in Dirs \ {live} : /\ In(d, plain) # {}
                         /\ \A f \in In(d, plain) : mtime[f] <= now - Age}

(* oldest_compressible_session: the least of the newest times, then of the *)
(* names.                                                                  *)
Before(a, b) ==
  \E k \in 1 .. 4 : a[k] < b[k] /\ \A i \in 1 .. k - 1 : a[i] = b[i]
AgeOf(d) == IF In(d, plain) = {} THEN Newest(d)
            ELSE MaxOf({mtime[f] : f \in In(d, plain)})
Oldest(ds) ==
  CHOOSE d \in ds : \A e \in ds \ {d} :
    AgeOf(d) < AgeOf(e) \/ (AgeOf(d) = AgeOf(e) /\ Before(d, e))

Choose ==
  /\ guard.at = "looked"
  /\ guard' = IF Candidates(guard.live) = {} THEN [guard EXCEPT !.at = "idle"]
              ELSE [guard EXCEPT !.at = "session", !.sess = Oldest(Candidates(guard.live))]
  /\ UNCHANGED << time, store, disk >>

(* gzip_session: one gzip for each of its files.                           *)
NextFile(f) ==
  /\ guard.at = "session"
  /\ f \in In(guard.sess, plain) \ gz
  /\ guard' = [guard EXCEPT !.at = "zipping", !.file = f]
  /\ gz' = gz \union {f}
  /\ UNCHANGED << time, store, plain, whole, torn >>

(* Mutant: the file is removed whatever gzip says.                         *)
RefusedRemoves(f) ==
  /\ guard.at = "session"
  /\ f \in In(guard.sess, plain) \intersect gz
  /\ plain' = plain \ {f}
  /\ UNCHANGED << time, store, gz, whole, torn, guard >>

(* gzip does not write over a .gz that is there, and the script goes on    *)
(* with the next file.                                                     *)
Refused(f) ==
  /\ guard.at = "session"
  /\ f \in In(guard.sess, plain) \intersect gz
  /\ UNCHANGED vars

(* Every file of the session was tried.                                    *)
EndSession ==
  /\ guard.at = "session"
  /\ In(guard.sess, plain) \subseteq gz
  /\ guard' = [guard EXCEPT !.at = "idle"]
  /\ UNCHANGED << time, store, disk >>

GzipWritten ==
  /\ guard.at = "zipping"
  /\ guard' = [guard EXCEPT !.at = "zipped"]
  /\ whole' = whole \union {guard.file}
  /\ UNCHANGED << time, store, plain, gz, torn >>

GzipUnlinks ==
  /\ guard.at = "zipped"
  /\ guard' = [guard EXCEPT !.at = "session"]
  /\ plain' = plain \ {guard.file}
  /\ UNCHANGED << time, store, gz, whole, torn >>

(* gzip is killed, and nobody removes what it wrote.                       *)
Kill ==
  /\ guard.at \in {"zipping", "zipped"} /\ Cardinality(torn) < MaxKills
  /\ torn' = torn \union {guard.file}
  /\ guard' = [guard EXCEPT !.at = "idle"]
  /\ UNCHANGED << time, store, plain, gz, whole >>

Guard ==
  \/ Look \/ Choose \/ EndSession \/ GzipWritten \/ GzipUnlinks
  \/ \E f \in Range(files) : NextFile(f) \/ Refused(f)

Next ==
  \/ Open \/ Stop \/ Tick \/ StepBack
  \/ \E s \in Streams : Write(s)
  \/ Guard
  \/ Kill

(* The timer starts disk_guard time and again, and it is never stuck.      *)
Spec == Init /\ [][Next]_vars /\ WF_vars(Guard)

-----------------------------------------------------------------------------
(* Properties                                                              *)

(* What SessionDir::list_files makes of a file.                            *)
Entry(f, compressed) ==
  ParseFileName(FileName(Sanitized(f.stream), f.bucket, rotating, compressed))

(* The names of the sessions sort as the sessions were opened.             *)
NamedInOrder ==
  back = 0 => \A i, j \in DOMAIN opened : i < j => Before(opened[i], opened[j])

(* The replayer lists sessions in the order in which they were opened,     *)
(* over the ends of months and years, if the clock was not stepped back.   *)
(* Each file is read back, plain and compressed, as the stream and bucket  *)
(* it was made for as long as the bucket fits in its four digits, so that  *)
(* the files of a stream are listed in the order in which they were made;  *)
(* the first bucket that does not fit is not a file of the stream any more.*)
ListedInOrder ==
  /\ NamedInOrder
  /\ \A i \in DOMAIN files : \A compressed \in BOOLEAN :
       LET f == files[i]
           e == Entry(f, compressed)
       IN  /\ e.found /\ e.gz = compressed
           /\ e.stream = Sanitized(f.stream) <=> f.bucket < Base ^ Width
           /\ f.bucket < Base ^ Width =>
                /\ e.bucket = f.bucket
                /\ \A j \in 1 .. i - 1 :
                     /\ back = 0 /\ files[j].dir = f.dir /\ files[j].stream = f.stream
                     => Entry(files[j], compressed).bucket < e.bucket

(* Whatever disk_guard does and wherever it is killed, each file that was  *)
(* ever made can be read whole under one of its names; it is listed under  *)
(* both only while it is compressed, or when that was cut short.           *)
AlwaysReadable ==
  \A f \in Range(files) :
    /\ f \in plain \/ f \in whole
    /\ f \in plain /\ f \in gz =>
         f \in torn \/ (guard.at \in {"zipping", "zipped"} /\ guard.file = f)

(* "Never touches the live session" (disk_guard.sh:12): what disk_guard    *)
(* compresses is never the session of a running recorder, although it      *)
(* looked for that one some time before.                                   *)
LiveUntouched ==
  guard.at \in {"session", "zipping", "zipped"} => ~(run.up /\ run.dir = guard.sess)

(* While the disk is low and no gzip is killed, every session comes to be  *)
(* compressed once it is old and nobody writes to it: the oldest does not  *)
(* keep the others waiting for ever.                                       *)
Waiting(i) ==
  /\ i \in DOMAIN opened
  /\ ~(run.up /\ run.dir = opened[i])
  /\ In(opened[i], plain) # {}
  /\ \A f \in In(opened[i], plain) : mtime[f] <= now - Age
OldAreCompressed ==
  [](torn = {}) => \A i \in 1 .. MaxSessions : Waiting(i) ~> ~Waiting(i)
=============================================================================
