------------------------------ MODULE MCReplay ------------------------------
(***************************************************************************)
(* Replay for TLC.  Four families of initial states, each with the files   *)
(* it needs: commands over short files; a caller that drains longer files  *)
(* unpaced; one that drains short files paced; a paced dump.  The files    *)
(* that are drained can be of a recorder whose clock was stepped back.     *)
(***************************************************************************)
EXTENDS Replay

CONSTANTS
  ShortLines,  \* lines of a file in all families but the second
  ShortTs      \* last time stamp in the first and second family

FilesOf(lines, n) == UNION {[1 .. k -> lines] : k \in 0 .. n}
InOrder(f) == \A i, j \in DOMAIN f : i < j /\ f[i].ok /\ f[j].ok => f[i].ts <= f[j].ts
Ordered(lines, n) == {f \in FilesOf(lines, n) : InOrder(f)}

Early    == {l \in Line : l.ts <= ShortTs}
AllWanted == {l \in Line : l.ok => l.wanted}

Unpaced == speed = 0 /\ offset = [f \in File |-> 0]
Paced   == speed \in 0 .. MaxSpeed /\ offset \in [File -> -MaxOffset .. MaxOffset]

Commands(kinds) == {c \in Command :
  /\ c.kind \in kinds
  /\ c.kind \notin {"head", "tail"} => c.n = 0
  /\ c.kind # "dump" => c.rows = 1}

MCInit ==
  /\ \/ /\ cmd \in Commands({"count", "head", "tail", "dump"})
        /\ Unpaced
        /\ file \in [File -> Ordered(Early, ShortLines)]
     \/ /\ cmd \in Commands({"drain"})
        /\ Unpaced
        /\ file \in [File -> FilesOf(Early, MaxLines)]
     \/ /\ cmd \in Commands({"drain"})
        /\ Paced
        /\ file \in [File -> FilesOf(AllWanted, ShortLines)]
     \/ /\ cmd \in Commands({"dump"})
        /\ Paced
        /\ file \in [File -> Ordered(AllWanted, ShortLines)]
  /\ ReplayInit

MCSpec == MCInit /\ [][ReplayNext]_replayVars
=============================================================================
