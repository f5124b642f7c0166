--------------------------- MODULE AnalysisRestart ---------------------------
(***************************************************************************)
(* AnalysisService with an API process that may die and be started again.  *)
(*                                                                         *)
(* What survives is what is on disk and, for a while, the workers.  A      *)
(* worker exits when it notices that its channel is gone, and it notices   *)
(* only when it comes back to its event loop; building the graph and       *)
(* writing it are one synchronous stretch, so a worker that has begun it   *)
(* opens its database, if it had not, and commits first.  By then the next *)
(* process may have handed out the same name, and renamed or removed the   *)
(* file: an open database is written where its file is, not where its name *)
(* was.  Everything else starts again: the registry is empty, no graph is  *)
(* open, and the counters of job ids and of staged databases begin at zero.*)
(***************************************************************************)
EXTENDS AnalysisService

CONSTANTS MaxCrashes,   \* how often the API dies
          Earlier,      \* in Found: any graph of a job of an earlier process
          Leftovers     \* what earlier processes may have left at a path

ASSUME MaxCrashesAssumption == MaxCrashes \in Nat
ASSUME EarlierAssumption == Earlier \in Found
ASSUME LeftoversAssumption == Leftovers \subseteq {NoFile, Blank} \cup Found

VARIABLES crashes,
          orphans   \* workers of earlier processes that may still write

rvars == <<vars, crashes, orphans>>

\* Job ids are handed out again, so a graph on disk loses the name of its job.
Renamed(content) == IF content \in Ids THEN Earlier ELSE content

\* The database an orphan was started for, and the file it has open: one that is at a
\* path, or one that has been replaced or removed since.
Orphan == [life : 1 .. MaxCrashes, name : 1 .. MaxStaged,
           open : BOOLEAN, at : SUBSET H!Paths]

\* The workers that have begun to build when the process dies.
Outlive == {w \in W!Workers : child[w].at = "scan" /\ staging[w[1]] # H!Unbound}

\* The process ends, and createApp runs again on the same directory.
Crash ==
  /\ crashes < MaxCrashes
  /\ crashes' = crashes + 1
  /\ orphans' = orphans \cup {[life |-> crashes', name |-> staging[w[1]],
                               open |-> FALSE, at |-> {}] : w \in Outlive}
  /\ disk' = [p \in H!Paths |-> Renamed(disk[p])]
  /\ leaked' = {p \in 1 .. MaxStaged : disk[p] # NoFile} \cup {o.name : o \in orphans'}
  /\ sequence' = 0
  /\ entry' = [id \in Ids |-> R!Absent]
  /\ queue' = <<>> /\ running' = {}
  /\ child' = [w \in W!Workers |-> W!NoChild]
  /\ session' = NoSession /\ staged' = 0
  /\ staging' = [id \in Ids |-> H!Unbound]
  /\ scanning' = {}

\* The staged file this step renames to the live path.
Adopted == {p \in 1 .. MaxStaged :
              /\ disk[p] # NoFile /\ disk'[p] = NoFile
              /\ \E id \in Settling : staging[id] = p /\ entry'[id].status = "succeeded"}

\* Where the file at p is after this step: no path leads to it once it is replaced or
\* removed.
After(p) == IF p \in Adopted THEN {H!Live}
            ELSE IF disk'[p] = NoFile \/ (p = H!Live /\ Adopted # {}) THEN {}
            ELSE {p}

Followed(o) == [o EXCEPT !.at = UNION {After(p) : p \in @}]

\* GraphStore.open of a worker that is to write: the file its path leads to, or a new one.
OrphanOpens(o) ==
  /\ ~o.open
  /\ H!Create(o.name)
  /\ orphans' = (orphans \ {o}) \cup {[o EXCEPT !.open = TRUE, !.at = {o.name}]}
  /\ UNCHANGED <<registry, child, session, staged, staging, leaked, scanning, crashes>>

\* GraphStore.write of the file it has open.  What a session over that file has cached
\* stays.
OrphanCommits(o) ==
  /\ o.open
  /\ disk' = [p \in H!Paths |-> IF p \in o.at THEN Earlier ELSE disk[p]]
  /\ orphans' = orphans \ {o}
  /\ UNCHANGED <<registry, child, session, staged, staging, leaked, scanning, crashes>>

\* It comes back to its event loop, finds the channel closed and exits; or SQLite refused
\* to write a file that was moved, or one that another connection has locked.
OrphanExits(o) ==
  /\ orphans' = orphans \ {o}
  /\ UNCHANGED <<vars, crashes>>

\* The directory is as earlier processes left it: a live graph or none, and staged
\* databases nobody owns.
RInit ==
  /\ R!Init /\ W!WInit /\ scanning = {}
  /\ disk \in [H!Paths -> Leftovers]
  /\ leaked = {p \in 1 .. MaxStaged : disk[p] # NoFile}
  /\ session = NoSession /\ staged = 0
  /\ staging = [id \in Ids |-> H!Unbound]
  /\ crashes = 0 /\ orphans = {}

RNext ==
  \/ Next /\ orphans' = {Followed(o) : o \in orphans} /\ UNCHANGED crashes
  \/ Crash
  \/ \E o \in orphans : OrphanOpens(o) \/ OrphanCommits(o) \/ OrphanExits(o)

RSpec == RInit /\ [][RNext]_rvars /\ Fairness
-----------------------------------------------------------------------------
(* Properties *)

\* Once a graph is live there is always a whole one to serve: neither a crash, nor a
\* worker that outlives its process and writes a database the next one has adopted or
\* handed out again, nor one left behind ever puts an empty one in its place.
GraphIsNeverLost ==
  [][disk[H!Live] \in Graphs => disk'[H!Live] \in Graphs]_rvars
=============================================================================
