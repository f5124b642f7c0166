----------------------------- MODULE GraphHolder -----------------------------
(***************************************************************************)
(* apps/api/src/graph-holder.ts: the one piece of mutable state the API    *)
(* owns, which graph is open, and the database files beside it: the live   *)
(* one and those staged for analyses.                                      *)
(*                                                                         *)
(* A database is represented by what it holds: nothing (no file), a schema *)
(* and no repository (Blank, what GraphStore.open leaves at a new path),   *)
(* or one whole graph.  GraphStore.write is one SQLite transaction, so no  *)
(* other content is ever seen.  Every action is one method on the event    *)
(* loop: each of them runs to its end without yielding.                    *)
(***************************************************************************)
EXTENDS Naturals

CONSTANTS Jobs,         \* ids a staged database may be bound to
          Graphs,       \* the graphs analyses and scans produce
          MaxStaged,    \* how often the model calls stage()
          NoFile, Blank, NoSession

Live  == 0                       \* databasePath
Paths == {Live} \cup 1 .. MaxStaged
Unbound == 0                     \* a job #staging holds no path for

Contents == Graphs \cup {NoFile, Blank}

VARIABLES disk,      \* what each database file holds
          session,   \* the graph #open reads, or NoSession
          staged,    \* the #staged counter
          staging,   \* #staging: the path bound to a job
          leaked     \* staged files whose rename or removal failed

vars == <<disk, session, staged, staging, leaked>>

TypeOK ==
  /\ disk \in [Paths -> Contents]
  /\ session \in Graphs \cup {Blank, NoSession}
  /\ staged \in 0 .. MaxStaged
  /\ staging \in [Jobs -> 0 .. MaxStaged]
  /\ leaked \subseteq 1 .. MaxStaged

Init ==
  /\ disk = [p \in Paths |-> NoFile]
  /\ session = NoSession
  /\ staged = 0
  /\ staging = [j \in Jobs |-> Unbound]
  /\ leaked = {}

-----------------------------------------------------------------------------
(* Opening the live graph *)

\* #openNow over what the live path holds, without the error of #reopenQuietly.
Opened(content) == IF content = NoFile THEN NoSession ELSE content

\* capabilities() and isScanned(): opened on first use, kept afterwards.
Read ==
  /\ session = NoSession /\ disk[Live] # NoFile
  /\ session' = Opened(disk[Live])
  /\ UNCHANGED <<disk, staged, staging, leaked>>

\* The writer of any path opens its store, which creates the file when it is new.
Create(p) == disk' = [disk EXCEPT ![p] = IF @ = NoFile THEN Blank ELSE @]

\* A whole graph replaces whatever the path held.
Write(p, g) == disk' = [disk EXCEPT ![p] = g]

\* reopen(): close, then open what is there now.
Reopen == session' = Opened(disk'[Live])

-----------------------------------------------------------------------------
(* Staged databases *)

\* stage() and, once the job has an id, bind().
StageFor(j) ==
  /\ staged < MaxStaged
  /\ staged' = staged + 1
  /\ staging' = [staging EXCEPT ![j] = staged']
  /\ UNCHANGED <<disk, session, leaked>>

\* A path nothing was written to is given up again: stage(), discard().
StageInVain ==
  /\ staged < MaxStaged
  /\ staged' = staged + 1
  /\ UNCHANGED <<disk, session, staging, leaked>>

\* Seeded fault: the file is replaced under the open session.
AdoptWithoutReopening(p) ==
  \/ /\ disk[p] # NoFile
     /\ disk' = [disk EXCEPT ![Live] = disk[p], ![p] = NoFile]
     /\ UNCHANGED <<session, leaked>>
  \/ /\ leaked' = leaked \cup {p}
     /\ UNCHANGED <<disk, session>>

\* adopt(): close, rename, reopen.  A rename that fails leaves both files.
Adopt(p) ==
  \/ /\ disk[p] # NoFile
     /\ disk' = [disk EXCEPT ![Live] = disk[p], ![p] = NoFile]
     /\ session' = Opened(disk[p])
     /\ UNCHANGED leaked
  \/ /\ session' = Opened(disk[Live])
     /\ leaked' = leaked \cup {p}
     /\ UNCHANGED disk

\* discard(): a removal that fails is not reported.
Discard(p) ==
  /\ \/ disk' = [disk EXCEPT ![p] = NoFile] /\ UNCHANGED leaked
     \/ leaked' = leaked \cup {p} /\ UNCHANGED disk
  /\ UNCHANGED session

\* Seeded faults: a failed job's file is adopted, is left behind.
SettleAdoptsAlways(j, succeeded) ==
  LET p == staging[j]
  IN  /\ staging' = [staging EXCEPT ![j] = Unbound]
      /\ UNCHANGED staged
      /\ IF p = Unbound THEN UNCHANGED <<disk, session, leaked>> ELSE Adopt(p)

SettleDiscardsNothing(j, succeeded) ==
  LET p == staging[j]
  IN  /\ staging' = [staging EXCEPT ![j] = Unbound]
      /\ UNCHANGED staged
      /\ IF p # Unbound /\ succeeded THEN Adopt(p)
         ELSE UNCHANGED <<disk, session, leaked>>

\* settle(): the job ended, and its output becomes the graph or becomes rubbish.
Settle(j, succeeded) ==
  LET p == staging[j]
  IN  /\ staging' = [staging EXCEPT ![j] = Unbound]
      /\ UNCHANGED staged
      /\ IF p = Unbound THEN UNCHANGED <<disk, session, leaked>>
         ELSE IF succeeded THEN Adopt(p) ELSE Discard(p)
=============================================================================
