--------------------------- MODULE WorkerExecutor ---------------------------
(***************************************************************************)
(* apps/api/src/worker-executor.ts and apps/api/bin/analysis-worker.js:    *)
(* one child process per attempt, the IPC channel it reports on, and the   *)
(* supervision of both.  The child runs RepositoryAnalyzer, whose stages   *)
(* appear here as the points where a kill leaves something behind.         *)
(*                                                                         *)
(* Three things happen on their own clocks: the child computes and dies,   *)
(* messages arrive in the order they were sent, and the exit of the child  *)
(* is noticed.  Node does not order the last two: an exit may be noticed   *)
(* while messages are still unread.                                        *)
(*                                                                         *)
(* What the supervisor does on an event is given as the new value of child *)
(* (Noticed..., Taken...), because the registry reacts in the same turn    *)
(* of the event loop; AnalysisService puts the two together.               *)
(***************************************************************************)
EXTENDS Naturals, Sequences

CONSTANTS Ids, Attempts

Workers == Ids \X Attempts    \* one child for each attempt of each job

VARIABLE child

\* How far the child has come.  "clone": the workspace exists; "scan": the graph
\* store has been opened; "wrote": the graph is committed; "sent": it has said
\* "done" and is about to exit.
Unborn   == "unborn"
Working  == {"starting", "clone", "scan", "wrote"}
Living   == Working \cup {"sent"}
Progress == Living \cup {Unborn, "dead"}

\* What "done" carries: a result ("none" failed), a failure's code, or "threw" for
\* a defect.  "other" stands for the failures no second attempt would change.
CloneFailures == {"clone-failed", "analysis-timeout"}
Reports       == {"none", "other", "threw"} \cup CloneFailures

Child == [at        : Progress,
          inbox     : Seq({"stage"} \cup Reports),  \* sent and not yet read
          workspace : BOOLEAN,   \* its temporary clone is on disk
          hardKill  : BOOLEAN,   \* onAbort's SIGKILL timer is set
          exitSeen  : BOOLEAN,   \* the exit event has been handled
          settled   : BOOLEAN]   \* the guard in finish

NoChild == [at |-> Unborn, inbox |-> <<>>, workspace |-> FALSE,
            hardKill |-> FALSE, exitSeen |-> FALSE, settled |-> FALSE]

Forked == [NoChild EXCEPT !.at = "starting"]

WInit == child = [w \in Workers |-> NoChild]

Unsettled(w) == child[w].at # Unborn /\ ~child[w].settled

-----------------------------------------------------------------------------
(* The child's own steps *)

\* analyze: validate, then the workspace, then the clone.  The listener only passes
\* on that the attempt has stages to show, so the model sends the first of them.
StartClone(w) ==
  /\ child[w].at = "starting"
  /\ child' = [child EXCEPT ![w].at = "clone", ![w].workspace = TRUE,
                            ![w].inbox = Append(@, "stage")]

\* The clone is on disk and the scan opens the graph store.
StartScan(w) ==
  /\ child[w].at = "clone"
  /\ child' = [child EXCEPT ![w].at = "scan"]

\* The one transaction of GraphStore.write.
Commit(w) ==
  /\ child[w].at = "scan"
  /\ child' = [child EXCEPT ![w].at = "wrote"]

\* Disposes of the workspace and answers.  With the graph committed, all that can
\* still fail is opening it.
Answer(w, report) ==
  /\ \/ child[w].at \in {"starting", "clone"} /\ report # "none"
     \/ child[w].at = "scan" /\ report \in {"other", "threw"}
     \/ child[w].at = "wrote" /\ report \in {"none", "other"}
  /\ child' = [child EXCEPT ![w].at = "sent", ![w].workspace = FALSE,
                            ![w].inbox = Append(@, report)]

\* The child is gone: it exits after answering, runs out of memory, or dies of a
\* SIGTERM it has no handler for.  A process that dies disposes of nothing.
Dies(w) ==
  /\ child[w].at \in Living
  /\ child' = [child EXCEPT ![w].at = "dead"]

\* Seeded fault: the escalation is forgotten, a worker that holds its thread stays.
HardKillForgotten(w) ==
  /\ child[w].hardKill
  /\ child' = [child EXCEPT ![w].hardKill = FALSE]

\* onAbort's timer: SIGKILL two seconds after the SIGTERM.
HardKills(w) ==
  /\ child[w].hardKill
  /\ child' = [child EXCEPT ![w].hardKill = FALSE,
                            ![w].at = IF @ \in Living THEN "dead" ELSE @]

-----------------------------------------------------------------------------
(* The supervisor's events *)

Report(w) == Head(child[w].inbox)

StageArrives(w) == child[w].inbox # <<>> /\ Report(w) = "stage"
DoneArrives(w)  == child[w].inbox # <<>> /\ Report(w) # "stage"
ExitArrives(w)  == child[w].at = "dead" /\ ~child[w].exitSeen

\* fork failed: there is no process, so the error event is all that will come.
SpawnFails(w) == child[w].at = "starting" /\ child[w].inbox = <<>>

\* finish: the promise settles once and the abort listener goes.  The SIGTERM sent
\* after it, to a child not known to have exited, is one more way to reach Dies.
Finished(c) == [c EXCEPT !.settled = TRUE]

TakenStage(w) == [child EXCEPT ![w].inbox = Tail(@)]
TakenDone(w)  == [TakenStage(w) EXCEPT ![w] = Finished(@)]
NoticedExit(w) == [child EXCEPT ![w] = Finished([@ EXCEPT !.exitSeen = TRUE])]

NoticedError(w) ==
  [child EXCEPT ![w] = Finished([@ EXCEPT !.at = "dead", !.exitSeen = TRUE])]

\* onAbort, if the promise is still pending: SIGTERM now, SIGKILL later.
Signalled(c) == IF c.settled THEN c ELSE [c EXCEPT !.hardKill = TRUE]

\* What the registry asked for in the same turn: new children for the attempts it
\* began, and a kill for those it aborted.
Supervised(c, begun, aborted) ==
  [w \in Workers |-> IF w \in begun THEN Forked
                     ELSE IF w \in aborted THEN Signalled(c[w]) ELSE c[w]]
=============================================================================
