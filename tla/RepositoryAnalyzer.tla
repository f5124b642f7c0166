-------------------------- MODULE RepositoryAnalyzer --------------------------
(***************************************************************************)
(* The analysis workflow around the scan: validate, workspace, probe,      *)
(* clone, scan, load, dispose (packages/analysis/src/repository-analyzer.ts*)
(* with git-cloner.ts, github-probe.ts, github-url.ts and workspace.ts).   *)
(*                                                                         *)
(* One analysis runs on a checkout of its own and into a database of its   *)
(* own; or, with no analysis, the same pipeline serves somebody scanning   *)
(* the checkout they work in.  That the process is killed under an analysis*)
(* is AnalysisService's matter.                                            *)
(***************************************************************************)
EXTENDS ScanPipeline

Stages == <<"validate", "clone", "scan", "load", "complete">>

VARIABLES job,               \* where the workflow stands, and what it returned
          stages,            \* the stage list, as StageTracker keeps it
          workspace,         \* the temporary directory
          git                \* the child process that clones into it

workflow == <<job, stages, workspace, git>>
aVars    == <<scanVars, workflow>>

NoFailure == "none"
Pending   == [s \in ToSet(Stages) |-> "pending"]

-----------------------------------------------------------------------------
(* StageTracker *)

Step(from, to) == job.phase = from /\ job' = [job EXCEPT !.phase = to]

\* finish(done) and begin(next), in one stretch.
Moves(done, next) == stages' = [stages EXCEPT ![done] = "done", ![next] = "active"]

\* Seeded fault: what was still to come stays "pending" after a failure.
FailedLeavesPending(stage) == [stages EXCEPT ![stage] = "failed"]

\* fail(name): the stage failed, and those still to come were skipped.
Failed(stage) ==
  [s \in DOMAIN stages |-> IF s = stage THEN "failed"
                           ELSE IF stages[s] = "pending" THEN "skipped" ELSE stages[s]]

\* The workflow returns a failure; what follows depends on whether there is a workspace.
Gives(stage, code, to) ==
  /\ stages' = Failed(stage)
  /\ job' = [job EXCEPT !.phase = to, !.failure = code]

-----------------------------------------------------------------------------
(* Before the clone *)

RejectsUrl ==
  /\ job.phase = "submitted" /\ Gives("validate", "invalid-url", "ended")
  /\ UNCHANGED <<scanVars, workspace, git>>

AcceptsUrl ==
  /\ Step("submitted", "making workspace")
  /\ stages' = [stages EXCEPT !["validate"] = "done"]
  /\ UNCHANGED <<scanVars, workspace, git>>

NoWorkspace ==
  /\ job.phase = "making workspace" /\ Gives("clone", "clone-failed", "ended")
  /\ UNCHANGED <<scanVars, workspace, git>>

MakesWorkspace ==
  /\ Step("making workspace", "probing")
  /\ workspace' = "empty" /\ stages' = [stages EXCEPT !["clone"] = "active"]
  /\ UNCHANGED <<scanVars, git>>

\* "missing", or a 200 that says private.
ProbeFindsNothing ==
  /\ job.phase = "probing" /\ Gives("clone", "repository-not-found", "disposing")
  /\ UNCHANGED <<scanVars, workspace, git>>

\* "public"; "unknown" after any error, its own timeout and an abort included.
ProbeFallsThrough ==
  /\ Step("probing", "cloning")
  /\ git' = IF job.aborted THEN "exited" ELSE "running"
  /\ UNCHANGED <<scanVars, stages, workspace>>

-----------------------------------------------------------------------------
(* The clone: git, its deadline, its size and the user *)

Live == {"running", "terminated"}

\* git writes as it goes; it may also hang for ever.
GitWrites ==
  /\ git \in Live /\ workspace = "empty" /\ workspace' = "partial"
  /\ UNCHANGED <<scanVars, job, stages, git>>

\* Seeded fault: no deadline is given to the child process.
NeverTimesOut == FALSE /\ UNCHANGED aVars

\* execFile's timeout sends SIGTERM.
TimesOut ==
  /\ git = "running" /\ git' = "terminated"
  /\ UNCHANGED <<scanVars, job, stages, workspace>>

\* watchSize sends SIGKILL, until the child has closed.
Exceeds ==
  /\ git \in Live /\ workspace = "partial" /\ git' = "killed"
  /\ UNCHANGED <<scanVars, job, stages, workspace>>

\* The exit is classified by the signal that was sent, then by what git wrote.
CloneFails(code) ==
  /\ job.phase = "cloning"
  /\ CASE git = "killed"     -> code = "repository-too-large"
       [] git = "terminated" -> code = "analysis-timeout"
       [] git = "running"    -> code \in {"clone-failed", "network-failed",
                                          "repository-not-found", "repository-private"}
       [] git = "exited"     -> code = "clone-failed"
  /\ git' = "exited"
  /\ Gives("clone", code, "disposing")
  /\ UNCHANGED <<scanVars, workspace>>

\* An exit with status 0 counts, even after the deadline; the scan begins at once.
CloneSucceeds ==
  /\ git \in Live /\ git' = "exited"
  /\ Step("cloning", "scanning")
  /\ workspace' = "cloned" /\ Moves("clone", "scan")
  /\ scan' = NewScan(FALSE) /\ scans' = scans + 1
  /\ UNCHANGED <<world, db, edits, mishaps>>

\* An abort ends the clone at once, and git some time later; it does not reach the scan.
Aborts ==
  /\ job.phase \notin {"none", "ended"} /\ ~job.aborted
  /\ IF job.phase = "cloning" /\ git \in Live
       THEN /\ stages' = Failed("clone") /\ git' = "orphaned"
            /\ job' = [job EXCEPT !.aborted = TRUE, !.phase = "disposing",
                                  !.failure = "clone-failed"]
       ELSE job' = [job EXCEPT !.aborted = TRUE] /\ UNCHANGED <<stages, git>>
  /\ UNCHANGED <<scanVars, workspace>>

OrphanExits ==
  /\ git = "orphaned" /\ git' = "exited"
  /\ UNCHANGED <<scanVars, job, stages, workspace>>

-----------------------------------------------------------------------------
(* After the clone *)

\* classifyScan.
ScanFails ==
  /\ job.phase = "scanning" /\ scan.phase = "failed"
  /\ Gives("scan", IF scan.why = "empty" THEN "empty-repository" ELSE "pipeline-failed",
           "disposing")
  /\ UNCHANGED <<scanVars, workspace, git>>

\* Seeded fault: the workflow goes on while the scan runs.
ScanIsNotAwaited ==
  /\ Step("scanning", "loading") /\ Moves("scan", "load")
  /\ UNCHANGED <<scanVars, workspace, git>>

ScanReturns ==
  /\ scan.phase = "done"
  /\ Step("scanning", "loading") /\ Moves("scan", "load")
  /\ UNCHANGED <<scanVars, workspace, git>>

LoadFails ==
  /\ job.phase = "loading" /\ Gives("load", "pipeline-failed", "disposing")
  /\ UNCHANGED <<scanVars, workspace, git>>

Loads ==
  /\ Step("loading", "disposing")
  /\ stages' = [stages EXCEPT !["load"] = "done", !["complete"] = "done"]
  /\ UNCHANGED <<scanVars, workspace, git>>

\* Every way out passes through here once there is a workspace; rm may fail.
Disposes(removed) ==
  /\ job.phase = "disposing"
  /\ workspace' = IF removed THEN "gone" ELSE "leaked"
  /\ job' = [job EXCEPT !.phase = "ended", !.warning = ~removed]
  /\ UNCHANGED <<scanVars, stages, git>>

-----------------------------------------------------------------------------
NoJob == [phase |-> "none", failure |-> NoFailure, warning |-> FALSE, aborted |-> FALSE]

Init ==
  /\ ScanInit
  /\ \/ job = NoJob
     \/ job = [NoJob EXCEPT !.phase = "submitted"] /\ db.schema = "absent"
  /\ stages = IF job = NoJob THEN Pending ELSE [Pending EXCEPT !["validate"] = "active"]
  /\ workspace = "none" /\ git = "none"

\* The command line: the pipeline in a checkout somebody is working in.
Locally == job.phase = "none" /\ ScanNext /\ UNCHANGED workflow

Scanning == job.phase = "scanning" /\ ScanStep /\ UNCHANGED workflow

Works ==
  \/ RejectsUrl \/ AcceptsUrl \/ NoWorkspace \/ MakesWorkspace
  \/ ProbeFindsNothing \/ ProbeFallsThrough
  \/ \E code \in {"repository-too-large", "analysis-timeout", "clone-failed",
                  "network-failed", "repository-not-found", "repository-private"} :
       git # "running" /\ CloneFails(code)
  \/ ScanFails \/ ScanReturns \/ LoadFails \/ Loads
  \/ \E removed \in BOOLEAN : Disposes(removed)

GitActs ==
  \/ GitWrites \/ CloneSucceeds \/ OrphanExits \/ Exceeds
  \/ \E code \in {"clone-failed", "network-failed", "repository-not-found",
                  "repository-private"} : git = "running" /\ CloneFails(code)

Next == Locally \/ Scanning \/ Works \/ TimesOut \/ GitActs \/ Aborts

\* Every wait of the workflow but the clone ends by itself, the probe by its own
\* timeout; a child that was sent a signal exits.  git itself may hang.
Fairness == WF_aVars(Works) /\ WF_aVars(Scanning) /\ WF_aVars(TimesOut)

Spec == Init /\ [][Next]_aVars /\ Fairness
-----------------------------------------------------------------------------
(* Properties *)

\* The stage list tells the outcome at every moment a client may poll it: nothing is
\* active beside a failure or before something pending was passed over, and an ended
\* workflow shows either every stage done or one failed and the rest skipped.
StagesTellTheOutcome ==
  LET at(status) == {i \in 1 .. Len(Stages) : stages[Stages[i]] = status}
  IN /\ \A i, j \in at("active") \cup at("failed") : i = j
     /\ \A i \in at("done") : 1 .. i \subseteq at("done")
     /\ (at("failed") # {}) = (job.failure # NoFailure)
     /\ job.phase = "ended" => at("active") \cup at("pending") = {}

\* The checkout is on disk, whole, while the scan reads it, and nothing is left behind
\* unreported when the workflow has ended, however it ended.
WorkspaceIsThereForItsReaders ==
  /\ job.phase # "none" /\ scan.phase \notin Resting => workspace = "cloned"
  /\ job.phase = "ended" => workspace \in {"none", "gone"} \/ job.warning

\* An analysis ends although git hangs and nobody aborts it.
EveryAnalysisEnds == job.phase = "submitted" ~> job.phase = "ended"
=============================================================================
