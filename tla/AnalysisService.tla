--------------------------- MODULE AnalysisService ---------------------------
(***************************************************************************)
(* The analysis half of the API as createApp wires it (apps/api/src):      *)
(*   - the endpoints call the registry and the graph holder,               *)
(*   - the registry runs each attempt in a worker process,                 *)
(*   - onSettled adopts or discards the database the job staged,           *)
(*   - POST /scan writes the live database beside all of that.             *)
(*                                                                         *)
(* A turn of the event loop is atomic, so each action joins what the       *)
(* registry does with what its calls do to the workers and to the holder.  *)
(* Worker processes take their own steps in between.                       *)
(***************************************************************************)
EXTENDS Naturals, Sequences, FiniteSets

CONSTANTS MaxJobs, Concurrency, Retries, History,   \* see AnalysisRegistry
          MaxStaged,                                \* see GraphHolder
          Scans,                                    \* repositories POST /scan is given
          Found,                                    \* graphs an earlier process built
          NoFile, Blank, NoSession

VARIABLES sequence, entry, queue, running,          \* the registry
          child,                                    \* the worker processes
          disk, session, staged, staging, leaked,   \* the graph holder
          scanning                                  \* the scans being awaited

R == INSTANCE AnalysisRegistry

Ids      == R!Ids
Attempts == R!Attempts

\* A graph is named after what it describes: the job or the scan that built it.
Graphs == Ids \cup Scans \cup Found

ASSUME RegistryAssumption == /\ MaxJobs \in Nat /\ Concurrency \in Nat \ {0}
                             /\ Retries \in Nat /\ History \in Nat
ASSUME MaxStagedAssumption == MaxStaged \in Nat
ASSUME ContentAssumption == /\ NoFile \notin Graphs /\ Blank \notin Graphs
                            /\ NoSession \notin Graphs
                            /\ NoFile # Blank /\ NoSession # Blank
                            /\ NoFile # NoSession
ASSUME ScanAssumption == Scans \cap Ids = {} /\ Found \cap (Ids \cup Scans) = {}

W == INSTANCE WorkerExecutor
H == INSTANCE GraphHolder WITH Jobs <- Ids

registry == <<sequence, entry, queue, running>>
holder   == <<disk, session, staged, staging, leaked>>
vars     == <<registry, child, holder, scanning>>

-----------------------------------------------------------------------------
(* What a registry step asks of the others *)

\* #run forks a worker for each attempt it begins.
Forks == {w \in W!Workers : /\ entry'[w[1]].attempts = w[2]
                            /\ entry[w[1]].attempts # w[2]
                            /\ entry'[w[1]].status = "running"}

\* A controller aborted in this step reaches the worker of the current attempt.
Aborts == {w \in W!Workers : /\ entry[w[1]].attempts = w[2]
                             /\ entry'[w[1]].aborted /\ ~entry[w[1]].aborted}

\* c is what the event itself made of the workers.
Supervise(c) == child' = W!Supervised(c, Forks, Aborts)

Settling == {id \in Ids : entry'[id].finished /\ ~entry[id].finished}

\* onSettled; at most one job settles in a step.
OnSettled ==
  \/ /\ Settling = {}
     /\ UNCHANGED holder
  \/ \E id \in Settling : H!Settle(id, entry'[id].status = "succeeded")

-----------------------------------------------------------------------------
(* The endpoints *)

\* POST /analysis.
Submit ==
  /\ R!Start
  /\ Supervise(child)
  /\ H!StageFor(sequence')
  /\ UNCHANGED scanning

\* POST /analysis/:id/retry: of a settled job, or of one that has not finished.
RetryJob(id) ==
  /\ R!Retry(id)
  /\ Supervise(child)
  /\ H!StageFor(sequence')
  /\ UNCHANGED scanning

RetryRefused(id) ==
  /\ R!Known(id) /\ ~R!Finished(id)
  /\ H!StageInVain
  /\ UNCHANGED <<registry, child, scanning>>

\* POST /analysis/:id/cancel.
Cancel(id) ==
  /\ R!Cancel(id)
  /\ Supervise(child)
  /\ OnSettled
  /\ UNCHANGED scanning

\* Any endpoint that reads, GET /version included.
Read == H!Read /\ UNCHANGED <<registry, child, scanning>>

\* POST /scan up to where it awaits the analysis: an unchanged repository is
\* answered at once from the stored graph, and looking for one opens the store.
ScanBegins(k) ==
  /\ k \notin scanning
  /\ H!Create(H!Live)
  /\ \/ /\ disk[H!Live] = k
        /\ H!Reopen
        /\ UNCHANGED scanning
     \/ /\ disk[H!Live] # k
        /\ scanning' = scanning \cup {k}
        /\ UNCHANGED session
  /\ UNCHANGED <<registry, child, staged, staging, leaked>>

\* The rest of it: the graph is written and reopened in one turn.
ScanWrites(k) ==
  /\ k \in scanning
  /\ scanning' = scanning \ {k}
  /\ H!Write(H!Live, k)
  /\ H!Reopen
  /\ UNCHANGED <<registry, child, staged, staging, leaked>>

ScanFails(k) ==
  /\ k \in scanning
  /\ scanning' = scanning \ {k}
  /\ UNCHANGED <<registry, child, holder>>

-----------------------------------------------------------------------------
(* Timers, and the events of a worker *)

Deadline(id) ==
  /\ R!Deadline(id)
  /\ Supervise(child)
  /\ UNCHANGED <<holder, scanning>>

HardKills(w) == W!HardKills(w) /\ UNCHANGED <<registry, holder, scanning>>

\* The stage callback is called whether or not the promise has settled.
StageArrives(w) ==
  /\ W!StageArrives(w)
  /\ \/ R!StageReported(w[1], w[2])
     \/ ~R!Known(w[1]) /\ UNCHANGED registry
  /\ child' = W!TakenStage(w)
  /\ UNCHANGED <<holder, scanning>>

\* A defect's text may mention a worker or not, its stack names the worker's file.
DoneArrives(w) ==
  /\ W!DoneArrives(w)
  /\ \/ /\ W!Unsettled(w)
        /\ \/ W!Report(w) # "threw" /\ R!Resolved(w[1], W!Report(w))
           \/ W!Report(w) = "threw" /\ \E c \in R!Causes : R!Rejected(w[1], c)
     \/ ~W!Unsettled(w) /\ UNCHANGED registry
  /\ Supervise(W!TakenDone(w))
  /\ OnSettled
  /\ UNCHANGED scanning

ExitArrives(w) ==
  /\ W!ExitArrives(w)
  /\ \/ W!Unsettled(w) /\ R!Rejected(w[1], "worker")
     \/ ~W!Unsettled(w) /\ UNCHANGED registry
  /\ Supervise(W!NoticedExit(w))
  /\ OnSettled
  /\ UNCHANGED scanning

SpawnFails(w) ==
  /\ W!SpawnFails(w) /\ W!Unsettled(w)
  /\ R!Rejected(w[1], "worker")
  /\ Supervise(W!NoticedError(w))
  /\ OnSettled
  /\ UNCHANGED scanning

-----------------------------------------------------------------------------
(* The worker process on its own *)

StartClone(w) == W!StartClone(w) /\ UNCHANGED <<registry, holder, scanning>>

StartScan(w) ==
  /\ W!StartScan(w)
  /\ H!Create(staging[w[1]])
  /\ UNCHANGED <<registry, session, staged, staging, leaked, scanning>>

Commit(w) ==
  /\ W!Commit(w)
  /\ H!Write(staging[w[1]], w[1])
  /\ UNCHANGED <<registry, session, staged, staging, leaked, scanning>>

Answer(w) == /\ \E report \in W!Reports : W!Answer(w, report)
             /\ UNCHANGED <<registry, holder, scanning>>

Dies(w) == W!Dies(w) /\ UNCHANGED <<registry, holder, scanning>>

-----------------------------------------------------------------------------
Init == R!Init /\ W!WInit /\ H!Init /\ scanning = {}

Next ==
  \/ Submit \/ Read
  \/ \E id \in Ids : RetryJob(id) \/ RetryRefused(id) \/ Cancel(id) \/ Deadline(id)
  \/ \E k \in Scans : ScanBegins(k) \/ ScanWrites(k) \/ ScanFails(k)
  \/ \E w \in W!Workers :
       \/ HardKills(w) \/ StageArrives(w) \/ DoneArrives(w) \/ ExitArrives(w)
       \/ SpawnFails(w) \/ StartClone(w) \/ StartScan(w) \/ Commit(w)
       \/ Answer(w) \/ Dies(w)

\* The event loop and its timers make progress, and the kernel delivers.  Nothing
\* is assumed of the worker: it may compute for ever.
Fairness ==
  /\ \A id \in Ids : WF_vars(Deadline(id))
  /\ \A w \in W!Workers : /\ WF_vars(HardKills(w))
                          /\ WF_vars(StageArrives(w) \/ DoneArrives(w))
                          /\ WF_vars(ExitArrives(w))

Spec == Init /\ [][Next]_vars /\ Fairness
-----------------------------------------------------------------------------
(* Properties *)

TypeOK ==
  /\ R!TypeOK
  /\ child \in [W!Workers -> W!Child]
  /\ H!TypeOK
  /\ scanning \subseteq Scans

\* A process that is computing belongs to the current attempt of a job that holds
\* a slot.  So a staged file never has two writers, no worker writes the file of a
\* settled job, and the pool bounds the processes that need the memory.
WorkersAreSupervised ==
  \A w \in W!Workers : child[w].at \in W!Working =>
    /\ w[1] \in running
    /\ entry[w[1]].attempts = w[2]
    /\ staging[w[1]] # H!Unbound

\* The job a staged database is bound to may still need it.
Needs(id, p) == staging[id] = p /\ R!Known(id) /\ ~R!Finished(id)

\* "Either becomes the graph or becomes rubbish" (settle): a staged database that exists belongs
\* to a job that may still need it, unless the file system refused to move or remove it; and
\* no path is bound to a settled job, or to two.
StagedFilesAreOwned ==
  /\ \A p \in H!Paths \ {H!Live} :
       disk[p] # NoFile => p \in leaked \/ \E id \in Ids : Needs(id, p)
  /\ \A i, j \in Ids : staging[i] # H!Unbound =>
       Needs(i, staging[i]) /\ (staging[i] = staging[j] => i = j)

\* An open session reads the file that is live now, never one that was replaced.
SessionMatchesLive == session # NoSession => session = disk[H!Live]

\* The live graph changes only by a job that succeeds, which installs its own
\* graph, or by a scan.  A job that fails, times out or is cancelled, and a worker
\* that dies half way, leave it alone.
LiveChangesOnSuccess ==
  [][disk'[H!Live] # disk[H!Live] =>
       \/ \E id \in Settling : /\ entry'[id].status = "succeeded"
                               /\ disk'[H!Live] = id
       \/ \E k \in scanning : disk'[H!Live] = k
       \/ disk[H!Live] = NoFile /\ disk'[H!Live] = Blank]_vars

\* A submission settles although its worker may hang, die or never start.
EverySubmissionSettles == R!EverySubmissionSettles
=============================================================================
