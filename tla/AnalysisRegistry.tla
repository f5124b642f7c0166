-------------------------- MODULE AnalysisRegistry --------------------------
(***************************************************************************)
(* packages/analysis/src/analysis-registry.ts: analyses in flight, the     *)
(* ones waiting, and the ones that have finished.                          *)
(*                                                                         *)
(* Every method runs to its end on the event loop, so each action below is *)
(* one method together with everything it calls: settling a job drains the *)
(* queue, draining begins the next attempt.  #run is split where the code  *)
(* awaits: its first half belongs to Drain, its continuation is Resolved   *)
(* or Rejected.                                                            *)
(*                                                                         *)
(* The executor is the environment here.  It may report stages, resolve or *)
(* reject at any time; WorkerExecutor says when the real one does.         *)
(***************************************************************************)
EXTENDS Naturals, Sequences, FiniteSets

CONSTANTS MaxJobs,      \* submissions the model accepts (the code has no limit)
          Concurrency,  \* RegistryOptions.concurrency
          Retries,      \* RegistryOptions.retries
          History       \* RegistryOptions.history

ASSUME MaxJobsAssumption == MaxJobs \in Nat
ASSUME ConcurrencyAssumption == Concurrency \in Nat \ {0}   \* Math.max(1, ...)
ASSUME RetriesAssumption == Retries \in Nat                 \* Math.max(0, ...)
ASSUME HistoryAssumption == History \in Nat

Ids      == 1 .. MaxJobs
Attempts == 1 .. Retries + 1

VARIABLES sequence,   \* the id counter of nextId
          entry,      \* #entries; an id the Map does not hold has status "absent"
          queue,      \* #queue: ids accepted and not yet started, oldest first
          running     \* #running: ids held by a worker

vars == <<sequence, entry, queue, running>>

-----------------------------------------------------------------------------
(* Vocabulary *)

Terminal  == {"succeeded", "failed", "cancelled"}
Statuses  == {"absent", "queued", "running"} \cup Terminal
RETRYABLE == {"clone-failed", "analysis-timeout", "worker-exited"}

\* "other" stands for the failures no second attempt would change; only the
\* registry's own "pipeline-failed" is told apart.
Codes     == RETRYABLE \cup {"pipeline-failed", "other"}

\* What an executor may resolve with (a clone has a time limit of its own), and
\* what its rejection message mentions.
Failures  == {"none", "clone-failed", "analysis-timeout", "other"}
Causes    == {"worker", "defect"}

\* Of an Entry: its job's status, result, error and the attempt whose stages it
\* shows (0 for initialStages()), and the fields the registry steers by.
Entry == [status    : Statuses,
          finished  : BOOLEAN,             \* finishedAt !== null
          attempts  : {0} \cup Attempts,
          timedOut  : BOOLEAN,
          cancelled : BOOLEAN,
          aborted   : BOOLEAN,             \* controller.signal.aborted
          stages    : {0} \cup Attempts,
          result    : BOOLEAN,             \* job.result !== null
          error     : Codes \cup {"none"}]

Submitted == [status |-> "queued", finished |-> FALSE, attempts |-> 0,
              timedOut |-> FALSE, cancelled |-> FALSE, aborted |-> FALSE,
              stages |-> 0, result |-> FALSE, error |-> "none"]

Absent == [Submitted EXCEPT !.status = "absent"]

Known(id)    == entry[id].status # "absent"
Finished(id) == Known(id) /\ entry[id].finished

-----------------------------------------------------------------------------
(* The private methods, over the state the caller has already written:     *)
(* entries e, queue q, running set r.                                      *)

\* The synchronous half of #run.
Begun(x) == [x EXCEPT !.attempts = @ + 1, !.status = "running"]

\* The ids the drain loop starts among the first n it shifts: it skips those
\* that have finished or are gone.
Picked(e, q, n) == {id \in {q[i] : i \in 1 .. n} :
                       e[id].status # "absent" /\ ~e[id].finished}

\* #drain shifts n ids: it went round while there was room, and stopped when
\* there was none or nothing waited.
Drain(e, q, r) ==
  \E n \in 0 .. Len(q) :
    /\ n > 0 => Cardinality(r \cup Picked(e, q, n - 1)) < Concurrency
    /\ n < Len(q) => Cardinality(r \cup Picked(e, q, n)) >= Concurrency
    /\ queue' = SubSeq(q, n + 1, Len(q))
    /\ running' = r \cup Picked(e, q, n)
    /\ entry' = [id \in Ids |-> IF id \in Picked(e, q, n)
                                   THEN Begun(e[id]) ELSE e[id]]

\* Seeded faults: settling keeps the worker, or frees it and starts nobody.
SettleKeepsWorker(id, x, q) ==
  Drain([entry EXCEPT ![id] = [x EXCEPT !.finished = TRUE]], q, running)

SettleWithoutDrain(id, x, q) ==
  /\ entry' = [entry EXCEPT ![id] = [x EXCEPT !.finished = TRUE]]
  /\ queue' = q
  /\ running' = running \ {id}

\* #settle: x is the entry with the job it ends as.
Settle(id, x, q) ==
  Drain([entry EXCEPT ![id] = [x EXCEPT !.finished = TRUE]], q, running \ {id})

\* Seeded fault: the job waits, and nobody looks for the worker it gave back.
RequeueWithoutDrain(id) ==
  /\ entry' = [entry EXCEPT ![id] = [@ EXCEPT !.aborted = FALSE, !.timedOut = FALSE,
                                              !.status = "queued", !.stages = 0,
                                              !.error = "none"]]
  /\ queue' = <<id>> \o queue
  /\ running' = running \ {id}

\* #requeue.
Requeue(id) ==
  Drain([entry EXCEPT ![id] = [@ EXCEPT !.aborted = FALSE, !.timedOut = FALSE,
                                        !.status = "queued", !.stages = 0,
                                        !.error = "none"]],
        <<id>> \o queue,
        running \ {id})

\* #shouldRetry.
ShouldRetry(x, code) == /\ ~x.cancelled
                        /\ x.attempts <= Retries
                        /\ code \in RETRYABLE

\* #prune drops finished jobs, oldest first, while the Map exceeds the history.
Prune(e) ==
  LET held   == {id \in Ids : e[id].status # "absent"}
      oldest(id) == {i \in held : e[i].finished /\ i < id}
      Dropped(id) == /\ id \in held /\ e[id].finished
                     /\ Cardinality(held) > History + Cardinality(oldest(id))
  IN  [id \in Ids |-> IF Dropped(id) THEN Absent ELSE e[id]]

-----------------------------------------------------------------------------
(* The public methods *)

\* Seeded fault: the submission is put at the head of the queue.
StartAtTheFront ==
  /\ sequence < MaxJobs
  /\ sequence' = sequence + 1
  /\ Drain(Prune([entry EXCEPT ![sequence'] = Submitted]),
           <<sequence'>> \o queue,
           running)

Start ==
  /\ sequence < MaxJobs
  /\ sequence' = sequence + 1
  /\ Drain(Prune([entry EXCEPT ![sequence'] = Submitted]),
           Append(queue, sequence'),
           running)

\* The stored request is submitted again, under a new id.
Retry(id) == Finished(id) /\ Start

CancelQueued(id) ==
  \E i \in 1 .. Len(queue) :
    /\ queue[i] = id
    /\ Settle(id, [entry[id] EXCEPT !.cancelled = TRUE, !.status = "cancelled"],
              SubSeq(queue, 1, i - 1) \o SubSeq(queue, i + 1, Len(queue)))

\* Seeded fault: a running job is settled without waiting for its worker.
CancelAtOnce(id) ==
  /\ \A i \in 1 .. Len(queue) : queue[i] # id
  /\ Settle(id, [entry[id] EXCEPT !.cancelled = TRUE, !.aborted = TRUE,
                                  !.status = "cancelled"], queue)

CancelRunning(id) ==
  /\ \A i \in 1 .. Len(queue) : queue[i] # id
  /\ entry' = [entry EXCEPT ![id].cancelled = TRUE, ![id].aborted = TRUE]
  /\ UNCHANGED <<queue, running>>

Cancel(id) ==
  /\ Known(id) /\ ~Finished(id)
  /\ CancelQueued(id) \/ CancelRunning(id)
  /\ UNCHANGED sequence

-----------------------------------------------------------------------------
(* #run, once analyze has been awaited *)

\* The attempt's own timer.  It is cleared when the attempt ends.
Deadline(id) ==
  /\ id \in running /\ ~entry[id].timedOut
  /\ entry' = [entry EXCEPT ![id].timedOut = TRUE, ![id].aborted = TRUE]
  /\ UNCHANGED <<sequence, queue, running>>

\* The stage listener handed to attempt a.  Nothing ends its life with the
\* attempt: it writes to whatever the entry has become.
StageReported(id, a) ==
  /\ Known(id) /\ a \in 1 .. entry[id].attempts
  /\ entry' = [entry EXCEPT ![id].stages = a]
  /\ UNCHANGED <<sequence, queue, running>>

\* Seeded fault: a result that arrives after the user stopped the job counts.
ResolvedDespiteCancel(id, failure) ==
  LET x    == entry[id]
      code == IF x.timedOut THEN "analysis-timeout" ELSE failure
  IN  /\ id \in running
      /\ UNCHANGED sequence
      /\ \/ /\ ShouldRetry(x, code)
            /\ Requeue(id)
         \/ /\ ~ShouldRetry(x, code)
            /\ Settle(id,
                      [x EXCEPT !.status = IF code = "none" THEN "succeeded"
                                                            ELSE "failed",
                                !.result = failure = "none",
                                !.error = code],
                      queue)

\* analyze resolved with an outcome: failure is its failure's code, or "none"
\* for one that carries a result.
Resolved(id, failure) ==
  LET x    == entry[id]
      code == IF x.timedOut THEN "analysis-timeout" ELSE failure
  IN  /\ id \in running
      /\ UNCHANGED sequence
      /\ \/ /\ x.cancelled
            /\ Settle(id, [x EXCEPT !.status = "cancelled"], queue)
         \/ /\ ~x.cancelled /\ ShouldRetry(x, code)
            /\ Requeue(id)
         \/ /\ ~x.cancelled /\ ~ShouldRetry(x, code)
            /\ Settle(id,
                      [x EXCEPT !.status = IF code = "none" THEN "succeeded"
                                                            ELSE "failed",
                                !.result = failure = "none",
                                !.error = code],
                      queue)

\* analyze rejected.
Rejected(id, cause) ==
  LET x    == entry[id]
      code == IF cause = "worker" THEN "worker-exited" ELSE "pipeline-failed"
  IN  /\ id \in running
      /\ UNCHANGED sequence
      /\ \/ /\ x.cancelled
            /\ Settle(id, [x EXCEPT !.status = "cancelled"], queue)
         \/ /\ ~x.cancelled /\ ShouldRetry(x, code)
            /\ Requeue(id)
         \/ /\ ~x.cancelled /\ ~ShouldRetry(x, code)
            /\ Settle(id, [x EXCEPT !.status = "failed",
                                    !.error = "pipeline-failed"], queue)

-----------------------------------------------------------------------------
Init ==
  /\ sequence = 0
  /\ entry = [id \in Ids |-> Absent]
  /\ queue = <<>>
  /\ running = {}

Next ==
  \/ Start
  \/ \E id \in Ids :
       \/ Retry(id)
       \/ Cancel(id)
       \/ Deadline(id)
       \/ \E a \in Attempts : StageReported(id, a)
       \/ \E f \in Failures : Resolved(id, f)
       \/ \E c \in Causes : Rejected(id, c)

\* The executor always answers: the in-process one returns from every path, the
\* process-backed one turns even a dead worker into a rejection.
Answered(id) == \/ \E f \in Failures : Resolved(id, f)
                \/ \E c \in Causes : Rejected(id, c)

Spec == /\ Init /\ [][Next]_vars
        /\ \A id \in Ids : WF_vars(Answered(id))
-----------------------------------------------------------------------------
(* Properties *)

TypeOK ==
  /\ sequence \in 0 .. MaxJobs
  /\ entry \in [Ids -> Entry]
  /\ queue \in Seq(Ids)
  /\ running \subseteq Ids

\* A job is in exactly the place its status says: once in the queue while it is
\* queued, in the running set while it runs, in neither once it has settled.
\* No path through cancel, retry, prune or settle loses or doubles a job.
Consistent(e, q, r) ==
  /\ \A i \in 1 .. Len(q) : e[q[i]].status = "queued"
  /\ \A i, j \in 1 .. Len(q) : q[i] = q[j] => i = j
  /\ \A id \in Ids : e[id].status = "queued" => \E i \in 1 .. Len(q) : q[i] = id
  /\ r = {id \in Ids : e[id].status = "running"}
  /\ \A id \in Ids : e[id].finished <=> e[id].status \in Terminal

Bookkeeping == Consistent(entry, queue, running)

\* The memory decision of RegistryOptions.concurrency: never more analyses at
\* once than the pool allows, whatever settles, retries or is cancelled.
CapacityBound == Cardinality(running) <= Concurrency

\* A submission waits only while every worker is taken; a slot freed by any path
\* goes to whoever waits.
NoIdleWorker == queue # <<>> => Cardinality(running) >= Concurrency

\* First come, first served: while a submission waits, none made after it has
\* been given a worker.
NoOvertaking ==
  \A i, j \in Ids :
    i < j /\ entry[i].status = "queued" => entry[j].attempts = 0

\* "The original stays exactly as it finished" (retry): how a job ended never
\* changes afterwards; it can only be forgotten.  Its stage list is left out,
\* see StageReported.
Outcome(x) == <<x.status, x.finished, x.attempts, x.cancelled, x.result, x.error>>

SettledKeepsOutcome ==
  [][\A id \in Ids :
       Finished(id) => \/ Outcome(entry'[id]) = Outcome(entry[id])
                       \/ entry'[id] = Absent]_vars

\* Every submission settles, if every attempt is eventually answered: none waits
\* or runs for ever, whatever is retried ahead of it.
EverySubmissionSettles ==
  \A id \in Ids : Known(id) ~> ~Known(id) \/ Finished(id)

\* The registry implements what it promises (AnalysisJobs): the phase of a job
\* is its status, and an id that is gone after it was handed out is forgotten.
phase == [id \in Ids |-> IF Known(id) THEN entry[id].status
                         ELSE IF id <= sequence THEN "forgotten" ELSE "unborn"]

stopped == [id \in Ids |-> entry[id].cancelled]

Jobs == INSTANCE AnalysisJobs

ImplementsJobs == Jobs!Spec
=============================================================================
