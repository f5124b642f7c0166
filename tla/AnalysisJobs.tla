---------------------------- MODULE AnalysisJobs ----------------------------
(***************************************************************************)
(* What the analysis registry promises its callers, with no queue and no   *)
(* executor: every submission goes through the statuses of AnalysisStatus  *)
(* (packages/analysis/src/types.ts), never more than Concurrency of them   *)
(* hold a worker, a stop requested by the user is never reported as        *)
(* anything but a cancellation, and a settled job does not move again      *)
(* until the history forgets it.                                           *)
(*                                                                         *)
(* One step of the registry may move several jobs at once: settling one    *)
(* hands its worker to the next, and accepting one may forget an old one.  *)
(***************************************************************************)
EXTENDS Naturals, FiniteSets

CONSTANTS Ids,          \* job ids, in the order they are handed out
          Concurrency   \* how many jobs may hold a worker at once

Settled == {"succeeded", "failed", "cancelled"}
Phases  == {"unborn", "queued", "running", "forgotten"} \cup Settled

VARIABLES phase,        \* phase[id]: where the submission stands
          stopped       \* stopped[id]: the user asked for it to be stopped

vars == <<phase, stopped>>

Active == {id \in Ids : phase[id] = "running"}

Init == /\ phase = [id \in Ids |-> "unborn"]
        /\ stopped = [id \in Ids |-> FALSE]

(***************************************************************************)
(* The moves one job may make in one step.  There is no way back from      *)
(* "running" to "queued": an automatic retry keeps the worker it had.      *)
(***************************************************************************)
Born(id)    == phase[id] = "unborn"  /\ phase'[id] \in {"queued", "running"}
Begins(id)  == phase[id] = "queued"  /\ phase'[id] = "running"
Settles(id) == /\ phase[id] \in {"queued", "running"}
               /\ phase'[id] \in Settled
               /\ phase'[id] = "cancelled" <=> stopped'[id]
               /\ phase[id] = "queued" => stopped'[id]
Forgets(id) == phase[id] \in Settled /\ phase'[id] = "forgotten"
Stays(id)   == phase'[id] = phase[id]

(***************************************************************************)
(* A stop is only ever requested of a job that has not settled, and is     *)
(* never withdrawn while the job is remembered.                            *)
(***************************************************************************)
StopIsSound(id) == \/ stopped'[id] = stopped[id]
                   \/ stopped'[id] /\ phase[id] \in {"queued", "running"}
                   \/ ~stopped'[id] /\ phase'[id] = "forgotten"

Next == /\ \A id \in Ids :
              /\ \/ Born(id) \/ Begins(id) \/ Settles(id)
                 \/ Forgets(id) \/ Stays(id)
              /\ StopIsSound(id)
        /\ phase' \in [Ids -> Phases]
        /\ stopped' \in [Ids -> BOOLEAN]
        /\ Cardinality(Active') <= Concurrency

Spec == Init /\ [][Next]_vars
=============================================================================
