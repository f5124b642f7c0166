----------------------------- MODULE WebAnalysis -----------------------------
(***************************************************************************)
(* One repository analysis followed to completion by the page:             *)
(* apps/web/src/hooks/use-analysis.ts, as the dialog uses it               *)
(* (components/domain/analysis/analysis-dialog.tsx), against a server that *)
(* keeps the promise of AnalysisJobs and may be restarted.                 *)
(*                                                                         *)
(* The page polls: a timer fires, a request goes out, a reply comes back   *)
(* and sets the next timer.  Closing the dialog clears the timer, but not  *)
(* a request that is out; its reply finds the page as it is by then.       *)
(*                                                                         *)
(* The names that WebChat has too (Init, Next, ...) say Dialog here:       *)
(* WebProofs extends both modules.                                         *)
(***************************************************************************)
EXTENDS Naturals, FiniteSets

CONSTANTS JobIds, Concurrency,   \* see AnalysisJobs
          MaxStarts,          \* submissions of this page the model allows
          MaxErrors,          \* replies that are lost to the network or a 5xx
          MaxRestarts         \* how often the API forgets everything

ASSUME JobIdsAssumption == JobIds \subseteq Nat \ {0}
ASSUME DialogBoundsAssumption ==
  /\ MaxStarts \in Nat /\ MaxErrors \in Nat /\ MaxRestarts \in Nat
  /\ IsFiniteSet(JobIds) /\ MaxStarts <= Cardinality(JobIds)

NoId == 0

VARIABLES phase, stopped,      \* the server's jobs
          job,                 \* what the page shows: an id and a status, or none
          busy, submitError,
          timers, current,     \* polls waiting to be made; timer.current
          gone,                \* cancelled.current: the page was left
          requests,            \* sent and not yet taken back, with their replies
          starts, errors, restarts

server == <<phase, stopped>>
shown  == <<job, busy, submitError>>
counts == <<starts, errors, restarts>>
dialogVars == <<server, shown, timers, current, gone, requests, counts>>

Jobs == INSTANCE AnalysisJobs WITH Ids <- JobIds

-----------------------------------------------------------------------------
(* Vocabulary *)

Job      == [id : JobIds, status : Jobs!Phases]
NoJob    == [id |-> NoId, status |-> "none"]
Ended    == {"succeeded", "failed"}        \* what ends the poll
Tracked  == Jobs!Phases \ {"unborn", "forgotten"}

\* id: the job asked for; for a submission, its number among the page's.
Request  == [kind : {"start", "get"}, id : Nat, reply : Job \cup {NoJob},
             outcome : {"waiting", "job", "notFound", "error"}]

Sent(kind, id) == [kind |-> kind, id |-> id, reply |-> NoJob, outcome |-> "waiting"]

-----------------------------------------------------------------------------
(* The server *)

\* One job moves as AnalysisJobs allows; a new one takes the lowest id that is free.
Moves(id, next, stop) ==
  /\ phase' = [phase EXCEPT ![id] = next]
  /\ stopped' = [stopped EXCEPT ![id] = stop]
  /\ Jobs!Next

Accepted(id) ==
  /\ phase[id] = "unborn" /\ \A i \in JobIds : i < id => phase[i] # "unborn"
  /\ \E next \in {"queued", "running"} : Moves(id, next, FALSE)

\* A job begins or settles, or is cancelled by another client.  That the history
\* forgets it looks to the page as a restart does: the id is not known any more.
Works(id) ==
  /\ phase[id] \in {"queued", "running"}
  /\ \E next \in {"queued", "running"} \cup Jobs!Settled, stop \in BOOLEAN :
       (next # phase[id] \/ stop # stopped[id]) /\ Moves(id, next, stop)
  /\ UNCHANGED <<shown, timers, current, gone, requests, counts>>

\* The job ids begin again with the new process.
Restarts ==
  /\ restarts < MaxRestarts /\ restarts' = restarts + 1
  /\ phase' = [id \in JobIds |-> "unborn"] /\ stopped' = [id \in JobIds |-> FALSE]
  /\ UNCHANGED <<shown, timers, current, gone, requests, starts, errors>>

Replies(r, outcome, reply) ==
  requests' = (requests \ {r}) \cup {[r EXCEPT !.outcome = outcome, !.reply = reply]}

Accepts(r) ==
  /\ r.outcome = "waiting" /\ r.kind = "start"
  /\ \E id \in JobIds : /\ Accepted(id)
                     /\ Replies(r, "job", [id |-> id, status |-> phase'[id]])
  /\ UNCHANGED <<shown, timers, current, gone, counts>>

Answers(r) ==
  /\ r.outcome = "waiting" /\ r.kind = "get"
  /\ IF phase[r.id] \in Tracked
       THEN Replies(r, "job", [id |-> r.id, status |-> phase[r.id]])
       ELSE Replies(r, "notFound", NoJob)
  /\ UNCHANGED <<server, shown, timers, current, gone, counts>>

Errs(r) ==
  /\ r.outcome = "waiting"
  /\ errors < MaxErrors /\ errors' = errors + 1
  /\ Replies(r, "error", NoJob)
  /\ UNCHANGED <<server, shown, timers, current, gone, starts, restarts>>

-----------------------------------------------------------------------------
(* The hook *)

\* poll(id): timer.current remembers the last timer set, whatever became of others.
Poll(id) == timers' = timers \cup {id} /\ current' = id

NoPoll == UNCHANGED <<timers, current>>

\* stop().
StopTimer == timers' = timers \ {current} /\ current' = NoId

Analyze ==
  /\ ~gone /\ ~busy /\ starts < MaxStarts
  /\ starts' = starts + 1
  /\ StopTimer
  /\ busy' = TRUE /\ submitError' = FALSE
  /\ requests' = requests \cup {Sent("start", starts')}
  /\ UNCHANGED <<server, job, gone, errors, restarts>>

\* The dialog was closed: a fresh form.
Reset ==
  /\ ~gone
  /\ StopTimer
  /\ job' = NoJob /\ busy' = FALSE /\ submitError' = FALSE
  /\ UNCHANGED <<server, gone, requests, counts>>

Leave ==
  /\ ~gone /\ gone' = TRUE
  /\ StopTimer
  /\ UNCHANGED <<server, shown, requests, counts>>

TimerFires(id) ==
  /\ id \in timers
  /\ timers' = timers \ {id}
  /\ requests' = IF gone THEN requests ELSE requests \cup {Sent("get", id)}
  /\ UNCHANGED <<server, shown, current, gone, counts>>

\* A job came back, to analyze or to a poll: it is shown, and followed unless it ended.
Follow(next) ==
  /\ job' = next
  /\ IF next.status \in Ended
       THEN busy' = FALSE /\ NoPoll
       ELSE UNCHANGED busy /\ Poll(next.id)
  /\ UNCHANGED submitError

GiveUp == busy' = FALSE /\ submitError' = TRUE /\ UNCHANGED job /\ NoPoll

\* Seeded fault: a poll that failed is not repeated.
BlipEndsPolling(r) ==
  /\ r.outcome = "error" /\ r.kind = "get"
  /\ UNCHANGED shown /\ NoPoll

\* "A poll that fails is not an analysis that failed."
Blip(r) ==
  /\ r.outcome = "error" /\ r.kind = "get"
  /\ UNCHANGED shown /\ Poll(r.id)

\* Seeded fault: a job the server does not know is asked for again.
LostIsABlip(r) ==
  /\ r.outcome = "notFound" \/ (r.outcome = "error" /\ r.kind = "start")
  /\ IF r.kind = "get" THEN UNCHANGED shown /\ Poll(r.id) ELSE GiveUp

\* A submission that failed, or a job that is no longer tracked.
Lost(r) ==
  /\ r.outcome = "notFound" \/ (r.outcome = "error" /\ r.kind = "start")
  /\ GiveUp

Followed(r) == r.outcome = "job" /\ Follow(r.reply)

\* A poll looks whether the page is still there; a submission does not.
Returns(r) ==
  /\ r.outcome # "waiting"
  /\ requests' = requests \ {r}
  /\ IF gone /\ r.kind = "get" THEN UNCHANGED shown /\ NoPoll
     ELSE Followed(r) \/ Lost(r) \/ Blip(r)
  /\ UNCHANGED <<server, gone, counts>>

-----------------------------------------------------------------------------
DialogInit ==
  /\ Jobs!Init
  /\ job = NoJob /\ busy = FALSE /\ submitError = FALSE
  /\ timers = {} /\ current = NoId
  /\ gone = FALSE /\ requests = {}
  /\ starts = 0 /\ errors = 0 /\ restarts = 0

DialogNext ==
  \/ \E id \in JobIds : Works(id) \/ TimerFires(id)
  \/ Restarts \/ Analyze \/ Reset \/ Leave
  \/ \E r \in requests : Accepts(r) \/ Answers(r) \/ Errs(r) \/ Returns(r)

\* The browser's timers fire, requests are answered, and the registry keeps
\* EverySubmissionSettles.
Fairness ==
  /\ \A id \in JobIds :
       /\ WF_dialogVars(TimerFires(id))
       /\ WF_dialogVars(Works(id) /\ (Jobs!Begins(id) \/ Jobs!Settles(id)))
  /\ WF_dialogVars(\E r \in requests : Accepts(r))
  /\ \A id \in JobIds : WF_dialogVars(\E r \in requests : r.id = id /\ Answers(r))
  /\ \A n \in JobIds \cup 1 .. MaxStarts :
       WF_dialogVars(\E r \in requests : r.id = n /\ Returns(r))

DialogSpec == DialogInit /\ [][DialogNext]_dialogVars /\ Fairness
-----------------------------------------------------------------------------
(* Properties *)

DialogTypeOK ==
  /\ phase \in [JobIds -> Jobs!Phases] /\ stopped \in [JobIds -> BOOLEAN]
  /\ job \in Job \cup {NoJob}
  /\ busy \in BOOLEAN /\ submitError \in BOOLEAN /\ gone \in BOOLEAN
  /\ timers \subseteq JobIds /\ current \in JobIds \cup {NoId}
  /\ \A r \in requests : r \in Request

\* A page that says it is busy has a request out or a poll to come, after any
\* failure, reset and late reply: it never spins with nothing under way.
BusyIsFollowed == busy /\ ~gone => requests # {} \/ timers # {}

\* A page stops being busy, although polls fail, the server is restarted under it
\* and its job is forgotten.  A job another client cancelled is the one exception.
BusyEnds ==
  busy ~> ~busy \/ gone \/ job.status = "cancelled" \/ \E id \in JobIds : stopped[id]
=============================================================================
