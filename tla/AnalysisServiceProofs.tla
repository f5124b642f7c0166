------------------------ MODULE AnalysisServiceProofs ------------------------
(***************************************************************************)
(* What holds of the service for every number of jobs, workers, retries,   *)
(* scans and staged files.  The registry's own invariant comes from        *)
(* AnalysisRegistryProofs, with what each of its methods leaves alone      *)
(* (Kept, About); here it is tied to the worker processes and to the       *)
(* database files, which change in the same turns.                         *)
(***************************************************************************)
EXTENDS AnalysisRestart, SequenceTheorems, TLAPS

RP == INSTANCE AnalysisRegistryProofs

-----------------------------------------------------------------------------
(* The registry of the service is the registry of those theorems *)

LEMMA SameDrain ==
  ASSUME NEW e, NEW q, NEW r
  PROVE  R!Drain(e, q, r) <=> RP!Drain(e, q, r)
BY Zenon DEF R!Drain, RP!Drain, R!Picked, RP!Picked, R!Begun, RP!Begun, R!Ids, RP!Ids,
             R!Cardinality, RP!Cardinality

LEMMA SameSettle ==
  ASSUME NEW id, NEW x, NEW q
  PROVE  R!Settle(id, x, q) <=> RP!Settle(id, x, q)
BY SameDrain DEF R!Settle, RP!Settle

LEMMA SameRequeue ==
  ASSUME NEW id
  PROVE  R!Requeue(id) <=> RP!Requeue(id)
BY SameDrain DEF R!Requeue, RP!Requeue

LEMMA SameShouldRetry ==
  ASSUME NEW x, NEW code
  PROVE  R!ShouldRetry(x, code) <=> RP!ShouldRetry(x, code)
BY DEF R!ShouldRetry, RP!ShouldRetry, R!RETRYABLE, RP!RETRYABLE

LEMMA SamePrune ==
  ASSUME NEW e
  PROVE  R!Prune(e) = RP!Prune(e)
BY Zenon DEF R!Prune, RP!Prune, R!Ids, RP!Ids, R!Absent, RP!Absent, R!Submitted, RP!Submitted,
             R!Cardinality, RP!Cardinality

LEMMA SameStart == R!Start <=> RP!Start
<1>1. R!Submitted = RP!Submitted
  BY DEF R!Submitted, RP!Submitted
<1> QED
  BY <1>1, SamePrune, SameDrain, Zenon DEF R!Start, RP!Start

LEMMA SameCancel ==
  ASSUME NEW id
  PROVE  R!Cancel(id) <=> RP!Cancel(id)
<1>1. R!CancelQueued(id) <=> RP!CancelQueued(id)
  BY SameSettle, Zenon DEF R!CancelQueued, RP!CancelQueued
<1>2. R!CancelRunning(id) <=> RP!CancelRunning(id)
  BY Zenon DEF R!CancelRunning, RP!CancelRunning
<1> QED
  BY <1>1, <1>2, Zenon
     DEF R!Cancel, RP!Cancel, R!Known, RP!Known, R!Finished, RP!Finished

LEMMA SameResolved ==
  ASSUME NEW id, NEW f
  PROVE  R!Resolved(id, f) <=> RP!Resolved(id, f)
BY SameSettle, SameRequeue, SameShouldRetry, Zenon DEF R!Resolved, RP!Resolved

LEMMA SameRejected ==
  ASSUME NEW id, NEW c
  PROVE  R!Rejected(id, c) <=> RP!Rejected(id, c)
BY SameSettle, SameRequeue, SameShouldRetry, Zenon DEF R!Rejected, RP!Rejected

LEMMA SameMarks ==
  ASSUME NEW id
  PROVE  /\ R!Deadline(id) <=> RP!Deadline(id)
         /\ \A a : R!StageReported(id, a) <=> RP!StageReported(id, a)
BY Zenon DEF R!Deadline, RP!Deadline, R!StageReported, RP!StageReported, R!Known, RP!Known

-----------------------------------------------------------------------------
(* The inductive invariant *)

Pending(id) == R!Known(id) /\ ~entry[id].finished

\* The attempt that holds its job's slot.
Current(w) == entry[w[1]].status = "running" /\ entry[w[1]].attempts = w[2]

Active(c) == c.at # W!Unborn /\ ~c.settled

\* A child that computes is still waited for, and has sent nothing but stages.
Honest(c) == c.at \in W!Working =>
               ~c.settled /\ \A i \in 1 .. Len(c.inbox) : c.inbox[i] = "stage"

\* It has committed its graph, or said so.
Wrote(c) == c.at = "wrote" \/ \E i \in 1 .. Len(c.inbox) : c.inbox[i] = "none"

ChildrenStand ==
  /\ child \in [W!Workers -> W!Child]
  /\ \A w \in W!Workers : /\ Honest(child[w])
                          /\ Active(child[w]) => Current(w)

\* A path is bound to whatever has not settled, to nothing else and never to two.
FilesStand ==
  /\ H!TypeOK
  /\ \A i \in Ids : /\ Pending(i) <=> staging[i] # H!Unbound
                    /\ staging[i] <= staged
  /\ \A i, j \in Ids : staging[i] # H!Unbound /\ staging[i] = staging[j] => i = j
  /\ \A p \in H!Paths \ {H!Live} :
       disk[p] # NoFile => p \in leaked \/ \E i \in Ids : staging[i] = p

\* What a child says it wrote is there, unless somebody else has put one of F in its place:
\* nobody does in one process, and in the next one a worker of the one before may.
GraphsStand(F) ==
  \A w \in W!Workers :
    Active(child[w]) /\ Wrote(child[w]) => disk[staging[w[1]]] \in {w[1]} \cup F

\* An open session reads what is live, unless somebody has written one of F over it.
SessionStands(F) ==
  session # NoSession => session = disk[H!Live] \/ disk[H!Live] \in F \cap Graphs

SInv(F) ==
  /\ RP!IInv
  /\ ChildrenStand
  /\ FilesStand
  /\ GraphsStand(F)
  /\ SessionStands(F)
  /\ scanning \subseteq Scans

\* What a step leaves of a job it is not about.
Kept(id) ==
  /\ Pending(id)' <=> Pending(id)
  /\ entry'[id].finished => entry[id].finished
  /\ entry[id].status = "running" => /\ entry'[id].status = "running"
                                     /\ entry'[id].attempts = entry[id].attempts

\* The step may end this one, and no other.
About(id) == /\ Pending(id)
             /\ Pending(id)' \/ entry'[id].finished
             /\ \A j \in Ids \ {id} : Kept(j)

LEMMA SameKept ==
  ASSUME NEW id
  PROVE  (RP!Kept(id) <=> Kept(id)) /\ (RP!About(id) <=> About(id))
<1>1. \A j : RP!Kept(j) <=> Kept(j)
  BY Zenon DEF RP!Kept, Kept, RP!Pending, Pending, RP!Known, R!Known
<1> QED
  BY <1>1, Zenon DEF RP!About, About, RP!Pending, Pending, RP!Known, R!Known, RP!Ids, Ids, R!Ids

LEMMA Worker ==
  ASSUME NEW w \in W!Workers
  PROVE  w[1] \in Ids /\ w[2] \in Attempts /\ w = <<w[1], w[2]>>
BY DEF W!Workers

LEMMA ForkedType ==
  /\ W!NoChild \in W!Child /\ W!Forked \in W!Child
  /\ Honest(W!Forked) /\ ~Wrote(W!Forked) /\ Active(W!Forked)
  /\ Honest(W!NoChild) /\ ~Active(W!NoChild)
<1>1. W!NoChild \in W!Child
  BY DEF W!NoChild, W!Child, W!Unborn, W!Progress, W!Living, W!Working
<1>2. /\ W!Forked = [W!NoChild EXCEPT !.at = "starting"]
      /\ W!Forked.inbox = <<>> /\ W!Forked.at = "starting" /\ ~W!Forked.settled
  BY DEF W!Forked, W!NoChild
<1>3. W!Forked \in W!Child
  BY <1>1, <1>2 DEF W!Child, W!Progress, W!Living, W!Working
<1> QED
  BY <1>1, <1>2, <1>3 DEF Honest, Wrote, Active, W!NoChild, W!Unborn, W!Working

-----------------------------------------------------------------------------
(* The supervisor's half of a turn *)

\* c is what the event made of the children.
LEMMA Supervision ==
  ASSUME ChildrenStand, NEW c \in [W!Workers -> W!Child], Supervise(c),
         \A w \in W!Workers :
           /\ Honest(c[w])
           /\ Active(c[w]) => Active(child[w]) /\ Kept(w[1])
           /\ Wrote(c[w]) => Wrote(child[w])
  PROVE  /\ ChildrenStand'
         /\ \A w \in W!Workers : Active(child'[w]) /\ Wrote(child'[w]) =>
              Active(child[w]) /\ Wrote(child[w]) /\ Current(w)
<1>1. ASSUME NEW w \in W!Workers, w \in Forks
      PROVE  /\ child'[w] \in W!Child /\ Honest(child'[w]) /\ Current(w)'
             /\ ~Wrote(child'[w])
  <2>1. child'[w] = W!Forked
    BY <1>1 DEF Supervise, W!Supervised
  <2> QED
    BY <1>1, <2>1, ForkedType DEF Forks, Current
<1>2. ASSUME NEW w \in W!Workers, w \notin Forks
      PROVE  /\ child'[w] \in W!Child
             /\ child'[w].at = c[w].at /\ child'[w].inbox = c[w].inbox
             /\ child'[w].settled = c[w].settled
  <2>1. child'[w] = c[w] \/ child'[w] = [c[w] EXCEPT !.hardKill = TRUE]
    BY <1>2 DEF Supervise, W!Supervised, W!Signalled
  <2>2. c[w] \in W!Child
    OBVIOUS
  <2> QED
    BY <2>1, <2>2 DEF W!Child
<1>3. ASSUME NEW w \in W!Workers, w \notin Forks
      PROVE  /\ Honest(child'[w])
             /\ Active(child'[w]) <=> Active(c[w])
             /\ Wrote(child'[w]) <=> Wrote(c[w])
  BY <1>2, <1>3 DEF Honest, Active, Wrote
<1>4. ASSUME NEW w \in W!Workers, Active(c[w])
      PROVE  Current(w) /\ Current(w)'
  BY <1>4 DEF ChildrenStand, Current, Kept
<1>5. child' \in [W!Workers -> W!Child]
  <2>1. child' = [w \in W!Workers |-> child'[w]]
    BY DEF Supervise, W!Supervised
  <2> QED
    BY <1>1, <1>2, <2>1
<1>6. \A w \in W!Workers : Honest(child'[w]) /\ (Active(child'[w]) => Current(w)')
  BY <1>1, <1>3, <1>4
<1>7. ChildrenStand'
  BY <1>5, <1>6 DEF ChildrenStand, Current, Honest, Active
<1> QED
  BY <1>1, <1>3, <1>4, <1>7

-----------------------------------------------------------------------------
(* The holder's half of a turn *)

\* What the holder must not touch: the file of a job that goes on.
FilesOfTheRestStay ==
  \A i \in Ids : Pending(i) /\ Pending(i)' =>
    staging'[i] = staging[i] /\ disk'[staging[i]] = disk[staging[i]]

\* The new job is a constant here: a primed state function of it is meant.
LEMMA StartEffect ==
  ASSUME RP!IInv, R!Start, NEW id, id = sequence'
  PROVE  /\ RP!IInv' /\ id \in Ids
         /\ ~Pending(id) /\ Pending(id)'
         /\ entry[id].status # "running"
         /\ \A j \in Ids \ {id} : Kept(j)
         /\ Settling = {}
<1>1. RP!Start
  BY SameStart
<1>2. /\ RP!IInv' /\ id \in RP!Ids
      /\ entry[id].status = "absent"
      /\ entry'[id].status # "absent" /\ ~entry'[id].finished
      /\ \A j \in RP!Ids \ {id} : RP!Kept(j)
  BY <1>1, RP!StartEffect, RegistryAssumption
<1>3. RP!Ids = Ids
  BY DEF RP!Ids, Ids, R!Ids
<1>4. \A j \in Ids \ {id} : Kept(j)
  BY <1>2, <1>3, SameKept
<1>5. ~Pending(id) /\ Pending(id)'
  BY <1>2 DEF Pending, R!Known
<1>6. Settling = {}
  BY <1>2, <1>4 DEF Settling, Kept
<1> QED
  BY <1>2, <1>3, <1>4, <1>5, <1>6

LEMMA StagedForOne ==
  ASSUME NEW F, SInv(F), NEW id \in Ids, ~Pending(id), Pending(id)',
         \A j \in Ids \ {id} : Kept(j), H!StageFor(id)
  PROVE  FilesStand' /\ SessionStands(F)' /\ FilesOfTheRestStay
<1>1. /\ staged \in Nat /\ staged < MaxStaged /\ staged' = staged + 1
      /\ staging \in [Ids -> 0 .. MaxStaged]
      /\ staging' = [staging EXCEPT ![id] = staged']
      /\ UNCHANGED <<disk, session, leaked>>
  BY MaxStagedAssumption DEF SInv, FilesStand, H!TypeOK, H!StageFor
<1>2. /\ staging'[id] = staged + 1 /\ staging[id] = 0
      /\ \A j \in Ids \ {id} : staging'[j] = staging[j]
  BY <1>1 DEF SInv, FilesStand, H!Unbound
<1>3. H!TypeOK'
  BY <1>1, MaxStagedAssumption DEF SInv, FilesStand, H!TypeOK
<1>4. \A i \in Ids : /\ Pending(i)' <=> staging'[i] # H!Unbound
                    /\ staging'[i] <= staged'
  BY <1>1, <1>2 DEF SInv, FilesStand, Kept, H!Unbound
<1>5. \A i, j \in Ids : staging'[i] # H!Unbound /\ staging'[i] = staging'[j] => i = j
  BY <1>1, <1>2 DEF SInv, FilesStand, H!Unbound
<1>6. \A p \in H!Paths \ {H!Live} :
        disk'[p] # NoFile => p \in leaked' \/ \E i \in Ids : staging'[i] = p
  <2> SUFFICES ASSUME NEW p \in H!Paths \ {H!Live}, disk[p] # NoFile, p \notin leaked
               PROVE  \E i \in Ids : staging'[i] = p
    BY <1>1
  <2>1. PICK i \in Ids : staging[i] = p
    BY DEF SInv, FilesStand
  <2>2. i # id
    BY <1>2, <2>1 DEF H!Live
  <2> QED
    BY <1>2, <2>1, <2>2
<1>7. FilesStand'
  BY <1>3, <1>4, <1>5, <1>6 DEF FilesStand
<1>8. SessionStands(F)' /\ FilesOfTheRestStay
  BY <1>1, <1>2 DEF SInv, SessionStands, FilesOfTheRestStay
<1> QED
  BY <1>7, <1>8

\* What the live graph may become when a job settles.
OnlyBySuccess(F) ==
  disk'[H!Live] # disk[H!Live] =>
    \E id \in Settling : entry'[id].status = "succeeded" /\ disk'[H!Live] \in {id} \cup F

\* One of the ways a path ends: adopted, given up, or left by the file system.
LEMMA PathEnds ==
  ASSUME NEW F, H!TypeOK, SessionStands(F), NEW id \in Ids, NEW succeeded \in BOOLEAN,
         staging[id] # H!Unbound, H!Settle(id, succeeded)
  PROVE  LET p == staging[id]
         IN  /\ H!TypeOK' /\ SessionStands(F)'
             /\ UNCHANGED staged /\ staging' = [staging EXCEPT ![id] = H!Unbound]
             /\ leaked \subseteq leaked'
             /\ disk'[p] # NoFile => p \in leaked'
             /\ \A x \in H!Paths \ {p, H!Live} : disk'[x] = disk[x]
             /\ disk'[H!Live] # disk[H!Live] => succeeded /\ disk'[H!Live] = disk[p]
<1> DEFINE p == staging[id]
<1>1. /\ p \in 1 .. MaxStaged /\ p \in H!Paths /\ p # H!Live /\ H!Live \in H!Paths
      /\ disk \in [H!Paths -> H!Contents]
      /\ session \in Graphs \cup {Blank, NoSession}
      /\ staging \in [Ids -> 0 .. MaxStaged] /\ leaked \subseteq 1 .. MaxStaged
  BY MaxStagedAssumption DEF H!TypeOK, H!Paths, H!Live, H!Unbound
<1>2. /\ staging' = [staging EXCEPT ![id] = H!Unbound] /\ UNCHANGED staged
      /\ IF succeeded THEN H!Adopt(p) ELSE H!Discard(p)
  BY <1>1 DEF H!Settle
<1>3. staging' \in [Ids -> 0 .. MaxStaged] /\ staged' \in 0 .. MaxStaged
  BY <1>1, <1>2, MaxStagedAssumption DEF H!TypeOK, H!Unbound
<1>4. NoFile \in H!Contents /\ NoFile # NoSession
  BY ContentAssumption DEF H!Contents
<1> HIDE DEF p
<1>5. CASE /\ succeeded /\ disk[p] # NoFile
           /\ disk' = [disk EXCEPT ![H!Live] = disk[p], ![p] = NoFile]
           /\ session' = H!Opened(disk[p]) /\ UNCHANGED leaked
  <2>1. /\ disk' \in [H!Paths -> H!Contents]
        /\ disk'[p] = NoFile /\ disk'[H!Live] = disk[p]
        /\ \A x \in H!Paths \ {p, H!Live} : disk'[x] = disk[x]
    BY <1>1, <1>4, <1>5
  <2>2. session' = disk[p] /\ session' \in Graphs \cup {Blank, NoSession}
    BY <1>1, <1>5 DEF H!Opened, H!Contents
  <2> QED
    BY <1>1, <1>2, <1>3, <1>5, <2>1, <2>2 DEF H!TypeOK, SessionStands, p
<1>6. CASE /\ succeeded /\ session' = H!Opened(disk[H!Live])
           /\ leaked' = leaked \cup {p} /\ UNCHANGED disk
  <2>1. /\ session' \in Graphs \cup {Blank, NoSession}
        /\ session' # NoSession => session' = disk[H!Live]
    BY <1>1, <1>6 DEF H!Opened, H!Contents
  <2> QED
    BY <1>1, <1>2, <1>3, <1>6, <2>1 DEF H!TypeOK, SessionStands, p
<1>7. CASE disk' = [disk EXCEPT ![p] = NoFile] /\ UNCHANGED <<leaked, session>>
  <2>1. /\ disk' \in [H!Paths -> H!Contents]
        /\ disk'[p] = NoFile /\ \A x \in H!Paths \ {p} : disk'[x] = disk[x]
    BY <1>1, <1>4, <1>7
  <2> QED
    BY <1>1, <1>2, <1>3, <1>7, <2>1 DEF H!TypeOK, SessionStands, p
<1>8. CASE leaked' = leaked \cup {p} /\ UNCHANGED <<disk, session>>
  BY <1>1, <1>2, <1>3, <1>8 DEF H!TypeOK, SessionStands, p
<1> QED
  BY <1>2, <1>5, <1>6, <1>7, <1>8 DEF H!Adopt, H!Discard

LEMMA NothingSettles ==
  ASSUME NEW F, SInv(F), \A j \in Ids : Kept(j), OnSettled \/ UNCHANGED holder
  PROVE  /\ FilesStand' /\ SessionStands(F)' /\ FilesOfTheRestStay
         /\ UNCHANGED holder
<1>1. Settling = {}
  BY DEF Settling, Kept
<1>2. UNCHANGED <<disk, session, staged, staging, leaked>>
  BY <1>1 DEF OnSettled, holder
<1>3. FilesStand'
  BY <1>2 DEF SInv, FilesStand, H!TypeOK, Kept
<1> QED
  BY <1>2, <1>3 DEF SInv, SessionStands, FilesOfTheRestStay, holder

LEMMA SettledFiles ==
  ASSUME NEW F, SInv(F), NEW id \in Ids, About(id), OnSettled,
         entry'[id].finished /\ entry'[id].status = "succeeded" => disk[staging[id]] \in {id} \cup F
  PROVE  /\ FilesStand' /\ SessionStands(F)' /\ FilesOfTheRestStay
         /\ OnlyBySuccess(F)
<1>1. CASE ~entry'[id].finished
  <2>1. Kept(id) \/ entry[id].status = "running"
    BY <1>1 DEF About, Kept
  <2>2. Settling = {}
    BY <1>1 DEF About, Settling, Kept
  <2>3. UNCHANGED <<disk, session, staged, staging, leaked>>
    BY <2>2 DEF OnSettled, holder
  <2>4. \A j \in Ids : Pending(j)' <=> Pending(j)
    BY <1>1 DEF About, Kept
  <2>5. FilesStand'
    BY <2>3, <2>4 DEF SInv, FilesStand, H!TypeOK
  <2> QED
    BY <2>3, <2>5 DEF SInv, SessionStands, FilesOfTheRestStay, OnlyBySuccess
<1>2. CASE entry'[id].finished
  <2> DEFINE p == staging[id]
             succeeded == entry'[id].status = "succeeded"
  <2>1. Settling = {id}
    BY <1>2 DEF About, Settling, Kept, Pending
  <2>2. H!Settle(id, succeeded)
    BY <2>1 DEF OnSettled
  <2>3. p # H!Unbound /\ H!TypeOK /\ SessionStands(F)
    BY DEF About, SInv, FilesStand
  <2>4. /\ H!TypeOK' /\ SessionStands(F)'
        /\ UNCHANGED staged /\ staging' = [staging EXCEPT ![id] = H!Unbound]
        /\ leaked \subseteq leaked'
        /\ disk'[p] # NoFile => p \in leaked'
        /\ \A x \in H!Paths \ {p, H!Live} : disk'[x] = disk[x]
        /\ disk'[H!Live] # disk[H!Live] => succeeded /\ disk'[H!Live] = disk[p]
    <3> HIDE DEF succeeded
    <3>1. succeeded \in BOOLEAN
      BY DEF succeeded
    <3> QED
      BY <2>2, <2>3, <3>1, PathEnds
  <2>5. /\ staging \in [Ids -> 0 .. MaxStaged]
        /\ staging'[id] = 0 /\ \A j \in Ids \ {id} : staging'[j] = staging[j]
    BY <2>3, <2>4 DEF H!TypeOK, H!Unbound
  <2>6. ~Pending(id)'
    BY <1>2 DEF Pending
  <2>7. \A i \in Ids : /\ Pending(i)' <=> staging'[i] # H!Unbound
                      /\ staging'[i] <= staged'
    <3>1. staged \in 0 .. MaxStaged
      BY <2>3 DEF H!TypeOK
    <3> QED
      BY <2>4, <2>5, <2>6, <3>1, MaxStagedAssumption
         DEF SInv, FilesStand, About, Kept, H!Unbound
  <2>8. \A i, j \in Ids : staging'[i] # H!Unbound /\ staging'[i] = staging'[j] => i = j
    BY <2>5 DEF SInv, FilesStand, H!Unbound
  <2>9. \A x \in H!Paths \ {H!Live} :
          disk'[x] # NoFile => x \in leaked' \/ \E i \in Ids : staging'[i] = x
    <3> SUFFICES ASSUME NEW x \in H!Paths \ {H!Live}, disk'[x] # NoFile, x \notin leaked'
                 PROVE  \E i \in Ids : staging'[i] = x
      OBVIOUS
    <3>1. x # p
      BY <2>4
    <3>2. PICK i \in Ids : staging[i] = x
      BY <2>4, <3>1 DEF SInv, FilesStand
    <3> QED
      BY <2>5, <3>1, <3>2
  <2>10. FilesStand'
    BY <2>4, <2>7, <2>8, <2>9 DEF FilesStand
  <2>11. FilesOfTheRestStay
    <3> SUFFICES ASSUME NEW i \in Ids, Pending(i), Pending(i)'
                 PROVE  staging'[i] = staging[i] /\ disk'[staging[i]] = disk[staging[i]]
      BY DEF FilesOfTheRestStay
    <3>1. i # id
      BY <2>6
    <3>2. staging[i] # p /\ staging[i] # 0 /\ staging[i] \in 0 .. MaxStaged
      BY <2>3, <2>5, <3>1 DEF SInv, FilesStand, H!Unbound
    <3>3. staging[i] \in H!Paths \ {p, H!Live}
      BY <3>2, MaxStagedAssumption DEF H!Paths, H!Live
    <3> QED
      BY <2>4, <2>5, <3>1, <3>3
  <2>12. OnlyBySuccess(F)
    BY <1>2, <2>1, <2>4 DEF OnlyBySuccess
  <2> QED
    BY <2>4, <2>10, <2>11, <2>12
<1> QED
  BY <1>1, <1>2

-----------------------------------------------------------------------------
(* Both halves *)

LEMMA RunningPends ==
  ASSUME RP!IInv, NEW id \in Ids, entry[id].status = "running"
  PROVE  Pending(id)
BY DEF RP!IInv, RP!Ready, RP!Consistent, RP!Terminal, RP!Ids, Ids, R!Ids, Pending, R!Known

LEMMA Together ==
  ASSUME NEW F, SInv(F), RP!IInv', ChildrenStand', FilesStand', SessionStands(F)',
         scanning' \subseteq Scans, FilesOfTheRestStay,
         \A w \in W!Workers : Active(child'[w]) /\ Wrote(child'[w]) =>
           Active(child[w]) /\ Wrote(child[w]) /\ Current(w)
  PROVE  SInv(F)'
<1>1. ASSUME NEW w \in W!Workers, Active(child'[w]), Wrote(child'[w])
      PROVE  disk'[staging'[w[1]]] \in {w[1]} \cup F
  <2>1. w[1] \in Ids
    BY Worker
  <2>2. Active(child[w]) /\ Wrote(child[w]) /\ Current(w) /\ Current(w)'
    BY <1>1 DEF ChildrenStand, Active, Current
  <2>3. Pending(w[1])
    BY <2>1, <2>2, RunningPends DEF SInv, Current
  <2>4. Pending(w[1])'
    BY <2>1, <2>2 DEF RP!IInv, RP!Ready, RP!Consistent, RP!Terminal, RP!Ids, Ids, R!Ids,
                      Pending, R!Known, Current
  <2> QED
    BY <2>1, <2>2, <2>3, <2>4 DEF FilesOfTheRestStay, SInv, GraphsStand
<1>2. GraphsStand(F)'
  BY <1>1 DEF GraphsStand, Active, Wrote
<1> QED
  BY <1>2 DEF SInv

\* An attempt has one child, so a job has one that is waited for.
LEMMA OneActive ==
  ASSUME ChildrenStand, NEW v \in W!Workers, NEW w \in W!Workers,
         Active(child[v]), Active(child[w]), v[1] = w[1]
  PROVE  v = w
<1>1. v[2] = w[2]
  BY DEF ChildrenStand, Current
<1> QED
  BY <1>1, Worker

LEMMA RegistryRests ==
  ASSUME RP!IInv, UNCHANGED registry
  PROVE  RP!IInv' /\ \A j \in Ids : Kept(j)
<1>1. UNCHANGED <<sequence, entry, queue, running>>
  BY DEF registry
<1>2. RP!IInv'
  BY <1>1 DEF RP!IInv, RP!Ready, RP!Consistent, RP!MayBegin, RP!Started, RP!InOrder,
              RP!Fresh, RP!Unused
<1>3. \A j \in Ids : Kept(j)
  BY <1>1 DEF Kept, Pending, R!Known
<1> QED
  BY <1>2, <1>3

\* The last event of a child's promise, or one that comes after it.
LEMMA EventKeeps ==
  ASSUME NEW F, SInv(F), RP!IInv', NEW w \in W!Workers, NEW x \in W!Child,
         Honest(x), ~Active(x), Wrote(x) => Wrote(child[w]),
         Supervise([child EXCEPT ![w] = x]), OnSettled, UNCHANGED scanning,
         \/ /\ Active(child[w]) /\ About(w[1])
            /\ entry'[w[1]].finished /\ entry'[w[1]].status = "succeeded" =>
                 Wrote(child[w])
         \/ \A j \in Ids : Kept(j)
  PROVE  SInv(F)' /\ OnlyBySuccess(F)
<1> DEFINE c == [child EXCEPT ![w] = x]
<1>1. /\ child \in [W!Workers -> W!Child]
      /\ c \in [W!Workers -> W!Child]
      /\ c[w] = x /\ \A v \in W!Workers \ {w} : c[v] = child[v]
  BY DEF SInv, ChildrenStand
<1> HIDE DEF c
<1>2. w[1] \in Ids
  BY Worker
<1>3. ASSUME NEW v \in W!Workers
      PROVE  /\ Honest(c[v])
             /\ Active(c[v]) => Active(child[v]) /\ Kept(v[1])
             /\ Wrote(c[v]) => Wrote(child[v])
  <2>1. CASE v = w
    BY <1>1, <2>1
  <2>2. CASE v # w
    <3>1. c[v] = child[v]
      BY <1>1, <2>2
    <3>2. Active(child[v]) => Kept(v[1])
      <4>1. CASE Active(child[w]) /\ About(w[1])
        BY <2>2, <4>1, OneActive, Worker DEF About, SInv
      <4>2. CASE \A j \in Ids : Kept(j)
        BY <4>2, Worker
      <4> QED
        BY <4>1, <4>2
    <3> QED
      BY <3>1, <3>2 DEF SInv, ChildrenStand
  <2> QED
    BY <2>1, <2>2
<1>4. /\ ChildrenStand'
      /\ \A v \in W!Workers : Active(child'[v]) /\ Wrote(child'[v]) =>
           Active(child[v]) /\ Wrote(child[v]) /\ Current(v)
  <2>1. Supervise(c) /\ ChildrenStand
    BY DEF c, SInv
  <2> QED
    BY <1>1, <1>3, <2>1, Supervision
<1>5. FilesStand' /\ SessionStands(F)' /\ FilesOfTheRestStay /\ OnlyBySuccess(F)
  <2>1. CASE /\ Active(child[w]) /\ About(w[1])
             /\ entry'[w[1]].finished /\ entry'[w[1]].status = "succeeded" =>
                  Wrote(child[w])
    <3>1. entry'[w[1]].finished /\ entry'[w[1]].status = "succeeded" =>
            disk[staging[w[1]]] \in {w[1]} \cup F
      BY <2>1 DEF SInv, GraphsStand
    <3> QED
      BY <1>2, <2>1, <3>1, SettledFiles
  <2>2. CASE \A j \in Ids : Kept(j)
    <3>1. /\ FilesStand' /\ SessionStands(F)' /\ FilesOfTheRestStay
          /\ UNCHANGED holder
      BY <2>2, NothingSettles
    <3> QED
      BY <3>1 DEF holder, OnlyBySuccess
  <2> QED
    BY <2>1, <2>2
<1>6. scanning' \subseteq Scans
  BY DEF SInv
<1> QED
  BY <1>4, <1>5, <1>6, Together

\* A child's own step, or the kernel's, that touches no database.
LEMMA ChildKeeps ==
  ASSUME NEW F, SInv(F), RP!IInv', NEW w \in W!Workers, NEW x \in W!Child,
         child' = [child EXCEPT ![w] = x],
         Honest(x), Active(x) => Active(child[w]), Wrote(x) => Wrote(child[w]),
         \A j \in Ids : Kept(j), UNCHANGED <<holder, scanning>>
  PROVE  SInv(F)'
<1>1. /\ child' \in [W!Workers -> W!Child]
      /\ child'[w] = x /\ \A v \in W!Workers \ {w} : child'[v] = child[v]
  BY DEF SInv, ChildrenStand
<1>2. ASSUME NEW v \in W!Workers
      PROVE  /\ Honest(child'[v])
             /\ Active(child'[v]) => Active(child[v]) /\ Current(v) /\ Current(v)'
             /\ Wrote(child'[v]) => Wrote(child[v])
  <2>1. Active(child[v]) => Current(v) /\ Current(v)'
    BY Worker DEF SInv, ChildrenStand, Current, Kept
  <2>2. CASE v = w
    BY <1>1, <2>1, <2>2
  <2>3. CASE v # w
    BY <1>1, <2>1, <2>3 DEF SInv, ChildrenStand
  <2> QED
    BY <2>2, <2>3
<1>3. ChildrenStand'
  BY <1>1, <1>2 DEF ChildrenStand, Honest, Active, Current
<1>4. FilesStand' /\ SessionStands(F)' /\ FilesOfTheRestStay
  BY NothingSettles
<1>5. scanning' \subseteq Scans
  BY DEF SInv
<1> QED
  BY <1>2, <1>3, <1>4, <1>5, Together

-----------------------------------------------------------------------------
(* The endpoints *)

\* What the live graph becomes, and by whom.
LiveStep(F) ==
  disk'[H!Live] # disk[H!Live] =>
    \/ \E id \in Settling : entry'[id].status = "succeeded" /\ disk'[H!Live] \in {id} \cup F
    \/ \E k \in scanning : disk'[H!Live] = k
    \/ disk[H!Live] = NoFile /\ disk'[H!Live] = Blank

LEMMA StartStep ==
  ASSUME NEW F, SInv(F), R!Start, Supervise(child), H!StageFor(sequence'), UNCHANGED scanning
  PROVE  SInv(F)' /\ LiveStep(F)
<1>1. PICK id : id = sequence'
  OBVIOUS
<1>2. /\ RP!IInv' /\ id \in Ids /\ ~Pending(id) /\ Pending(id)'
      /\ entry[id].status # "running" /\ \A j \in Ids \ {id} : Kept(j)
  BY <1>1, StartEffect DEF SInv
<1>3. H!StageFor(id)
  BY <1>1
<1>4. FilesStand' /\ SessionStands(F)' /\ FilesOfTheRestStay
  BY <1>2, <1>3, StagedForOne
<1>5. ASSUME NEW w \in W!Workers, Active(child[w]) PROVE Kept(w[1])
  BY <1>2, <1>5, Worker DEF SInv, ChildrenStand, Current
<1>6. /\ ChildrenStand'
      /\ \A w \in W!Workers : Active(child'[w]) /\ Wrote(child'[w]) =>
           Active(child[w]) /\ Wrote(child[w]) /\ Current(w)
  <2>1. ChildrenStand /\ child \in [W!Workers -> W!Child]
    BY DEF SInv, ChildrenStand
  <2>2. \A w \in W!Workers : Honest(child[w])
    BY <2>1 DEF ChildrenStand
  <2> QED
    BY <1>5, <2>1, <2>2, Supervision
<1>7. scanning' \subseteq Scans
  BY DEF SInv
<1>8. SInv(F)'
  BY <1>2, <1>4, <1>6, <1>7, Together
<1> QED
  BY <1>8 DEF LiveStep, H!StageFor

LEMMA CancelStep ==
  ASSUME NEW F, SInv(F), NEW id \in Ids, Cancel(id)
  PROVE  SInv(F)' /\ LiveStep(F)
<1>1. /\ RP!IInv' /\ RP!About(id)
      /\ entry[id].status = "running" => RP!Kept(id)
      /\ entry'[id].finished => entry'[id].status # "succeeded"
  <2>1. RP!Cancel(id) /\ id \in RP!Ids
    BY SameCancel DEF Cancel, Ids, R!Ids, RP!Ids
  <2> QED
    BY <2>1, RP!CancelEffect, RegistryAssumption DEF SInv
<1>2. About(id) /\ (entry[id].status = "running" => Kept(id))
  BY <1>1, SameKept
<1>3. FilesStand' /\ SessionStands(F)' /\ FilesOfTheRestStay /\ OnlyBySuccess(F)
  BY <1>1, <1>2, SettledFiles DEF Cancel
<1>4. ASSUME NEW w \in W!Workers, Active(child[w]) PROVE Kept(w[1])
  BY <1>2, <1>4, Worker DEF SInv, ChildrenStand, Current, About
<1>5. /\ ChildrenStand'
      /\ \A w \in W!Workers : Active(child'[w]) /\ Wrote(child'[w]) =>
           Active(child[w]) /\ Wrote(child[w]) /\ Current(w)
  <2>1. ChildrenStand /\ child \in [W!Workers -> W!Child] /\ Supervise(child)
    BY DEF SInv, ChildrenStand, Cancel
  <2>2. \A w \in W!Workers : Honest(child[w])
    BY <2>1 DEF ChildrenStand
  <2> QED
    BY <1>4, <2>1, <2>2, Supervision
<1>6. scanning' \subseteq Scans
  BY DEF SInv, Cancel
<1>7. SInv(F)'
  BY <1>1, <1>3, <1>5, <1>6, Together
<1> QED
  BY <1>3, <1>7 DEF LiveStep, OnlyBySuccess

LEMMA DeadlineStep ==
  ASSUME NEW F, SInv(F), NEW id \in Ids, Deadline(id)
  PROVE  SInv(F)' /\ LiveStep(F)
<1>1. RP!IInv' /\ \A j \in RP!Ids : RP!Kept(j)
  <2>1. RP!Deadline(id) /\ id \in RP!Ids
    BY SameMarks DEF Deadline, Ids, R!Ids, RP!Ids
  <2> QED
    BY <2>1, RP!MarksEffect, RegistryAssumption DEF SInv
<1>2. \A j \in Ids : Kept(j)
  BY <1>1, SameKept DEF Ids, R!Ids, RP!Ids
<1>3. /\ FilesStand' /\ SessionStands(F)' /\ FilesOfTheRestStay
      /\ UNCHANGED holder
  BY <1>2, NothingSettles DEF Deadline
<1>4. /\ ChildrenStand'
      /\ \A w \in W!Workers : Active(child'[w]) /\ Wrote(child'[w]) =>
           Active(child[w]) /\ Wrote(child[w]) /\ Current(w)
  <2>1. ChildrenStand /\ child \in [W!Workers -> W!Child] /\ Supervise(child)
    BY DEF SInv, ChildrenStand, Deadline
  <2>2. \A w \in W!Workers : Honest(child[w])
    BY <2>1 DEF ChildrenStand
  <2>3. \A w \in W!Workers : Kept(w[1])
    BY <1>2, Worker
  <2> QED
    BY <2>1, <2>2, <2>3, Supervision
<1>5. scanning' \subseteq Scans
  BY DEF SInv, Deadline
<1>6. SInv(F)'
  BY <1>1, <1>3, <1>4, <1>5, Together
<1> QED
  BY <1>3, <1>6 DEF LiveStep, holder

\* Steps that leave the registry and the children alone: what they do to the live
\* graph and its session is all there is to show.
LEMMA HolderKeeps ==
  ASSUME NEW F, SInv(F), UNCHANGED <<registry, child, staging, leaked>>, H!TypeOK', staged <= staged',
         \A p \in H!Paths \ {H!Live} : disk'[p] = disk[p],
         SessionStands(F)', scanning' \subseteq Scans
  PROVE  SInv(F)'
<1>1. RP!IInv' /\ \A j \in Ids : Kept(j)
  BY RegistryRests DEF SInv
<1>2. ChildrenStand' /\ (\A w \in W!Workers : Active(child'[w]) => Current(w))
  BY DEF SInv, ChildrenStand, Honest, Active, Current, registry
<1>3. FilesStand'
  <2>1. staged \in Nat /\ staged' \in Nat /\ staging \in [Ids -> 0 .. MaxStaged]
    BY MaxStagedAssumption DEF SInv, FilesStand, H!TypeOK
  <2>2. \A i \in Ids : /\ Pending(i)' <=> staging'[i] # H!Unbound
                      /\ staging'[i] <= staged'
    BY <1>1, <2>1 DEF SInv, FilesStand, Kept
  <2> QED
    BY <2>2 DEF SInv, FilesStand
<1>4. FilesOfTheRestStay
  <2> SUFFICES ASSUME NEW i \in Ids, Pending(i)
               PROVE  disk'[staging[i]] = disk[staging[i]]
    BY DEF FilesOfTheRestStay
  <2>1. staging[i] # 0 /\ staging[i] \in 0 .. MaxStaged
    BY DEF SInv, FilesStand, H!TypeOK, H!Unbound
  <2> QED
    BY <2>1, MaxStagedAssumption DEF H!Paths, H!Live
<1> QED
  BY <1>1, <1>2, <1>3, <1>4, Together

\* The live graph is rewritten, created or left, and opened or not.
LEMMA LiveKeeps ==
  ASSUME NEW F, SInv(F), NEW g \in H!Contents, disk' = [disk EXCEPT ![H!Live] = g],
         \/ session' = H!Opened(g)
         \/ session' = session /\ (g = disk[H!Live] \/ session = NoSession),
         UNCHANGED <<registry, child, staged, staging, leaked>>, scanning' \subseteq Scans
  PROVE  SInv(F)' /\ disk'[H!Live] = g
<1>1. /\ disk \in [H!Paths -> H!Contents] /\ H!Live \in H!Paths
      /\ session \in Graphs \cup {Blank, NoSession}
  BY DEF SInv, FilesStand, H!TypeOK, H!Paths
<1>2. /\ disk' \in [H!Paths -> H!Contents] /\ disk'[H!Live] = g
      /\ \A p \in H!Paths \ {H!Live} : disk'[p] = disk[p]
  BY <1>1
<1>3. /\ session' \in Graphs \cup {Blank, NoSession}
      /\ session' # NoSession => session' = g \/ g \in F \cap Graphs
  BY <1>1 DEF H!Opened, H!Contents, SInv, SessionStands
<1>4. H!TypeOK' /\ SessionStands(F)' /\ staged <= staged'
  BY <1>2, <1>3, MaxStagedAssumption DEF SInv, FilesStand, H!TypeOK, SessionStands
<1> QED
  BY <1>2, <1>4, HolderKeeps

LEMMA ReadStep ==
  ASSUME NEW F, SInv(F), Read \/ \E id \in Ids : RetryRefused(id)
  PROVE  SInv(F)' /\ LiveStep(F)
<1>1. disk' = disk
  BY DEF Read, H!Read, RetryRefused, H!StageInVain
<1>2. CASE Read
  <2>1. /\ UNCHANGED <<registry, child, scanning, disk, staged, staging, leaked>>
        /\ session' = H!Opened(disk[H!Live])
    BY <1>2 DEF Read, H!Read
  <2>2. disk \in [H!Paths -> H!Contents] /\ H!Live \in H!Paths
    BY DEF SInv, FilesStand, H!TypeOK, H!Paths
  <2>3. disk' = [disk EXCEPT ![H!Live] = disk[H!Live]] /\ disk[H!Live] \in H!Contents
    BY <2>1, <2>2
  <2>4. scanning' \subseteq Scans
    BY <2>1 DEF SInv
  <2> QED
    BY <1>1, <2>1, <2>3, <2>4, LiveKeeps DEF LiveStep
<1>3. ASSUME NEW id \in Ids, RetryRefused(id)
      PROVE  SInv(F)'
  <2>1. /\ UNCHANGED <<registry, child, scanning, disk, session, staging, leaked>>
        /\ staged < MaxStaged /\ staged' = staged + 1 /\ staged \in 0 .. MaxStaged
    BY <1>3 DEF RetryRefused, H!StageInVain, SInv, FilesStand, H!TypeOK
  <2>2. H!TypeOK' /\ SessionStands(F)' /\ staged <= staged' /\ scanning' \subseteq Scans
    BY <2>1, MaxStagedAssumption DEF SInv, FilesStand, H!TypeOK, SessionStands
  <2> QED
    BY <2>1, <2>2, HolderKeeps
<1> QED
  BY <1>1, <1>2, <1>3 DEF LiveStep

LEMMA ScanBeginsStep ==
  ASSUME NEW F, SInv(F), NEW k \in Scans, ScanBegins(k)
  PROVE  SInv(F)' /\ LiveStep(F)
<1> DEFINE g == IF disk[H!Live] = NoFile THEN Blank ELSE disk[H!Live]
<1>1. /\ disk \in [H!Paths -> H!Contents] /\ H!Live \in H!Paths
      /\ session \in Graphs \cup {Blank, NoSession}
  BY DEF SInv, FilesStand, H!TypeOK, H!Paths
<1>2. g \in H!Contents /\ disk' = [disk EXCEPT ![H!Live] = g]
  BY <1>1 DEF ScanBegins, H!Create, H!Contents
<1>3. g = disk[H!Live] \/ session = NoSession
  BY <1>1, ContentAssumption DEF SInv, SessionStands
<1>4. disk'[H!Live] = g
  BY <1>1, <1>2
<1>5. session' = H!Opened(g) \/ session' = session
  BY <1>4 DEF ScanBegins, H!Reopen
<1>6. UNCHANGED <<registry, child, staged, staging, leaked>> /\ scanning' \subseteq Scans
  BY DEF SInv, ScanBegins
<1>7. LiveStep(F)
  BY <1>4 DEF LiveStep
<1> HIDE DEF g
<1> QED
  BY <1>2, <1>3, <1>5, <1>6, <1>7, LiveKeeps

LEMMA ScanWritesStep ==
  ASSUME NEW F, SInv(F), NEW k \in Scans, ScanWrites(k)
  PROVE  SInv(F)' /\ LiveStep(F)
<1>1. k \in H!Contents /\ disk' = [disk EXCEPT ![H!Live] = k] /\ k \in scanning
  BY DEF ScanWrites, H!Write, H!Contents, Graphs
<1>2. disk \in [H!Paths -> H!Contents] /\ H!Live \in H!Paths
  BY DEF SInv, FilesStand, H!TypeOK, H!Paths
<1>3. session' = H!Opened(k)
  BY <1>1, <1>2 DEF ScanWrites, H!Reopen
<1>4. UNCHANGED <<registry, child, staged, staging, leaked>> /\ scanning' \subseteq Scans
  BY DEF SInv, ScanWrites
<1> QED
  BY <1>1, <1>3, <1>4, LiveKeeps DEF LiveStep

LEMMA ScanFailsStep ==
  ASSUME NEW F, SInv(F), NEW k \in Scans, ScanFails(k)
  PROVE  SInv(F)' /\ LiveStep(F)
<1>1. /\ UNCHANGED <<registry, child, staged, staging, leaked, disk, session>>
      /\ scanning' \subseteq Scans
  BY DEF SInv, ScanFails, holder
<1>2. H!TypeOK' /\ SessionStands(F)' /\ staged <= staged'
  BY <1>1, MaxStagedAssumption DEF SInv, FilesStand, H!TypeOK, SessionStands
<1> QED
  BY <1>1, <1>2, HolderKeeps DEF LiveStep

-----------------------------------------------------------------------------
(* The events of a worker *)

LEMMA ResolvedEffect ==
  ASSUME RP!IInv, NEW id \in Ids, NEW f \in R!Failures, R!Resolved(id, f)
  PROVE  /\ RP!IInv' /\ About(id)
         /\ entry'[id].finished /\ entry'[id].status = "succeeded" => f = "none"
<1>1. RP!Resolved(id, f) /\ id \in RP!Ids /\ f \in RP!Failures
  BY SameResolved DEF Ids, R!Ids, RP!Ids, R!Failures, RP!Failures
<1>2. /\ RP!IInv' /\ RP!About(id)
      /\ entry'[id].finished /\ entry'[id].status = "succeeded" => f = "none"
  BY <1>1, RP!ResolvedEffect, RegistryAssumption
<1> QED
  BY <1>2, SameKept

LEMMA RejectedEffect ==
  ASSUME RP!IInv, NEW id \in Ids, NEW c \in R!Causes, R!Rejected(id, c)
  PROVE  /\ RP!IInv' /\ About(id)
         /\ entry'[id].finished => entry'[id].status # "succeeded"
<1>1. RP!Rejected(id, c) /\ id \in RP!Ids /\ c \in RP!Causes
  BY SameRejected DEF Ids, R!Ids, RP!Ids, R!Causes, RP!Causes
<1>2. /\ RP!IInv' /\ RP!About(id)
      /\ entry'[id].finished => entry'[id].status # "succeeded"
  BY <1>1, RP!RejectedEffect, RegistryAssumption
<1> QED
  BY <1>2, SameKept

LEMMA DoneStep ==
  ASSUME NEW F, SInv(F), NEW w \in W!Workers, DoneArrives(w)
  PROVE  SInv(F)' /\ LiveStep(F)
<1> DEFINE x == W!Finished([child[w] EXCEPT !.inbox = Tail(child[w].inbox)])
<1>1. /\ child[w] \in W!Child /\ child \in [W!Workers -> W!Child]
      /\ child[w].inbox \in Seq({"stage"} \cup W!Reports)
      /\ child[w].inbox # <<>> /\ Head(child[w].inbox) # "stage"
      /\ w[1] \in Ids
  BY Worker DEF SInv, ChildrenStand, W!Child, DoneArrives, W!DoneArrives, W!Report
<1>2. /\ Tail(child[w].inbox) \in Seq({"stage"} \cup W!Reports)
      /\ \A i \in 1 .. Len(Tail(child[w].inbox)) :
           i + 1 \in 1 .. Len(child[w].inbox) /\ Tail(child[w].inbox)[i] = child[w].inbox[i + 1]
      /\ 1 \in 1 .. Len(child[w].inbox) /\ Head(child[w].inbox) = child[w].inbox[1]
      /\ W!Report(w) \in W!Reports
  BY <1>1, HeadTailProperties DEF W!Report
<1>3. /\ x \in W!Child /\ x.settled /\ x.at = child[w].at
      /\ x.inbox = Tail(child[w].inbox)
  BY <1>1, <1>2 DEF W!Child, W!Finished
<1>4. child[w].at \notin W!Working
  BY <1>1, <1>2 DEF SInv, ChildrenStand, Honest
<1>5. Honest(x) /\ ~Active(x) /\ (Wrote(x) => Wrote(child[w]))
  BY <1>2, <1>3, <1>4 DEF Honest, Active, Wrote
<1>6. Supervise([child EXCEPT ![w] = x]) /\ OnSettled /\ UNCHANGED scanning
  <2>1. W!TakenDone(w) = [child EXCEPT ![w] = x]
    BY <1>1 DEF W!TakenDone, W!TakenStage
  <2>2. Supervise(W!TakenDone(w)) /\ OnSettled /\ UNCHANGED scanning
    BY DEF DoneArrives
  <2> QED
    BY <2>1, <2>2
<1> HIDE DEF x
<1>7. CASE /\ W!Unsettled(w) /\ W!Report(w) # "threw"
           /\ R!Resolved(w[1], W!Report(w))
  <2>1. W!Report(w) \in R!Failures
    BY <1>2, <1>7 DEF R!Failures, W!Reports, W!CloneFailures
  <2>2. /\ RP!IInv' /\ About(w[1])
        /\ entry'[w[1]].finished /\ entry'[w[1]].status = "succeeded" =>
             W!Report(w) = "none"
    BY <1>1, <1>7, <2>1, ResolvedEffect DEF SInv
  <2>3. Active(child[w]) /\ (W!Report(w) = "none" => Wrote(child[w]))
    BY <1>2, <1>7 DEF Active, Wrote, W!Unsettled, W!Report
  <2> QED
    BY <1>3, <1>5, <1>6, <2>2, <2>3, EventKeeps DEF OnlyBySuccess, LiveStep
<1>8. ASSUME NEW c \in R!Causes, W!Unsettled(w), R!Rejected(w[1], c)
      PROVE  SInv(F)' /\ LiveStep(F)
  <2>1. /\ RP!IInv' /\ About(w[1])
        /\ entry'[w[1]].finished => entry'[w[1]].status # "succeeded"
    BY <1>1, <1>8, RejectedEffect DEF SInv
  <2>2. Active(child[w])
    BY <1>8 DEF Active, W!Unsettled
  <2> QED
    BY <1>3, <1>5, <1>6, <2>1, <2>2, EventKeeps DEF OnlyBySuccess, LiveStep
<1>9. CASE UNCHANGED registry
  <2>1. RP!IInv' /\ \A j \in Ids : Kept(j)
    BY <1>9, RegistryRests DEF SInv
  <2> QED
    BY <1>3, <1>5, <1>6, <2>1, EventKeeps DEF OnlyBySuccess, LiveStep
<1> QED
  BY <1>7, <1>8, <1>9 DEF DoneArrives

\* The two ways a child is found to be gone: its exit, and a fork that failed.
LEMMA GoneStep ==
  ASSUME NEW F, SInv(F), NEW w \in W!Workers, ExitArrives(w) \/ SpawnFails(w)
  PROVE  SInv(F)' /\ LiveStep(F)
<1>1. child[w] \in W!Child /\ child \in [W!Workers -> W!Child] /\ w[1] \in Ids
  BY Worker DEF SInv, ChildrenStand
<1>2. PICK x \in W!Child : /\ x.at = "dead" /\ x.settled /\ x.inbox = child[w].inbox
                           /\ Supervise([child EXCEPT ![w] = x])
  <2>1. CASE ExitArrives(w)
    <3> DEFINE x == W!Finished([child[w] EXCEPT !.exitSeen = TRUE])
    <3>1. x \in W!Child /\ x.at = "dead" /\ x.settled /\ x.inbox = child[w].inbox
      BY <1>1, <2>1 DEF ExitArrives, W!ExitArrives, W!Finished, W!Child
    <3>2. Supervise([child EXCEPT ![w] = x])
      BY <1>1, <2>1 DEF ExitArrives, W!NoticedExit
    <3> HIDE DEF x
    <3> QED
      BY <3>1, <3>2
  <2>2. CASE SpawnFails(w)
    <3> DEFINE x == W!Finished([child[w] EXCEPT !.at = "dead", !.exitSeen = TRUE])
    <3>1. x \in W!Child /\ x.at = "dead" /\ x.settled /\ x.inbox = child[w].inbox
      BY <1>1 DEF W!Finished, W!Child, W!Progress
    <3>2. Supervise([child EXCEPT ![w] = x])
      BY <1>1, <2>2 DEF SpawnFails, W!NoticedError
    <3> HIDE DEF x
    <3> QED
      BY <3>1, <3>2
  <2> QED
    BY <2>1, <2>2
<1>3. Honest(x) /\ ~Active(x) /\ (Wrote(x) => Wrote(child[w]))
  BY <1>2 DEF Honest, Active, Wrote, W!Working
<1>4. OnSettled /\ UNCHANGED scanning
  BY DEF ExitArrives, SpawnFails
<1>5. CASE W!Unsettled(w) /\ R!Rejected(w[1], "worker")
  <2>1. /\ RP!IInv' /\ About(w[1])
        /\ entry'[w[1]].finished => entry'[w[1]].status # "succeeded"
    BY <1>1, <1>5, RejectedEffect DEF SInv, R!Causes
  <2>2. Active(child[w])
    BY <1>5 DEF Active, W!Unsettled
  <2> QED
    BY <1>2, <1>3, <1>4, <2>1, <2>2, EventKeeps DEF OnlyBySuccess, LiveStep
<1>6. CASE UNCHANGED registry
  <2>1. RP!IInv' /\ \A j \in Ids : Kept(j)
    BY <1>6, RegistryRests DEF SInv
  <2> QED
    BY <1>2, <1>3, <1>4, <2>1, EventKeeps DEF OnlyBySuccess, LiveStep
<1> QED
  BY <1>5, <1>6 DEF ExitArrives, SpawnFails

-----------------------------------------------------------------------------
(* A child on its own *)

LEMMA AppendStage ==
  ASSUME NEW q \in Seq({"stage"} \cup W!Reports), NEW m \in {"stage"} \cup W!Reports
  PROVE  /\ Append(q, m) \in Seq({"stage"} \cup W!Reports)
         /\ Len(Append(q, m)) = Len(q) + 1 /\ Len(q) \in Nat
         /\ \A i \in 1 .. Len(q) + 1 :
              Append(q, m)[i] = IF i = Len(q) + 1 THEN m ELSE q[i]
BY AppendProperties, LenProperties

\* What such a step makes of the child; the three that touch a file come after.
Ordinary(w, x) ==
  /\ x \in W!Child /\ child' = [child EXCEPT ![w] = x] /\ Honest(x)
  /\ Active(x) => Active(child[w])
  /\ Wrote(x) => Wrote(child[w])

LEMMA HardKillsIsOrdinary ==
  ASSUME NEW F, SInv(F), NEW w \in W!Workers, W!HardKills(w) \/ W!Dies(w)
  PROVE  \E x : Ordinary(w, x)
<1>1. child[w] \in W!Child /\ child \in [W!Workers -> W!Child] /\ Honest(child[w])
  BY DEF SInv, ChildrenStand
<1>2. CASE W!HardKills(w)
  <2> DEFINE x == [child[w] EXCEPT !.hardKill = FALSE,
                                   !.at = IF child[w].at \in W!Living THEN "dead" ELSE child[w].at]
  <2>1. child' = [child EXCEPT ![w] = x]
    BY <1>1, <1>2 DEF W!HardKills, W!Child
  <2>2. /\ x \in W!Child /\ x.inbox = child[w].inbox /\ x.settled = child[w].settled
        /\ x.at = IF child[w].at \in W!Living THEN "dead" ELSE child[w].at
    BY <1>1 DEF W!Child, W!Progress
  <2>3. Honest(x) /\ (Active(x) => Active(child[w])) /\ (Wrote(x) => Wrote(child[w]))
    BY <1>1, <2>2 DEF Honest, Active, Wrote, W!Living, W!Working, W!Unborn
  <2> HIDE DEF x
  <2> QED
    BY <2>1, <2>2, <2>3 DEF Ordinary
<1>3. CASE W!Dies(w)
  <2> DEFINE x == [child[w] EXCEPT !.at = "dead"]
  <2>1. child' = [child EXCEPT ![w] = x] /\ child[w].at \in W!Living
    BY <1>1, <1>3 DEF W!Dies, W!Child
  <2>2. /\ x \in W!Child /\ x.inbox = child[w].inbox /\ x.settled = child[w].settled
        /\ x.at = "dead"
    BY <1>1 DEF W!Child, W!Progress
  <2>3. Honest(x) /\ (Active(x) => Active(child[w])) /\ (Wrote(x) => Wrote(child[w]))
    BY <1>1, <2>1, <2>2 DEF Honest, Active, Wrote, W!Living, W!Working, W!Unborn
  <2> HIDE DEF x
  <2> QED
    BY <2>1, <2>2, <2>3 DEF Ordinary
<1> QED
  BY <1>2, <1>3

LEMMA StartCloneIsOrdinary ==
  ASSUME NEW F, SInv(F), NEW w \in W!Workers, W!StartClone(w)
  PROVE  \E x : Ordinary(w, x)
<1> DEFINE x == [child[w] EXCEPT !.at = "clone", !.workspace = TRUE,
                                 !.inbox = Append(child[w].inbox, "stage")]
<1>1. /\ child[w] \in W!Child /\ child \in [W!Workers -> W!Child] /\ Honest(child[w])
      /\ child[w].inbox \in Seq({"stage"} \cup W!Reports)
      /\ child[w].at = "starting"
  BY DEF SInv, ChildrenStand, W!Child, W!StartClone
<1>2. child' = [child EXCEPT ![w] = x]
  BY <1>1 DEF W!StartClone, W!Child
<1>3. /\ Append(child[w].inbox, "stage") \in Seq({"stage"} \cup W!Reports)
      /\ Len(Append(child[w].inbox, "stage")) = Len(child[w].inbox) + 1
      /\ Len(child[w].inbox) \in Nat
      /\ \A i \in 1 .. Len(child[w].inbox) + 1 :
           Append(child[w].inbox, "stage")[i] =
             IF i = Len(child[w].inbox) + 1 THEN "stage" ELSE child[w].inbox[i]
  BY <1>1, AppendStage
<1>4. /\ x \in W!Child /\ x.inbox = Append(child[w].inbox, "stage")
      /\ x.settled = child[w].settled /\ x.at = "clone"
  BY <1>1, <1>3 DEF W!Child, W!Progress, W!Living, W!Working
<1> HIDE DEF x
<1>5. Honest(x)
  BY <1>1, <1>3, <1>4 DEF Honest, W!Working
<1>6. (Active(x) => Active(child[w])) /\ (Wrote(x) => Wrote(child[w]))
  BY <1>1, <1>3, <1>4 DEF Active, Wrote, W!Unborn
<1> QED
  BY <1>2, <1>4, <1>5, <1>6 DEF Ordinary

LEMMA AnswerIsOrdinary ==
  ASSUME NEW F, SInv(F), NEW w \in W!Workers, NEW report \in W!Reports, W!Answer(w, report)
  PROVE  \E x : Ordinary(w, x)
<1> DEFINE x == [child[w] EXCEPT !.at = "sent", !.workspace = FALSE,
                                 !.inbox = Append(child[w].inbox, report)]
<1>1. /\ child[w] \in W!Child /\ child \in [W!Workers -> W!Child] /\ Honest(child[w])
      /\ child[w].inbox \in Seq({"stage"} \cup W!Reports)
      /\ child[w].at \in W!Working
      /\ report = "none" => child[w].at = "wrote"
  BY DEF SInv, ChildrenStand, W!Child, W!Answer, W!Working
<1>2. child' = [child EXCEPT ![w] = x]
  BY <1>1 DEF W!Answer, W!Child
<1>3. /\ Append(child[w].inbox, report) \in Seq({"stage"} \cup W!Reports)
      /\ Len(Append(child[w].inbox, report)) = Len(child[w].inbox) + 1
      /\ Len(child[w].inbox) \in Nat
      /\ \A i \in 1 .. Len(child[w].inbox) + 1 :
           Append(child[w].inbox, report)[i] =
             IF i = Len(child[w].inbox) + 1 THEN report ELSE child[w].inbox[i]
  BY <1>1, AppendStage
<1>4. /\ x \in W!Child /\ x.inbox = Append(child[w].inbox, report)
      /\ x.settled = child[w].settled /\ x.at = "sent"
  BY <1>1, <1>3 DEF W!Child, W!Progress, W!Living, W!Working
<1> HIDE DEF x
<1>5. Honest(x)
  BY <1>4 DEF Honest, W!Working
<1>6. (Active(x) => Active(child[w])) /\ (Wrote(x) => Wrote(child[w]))
  BY <1>1, <1>3, <1>4 DEF Active, Wrote, W!Unborn, W!Working
<1> QED
  BY <1>2, <1>4, <1>5, <1>6 DEF Ordinary

LEMMA StageIsOrdinary ==
  ASSUME NEW F, SInv(F), NEW w \in W!Workers, W!StageArrives(w), child' = W!TakenStage(w)
  PROVE  \E x : Ordinary(w, x)
<1> DEFINE x == [child[w] EXCEPT !.inbox = Tail(child[w].inbox)]
<1>1. /\ child[w] \in W!Child /\ child \in [W!Workers -> W!Child] /\ Honest(child[w])
      /\ child[w].inbox \in Seq({"stage"} \cup W!Reports)
      /\ child[w].inbox # <<>>
  BY DEF SInv, ChildrenStand, W!Child, W!StageArrives
<1>2. child' = [child EXCEPT ![w] = x]
  BY <1>1 DEF W!TakenStage, W!Child
<1>3. /\ Tail(child[w].inbox) \in Seq({"stage"} \cup W!Reports)
      /\ \A i \in 1 .. Len(Tail(child[w].inbox)) :
           i + 1 \in 1 .. Len(child[w].inbox) /\ Tail(child[w].inbox)[i] = child[w].inbox[i + 1]
  BY <1>1, HeadTailProperties
<1>4. /\ x \in W!Child /\ x.inbox = Tail(child[w].inbox)
      /\ x.settled = child[w].settled /\ x.at = child[w].at
  BY <1>1, <1>3 DEF W!Child
<1> HIDE DEF x
<1>5. Honest(x)
  BY <1>1, <1>3, <1>4 DEF Honest
<1>6. (Active(x) => Active(child[w])) /\ (Wrote(x) => Wrote(child[w]))
  BY <1>1, <1>3, <1>4 DEF Active, Wrote
<1> QED
  BY <1>2, <1>4, <1>5, <1>6 DEF Ordinary

LEMMA OrdinaryStep ==
  ASSUME NEW F, SInv(F), NEW w \in W!Workers,
         \/ HardKills(w) \/ Dies(w) \/ StartClone(w) \/ Answer(w) \/ StageArrives(w)
  PROVE  SInv(F)' /\ LiveStep(F)
<1>1. PICK x : Ordinary(w, x)
  BY HardKillsIsOrdinary, StartCloneIsOrdinary, AnswerIsOrdinary, StageIsOrdinary
     DEF HardKills, Dies, StartClone, Answer, StageArrives
<1>2. UNCHANGED <<holder, scanning>>
  BY DEF HardKills, Dies, StartClone, Answer, StageArrives
<1>3. RP!IInv' /\ \A j \in Ids : Kept(j)
  <2>1. CASE UNCHANGED registry
    BY <2>1, RegistryRests DEF SInv
  <2>2. CASE R!StageReported(w[1], w[2])
    <3>1. RP!StageReported(w[1], w[2]) /\ w[1] \in RP!Ids /\ w[2] \in RP!Attempts
      BY <2>2, Worker, SameMarks
         DEF Ids, R!Ids, RP!Ids, Attempts, R!Attempts, RP!Attempts
    <3>2. RP!IInv' /\ \A j \in RP!Ids : RP!Kept(j)
      BY <3>1, RP!MarksEffect, RegistryAssumption DEF SInv
    <3> QED
      BY <3>2, SameKept DEF Ids, R!Ids, RP!Ids
  <2> QED
    BY <2>1, <2>2 DEF HardKills, Dies, StartClone, Answer, StageArrives
<1>4. SInv(F)'
  BY <1>1, <1>2, <1>3, ChildKeeps DEF Ordinary
<1> QED
  BY <1>2, <1>4 DEF LiveStep, holder

\* A child that computes writes the file bound to its job, and no other's.
LEMMA WriterKeeps ==
  ASSUME NEW F, SInv(F), NEW w \in W!Workers, NEW x \in W!Child, NEW g \in H!Contents,
         child[w].at \in W!Working, x.at \in {"scan", "wrote"},
         x.inbox = child[w].inbox, x.settled = child[w].settled,
         child' = [child EXCEPT ![w] = x],
         disk' = [disk EXCEPT ![staging[w[1]]] = g], x.at = "wrote" => g = w[1],
         UNCHANGED <<registry, session, staged, staging, leaked, scanning>>
  PROVE  SInv(F)' /\ LiveStep(F)
<1> DEFINE p == staging[w[1]]
<1>1. /\ child \in [W!Workers -> W!Child] /\ Honest(child[w])
      /\ Active(child[w]) /\ Current(w) /\ w[1] \in Ids
  BY Worker DEF SInv, ChildrenStand, Honest, Active, W!Working, W!Unborn
<1>2. /\ Pending(w[1]) /\ p # 0 /\ p \in 0 .. MaxStaged
      /\ disk \in [H!Paths -> H!Contents]
  BY <1>1, RunningPends DEF SInv, FilesStand, H!TypeOK, H!Unbound, Current
<1>3. p \in H!Paths /\ p # H!Live /\ H!Live \in H!Paths
  BY <1>2, MaxStagedAssumption DEF H!Paths, H!Live
<1>4. /\ disk' \in [H!Paths -> H!Contents] /\ disk'[p] = g
      /\ \A y \in H!Paths \ {p} : disk'[y] = disk[y]
  BY <1>2, <1>3
<1>5. /\ child' \in [W!Workers -> W!Child] /\ child'[w] = x
      /\ \A v \in W!Workers \ {w} : child'[v] = child[v]
  BY <1>1
<1>6. Honest(x) /\ (Wrote(x) => x.at = "wrote")
  BY <1>1 DEF Honest, Wrote, W!Working
<1>7. RP!IInv' /\ \A j \in Ids : Kept(j)
  BY RegistryRests DEF SInv
<1>8. ChildrenStand'
  <2>1. \A v \in W!Workers : Honest(child'[v]) /\ (Active(child'[v]) => Current(v)')
    BY <1>1, <1>5, <1>6 DEF SInv, ChildrenStand, Current, registry
  <2> QED
    BY <1>5, <2>1 DEF ChildrenStand, Honest, Active, Current
<1>9. FilesStand'
  <2>1. H!TypeOK'
    BY <1>4 DEF SInv, FilesStand, H!TypeOK
  <2>2. \A i \in Ids : /\ Pending(i)' <=> staging'[i] # H!Unbound
                      /\ staging'[i] <= staged'
    BY <1>7 DEF SInv, FilesStand, Kept
  <2>3. \A y \in H!Paths \ {H!Live} :
          disk'[y] # NoFile => y \in leaked' \/ \E i \in Ids : staging'[i] = y
    BY <1>1, <1>4 DEF SInv, FilesStand
  <2> QED
    BY <2>1, <2>2, <2>3 DEF SInv, FilesStand
<1>10. ASSUME NEW v \in W!Workers, Active(child'[v]), Wrote(child'[v])
       PROVE  disk'[staging[v[1]]] \in {v[1]} \cup F
  <2>1. CASE v = w
    BY <1>4, <1>5, <1>6, <1>10, <2>1
  <2>2. CASE v # w
    <3>1. Active(child[v]) /\ Wrote(child[v]) /\ Current(v) /\ v[1] \in Ids
      BY <1>5, <1>10, <2>2, Worker DEF SInv, ChildrenStand
    <3>2. v[1] # w[1]
      BY <1>1, <2>2, <3>1, OneActive DEF SInv
    <3>3. staging[v[1]] # 0 /\ staging[v[1]] # p /\ staging[v[1]] \in 0 .. MaxStaged
      BY <1>1, <1>2, <3>1, <3>2, RunningPends
         DEF SInv, FilesStand, H!TypeOK, H!Unbound, Current
    <3>4. staging[v[1]] \in H!Paths \ {p}
      BY <3>3, MaxStagedAssumption DEF H!Paths
    <3> QED
      BY <1>4, <3>1, <3>4 DEF SInv, GraphsStand
  <2> QED
    BY <2>1, <2>2
<1>11. GraphsStand(F)'
  BY <1>10 DEF GraphsStand, Active, Wrote
<1>12. disk'[H!Live] = disk[H!Live]
  BY <1>3, <1>4
<1>13. SessionStands(F)' /\ scanning' \subseteq Scans
  BY <1>12 DEF SInv, SessionStands
<1> QED
  BY <1>7, <1>8, <1>9, <1>11, <1>12, <1>13 DEF SInv, LiveStep

LEMMA WriterStep ==
  ASSUME NEW F, SInv(F), NEW w \in W!Workers, StartScan(w) \/ Commit(w)
  PROVE  SInv(F)' /\ LiveStep(F)
<1>1. child[w] \in W!Child /\ child \in [W!Workers -> W!Child] /\ w[1] \in Ids
  BY Worker DEF SInv, ChildrenStand
<1>2. disk \in [H!Paths -> H!Contents] /\ staging[w[1]] \in H!Paths
  BY <1>1, MaxStagedAssumption DEF SInv, FilesStand, H!TypeOK, H!Paths, H!Live
<1>3. CASE StartScan(w)
  <2> DEFINE x == [child[w] EXCEPT !.at = "scan"]
             g == IF disk[staging[w[1]]] = NoFile THEN Blank ELSE disk[staging[w[1]]]
  <2>1. child' = [child EXCEPT ![w] = x] /\ child[w].at = "clone"
    BY <1>1, <1>3 DEF StartScan, W!StartScan, W!Child
  <2>2. /\ x \in W!Child /\ x.at = "scan"
        /\ x.inbox = child[w].inbox /\ x.settled = child[w].settled
    BY <1>1 DEF W!Child, W!Progress, W!Living, W!Working
  <2>3. g \in H!Contents /\ disk' = [disk EXCEPT ![staging[w[1]]] = g]
    BY <1>2, <1>3 DEF StartScan, H!Create, H!Contents
  <2>4. UNCHANGED <<registry, session, staged, staging, leaked, scanning>>
    BY <1>3 DEF StartScan
  <2> HIDE DEF x, g
  <2> QED
    BY <2>1, <2>2, <2>3, <2>4, WriterKeeps DEF W!Working
<1>4. CASE Commit(w)
  <2> DEFINE x == [child[w] EXCEPT !.at = "wrote"]
  <2>1. child' = [child EXCEPT ![w] = x] /\ child[w].at = "scan"
    BY <1>1, <1>4 DEF Commit, W!Commit, W!Child
  <2>2. /\ x \in W!Child /\ x.at = "wrote"
        /\ x.inbox = child[w].inbox /\ x.settled = child[w].settled
    BY <1>1 DEF W!Child, W!Progress, W!Living, W!Working
  <2>3. w[1] \in H!Contents /\ disk' = [disk EXCEPT ![staging[w[1]]] = w[1]]
    BY <1>1, <1>4 DEF Commit, H!Write, H!Contents, Graphs
  <2>4. UNCHANGED <<registry, session, staged, staging, leaked, scanning>>
    BY <1>4 DEF Commit
  <2> HIDE DEF x
  <2> QED
    BY <2>1, <2>2, <2>3, <2>4, WriterKeeps DEF W!Working
<1> QED
  BY <1>3, <1>4

-----------------------------------------------------------------------------
(* The theorems *)

LEMMA StutterStep ==
  ASSUME NEW F, SInv(F), UNCHANGED vars
  PROVE  SInv(F)' /\ UNCHANGED disk
<1>1. /\ UNCHANGED <<registry, child, staged, staging, leaked, disk, session>>
      /\ scanning' \subseteq Scans
  BY DEF SInv, vars, holder
<1>2. H!TypeOK' /\ SessionStands(F)' /\ staged <= staged'
  BY <1>1, MaxStagedAssumption DEF SInv, FilesStand, H!TypeOK, SessionStands
<1> QED
  BY <1>1, <1>2, HolderKeeps

LEMMA NextStep ==
  ASSUME NEW F, SInv(F), Next
  PROVE  SInv(F)' /\ LiveStep(F)
<1>1. CASE Submit
  BY <1>1, StartStep DEF Submit
<1>2. CASE Read
  BY <1>2, ReadStep
<1>3. ASSUME NEW id \in Ids, RetryJob(id) PROVE SInv(F)' /\ LiveStep(F)
  BY <1>3, StartStep DEF RetryJob, R!Retry
<1>4. ASSUME NEW id \in Ids, RetryRefused(id) PROVE SInv(F)' /\ LiveStep(F)
  BY <1>4, ReadStep
<1>5. ASSUME NEW id \in Ids, Cancel(id) \/ Deadline(id) PROVE SInv(F)' /\ LiveStep(F)
  BY <1>5, CancelStep, DeadlineStep
<1>6. ASSUME NEW k \in Scans, ScanBegins(k) \/ ScanWrites(k) \/ ScanFails(k)
      PROVE  SInv(F)' /\ LiveStep(F)
  BY <1>6, ScanBeginsStep, ScanWritesStep, ScanFailsStep
<1>7. ASSUME NEW w \in W!Workers,
             \/ HardKills(w) \/ Dies(w) \/ StartClone(w) \/ Answer(w) \/ StageArrives(w)
      PROVE  SInv(F)' /\ LiveStep(F)
  BY <1>7, OrdinaryStep
<1>8. ASSUME NEW w \in W!Workers, DoneArrives(w) PROVE SInv(F)' /\ LiveStep(F)
  BY <1>8, DoneStep
<1>9. ASSUME NEW w \in W!Workers, ExitArrives(w) \/ SpawnFails(w)
      PROVE  SInv(F)' /\ LiveStep(F)
  BY <1>9, GoneStep
<1>10. ASSUME NEW w \in W!Workers, StartScan(w) \/ Commit(w) PROVE SInv(F)' /\ LiveStep(F)
  BY <1>10, WriterStep
<1> QED
  BY <1>1, <1>2, <1>3, <1>4, <1>5, <1>6, <1>7, <1>8, <1>9, <1>10 DEF Next

\* A process that has just started on a directory where every staged file is given up.
Fresh ==
  /\ R!Init /\ W!WInit /\ scanning = {}
  /\ session = NoSession /\ staged = 0
  /\ staging = [id \in Ids |-> H!Unbound]
  /\ disk \in [H!Paths -> H!Contents] /\ leaked \subseteq 1 .. MaxStaged
  /\ \A p \in H!Paths \ {H!Live} : disk[p] # NoFile => p \in leaked

LEMMA FreshStands ==
  ASSUME NEW F
  PROVE  Fresh => SInv(F)
<1> SUFFICES ASSUME Fresh PROVE SInv(F)
  OBVIOUS
<1>1. RP!IInv
  <2>1. RP!Init
    BY DEF Fresh, R!Init, RP!Init, R!Ids, RP!Ids, R!Absent, RP!Absent,
           R!Submitted, RP!Submitted
  <2> QED
    BY <2>1, RP!InitIsReady, RegistryAssumption
<1>2. ChildrenStand /\ GraphsStand(F)
  <2>1. \A w \in W!Workers : child[w] = W!NoChild
    BY DEF Fresh, W!WInit
  <2>2. child \in [W!Workers -> W!Child]
    BY ForkedType DEF Fresh, W!WInit
  <2> QED
    BY <2>1, <2>2, ForkedType DEF ChildrenStand, GraphsStand
<1>3. FilesStand
  <2>1. \A i \in Ids : ~Pending(i) /\ staging[i] = 0
    <3>1. \A i \in Ids : entry[i].status = "absent"
      BY DEF Fresh, R!Init, R!Absent, R!Submitted, Ids
    <3> QED
      BY <3>1 DEF Fresh, H!Unbound, Pending, R!Known
  <2>2. H!TypeOK
    BY MaxStagedAssumption DEF Fresh, H!TypeOK, H!Unbound
  <2> QED
    BY <2>1, <2>2 DEF FilesStand, Fresh, H!Unbound
<1> QED
  BY <1>1, <1>2, <1>3 DEF SInv, Fresh, SessionStands

LEMMA InitStands ==
  ASSUME NEW F
  PROVE  Init => SInv(F)
<1>1. Init => Fresh
  BY DEF Init, H!Init, Fresh, H!Contents, H!Paths
<1> QED
  BY <1>1, FreshStands

\* The registry's invariant, what the children may be doing and what the files hold,
\* together: each is needed for the step of the others.
THEOREM ServiceStands == Spec => []SInv({})
<1>1. SInv({}) /\ [Next]_vars => SInv({})'
  BY NextStep, StutterStep
<1>2. Init => SInv({})
  BY InitStands
<1> QED
  BY <1>1, <1>2, PTL DEF Spec

\* What follows from the invariant, in one process as in the next.
LEMMA StandsSupervised ==
  ASSUME NEW F, SInv(F)
  PROVE  WorkersAreSupervised
<1> SUFFICES ASSUME NEW w \in W!Workers, child[w].at \in W!Working
             PROVE  /\ w[1] \in running /\ entry[w[1]].attempts = w[2]
                    /\ staging[w[1]] # H!Unbound
  BY DEF WorkersAreSupervised
<1>1. Current(w) /\ w[1] \in Ids
  BY Worker DEF SInv, ChildrenStand, Honest, Active, W!Working, W!Unborn
<1>2. w[1] \in running
  BY <1>1 DEF SInv, RP!IInv, RP!Ready, RP!Consistent, RP!Ids, Ids, R!Ids, Current
<1>3. staging[w[1]] # H!Unbound
  BY <1>1, RunningPends DEF SInv, FilesStand, Current
<1> QED
  BY <1>1, <1>2, <1>3 DEF Current

LEMMA StandsOwned ==
  ASSUME NEW F, SInv(F)
  PROVE  StagedFilesAreOwned
<1>1. \A i \in Ids : staging[i] # H!Unbound => Needs(i, staging[i])
  BY DEF SInv, FilesStand, Pending, Needs, R!Finished
<1>2. ASSUME NEW p \in H!Paths \ {H!Live}, disk[p] # NoFile
      PROVE  p \in leaked \/ \E i \in Ids : Needs(i, p)
  BY <1>1, <1>2 DEF SInv, FilesStand, H!Live, H!Unbound
<1> QED
  BY <1>1, <1>2 DEF StagedFilesAreOwned, SInv, FilesStand

\* A process that computes belongs to the current attempt of a job that holds a slot,
\* whatever is cancelled, retried, killed or late (worker-executor.ts, #run).
THEOREM NoWorkerIsOrphaned == Spec => []WorkersAreSupervised
<1>1. SInv({}) => WorkersAreSupervised
  BY StandsSupervised
<1> QED
  BY <1>1, ServiceStands, PTL

\* "Either becomes the graph or becomes rubbish" (settle): every staged database on disk
\* has a job that may still need it, or the file system kept it; none has two.
THEOREM NoStagedFileIsOrphaned == Spec => []StagedFilesAreOwned
<1>1. SInv({}) => StagedFilesAreOwned
  BY StandsOwned
<1> QED
  BY <1>1, ServiceStands, PTL

\* An open session reads the file that is live now (graph-holder.ts: adopt, reopen).
THEOREM SessionsAreCurrent == Spec => []SessionMatchesLive
<1>1. SInv({}) => SessionMatchesLive
  BY DEF SInv, SessionStands, SessionMatchesLive
<1> QED
  BY <1>1, ServiceStands, PTL

\* The graph users see changes by a job that succeeded, which installs its own graph, or
\* by a scan; never by one that failed, was stopped, timed out or lost its worker.
THEOREM OnlySuccessInstalls == Spec => LiveChangesOnSuccess
<1>1. SInv({}) /\ [Next]_vars =>
        [disk'[H!Live] # disk[H!Live] =>
           \/ \E id \in Settling : /\ entry'[id].status = "succeeded"
                                   /\ disk'[H!Live] = id
           \/ \E k \in scanning : disk'[H!Live] = k
           \/ disk[H!Live] = NoFile /\ disk'[H!Live] = Blank]_vars
  BY NextStep DEF LiveStep
<1> QED
  BY <1>1, ServiceStands, PTL DEF Spec, LiveChangesOnSuccess

-----------------------------------------------------------------------------
(* A process that dies, and the one that comes after it                    *)
(*                                                                         *)
(* An orphan may write the database of a job once more, or the live one    *)
(* when its file has become that, so a graph found there is a job's own or *)
(* Earlier; but it is a whole one, and no other file is written that has   *)
(* not been given up.                                                      *)

OrphansStand ==
  \A o \in orphans : /\ o \in Orphan /\ o.name \in leaked
                     /\ o.at \subseteq {o.name, H!Live}

RestartStands ==
  /\ SInv({Earlier})
  /\ crashes \in 0 .. MaxCrashes
  /\ OrphansStand

\* Fresh of the process that a crash makes way for.
LEMMA FreshAgain == Fresh' => SInv({Earlier})'
<1>1. Fresh => SInv({Earlier})
  BY FreshStands
<1> QED
  BY <1>1, PTL

LEMMA LeakedGrow ==
  ASSUME NEW F, SInv(F), [Next]_vars
  PROVE  leaked \subseteq leaked'
<1>1. CASE UNCHANGED holder
  BY <1>1 DEF holder
<1>2. CASE UNCHANGED leaked
  BY <1>2
<1>3. CASE OnSettled
  BY <1>1, <1>3 DEF OnSettled, H!Settle, H!Adopt, H!Discard
<1>4. CASE Submit \/ (\E id \in Ids : RetryJob(id))
  BY <1>4 DEF Submit, RetryJob, H!StageFor
<1>5. CASE Read \/ \E id \in Ids : RetryRefused(id)
  BY <1>2, <1>5 DEF Read, H!Read, RetryRefused, H!StageInVain
<1>6. CASE \E id \in Ids : Cancel(id) \/ Deadline(id)
  BY <1>1, <1>3, <1>6 DEF Cancel, Deadline
<1>7. CASE \E k \in Scans : ScanBegins(k) \/ ScanWrites(k) \/ ScanFails(k)
  BY <1>1, <1>2, <1>7 DEF ScanBegins, ScanWrites, ScanFails
<1>8. CASE \E w \in W!Workers : HardKills(w) \/ StageArrives(w) \/ StartClone(w)
                                \/ Answer(w) \/ Dies(w)
  BY <1>1, <1>8 DEF HardKills, StageArrives, StartClone, Answer, Dies
<1>9. CASE \E w \in W!Workers : DoneArrives(w) \/ ExitArrives(w) \/ SpawnFails(w)
  BY <1>3, <1>9 DEF DoneArrives, ExitArrives, SpawnFails
<1>10. CASE \E w \in W!Workers : StartScan(w) \/ Commit(w)
  BY <1>2, <1>10 DEF StartScan, Commit
<1>11. CASE UNCHANGED vars
  BY <1>1, <1>11 DEF vars, holder
<1> QED
  BY <1>4, <1>5, <1>6, <1>7, <1>8, <1>9, <1>10, <1>11 DEF Next

\* What is on disk keeps its kind: no file is made or lost, and a graph stays one.
LEMMA RenamedKeeps ==
  ASSUME NEW content \in H!Contents
  PROVE  /\ Renamed(content) \in H!Contents
         /\ Renamed(content) = NoFile <=> content = NoFile
         /\ content \in Graphs => Renamed(content) \in Graphs
BY ContentAssumption, EarlierAssumption DEF Renamed, H!Contents, Graphs

LEMMA CrashStep ==
  ASSUME RestartStands, Crash
  PROVE  RestartStands' /\ (disk[H!Live] \in Graphs => disk'[H!Live] \in Graphs)
<1>1. H!TypeOK /\ OrphansStand /\ crashes \in 0 .. MaxCrashes
  BY DEF RestartStands, SInv, FilesStand
<1>2. disk' = [p \in H!Paths |-> Renamed(disk[p])] /\ disk \in [H!Paths -> H!Contents]
  BY <1>1 DEF Crash, H!TypeOK
<1>3. disk' \in [H!Paths -> H!Contents]
  BY <1>2, RenamedKeeps
<1>4. crashes' \in 1 .. MaxCrashes
  BY <1>1, MaxCrashesAssumption DEF Crash
<1>5. ASSUME NEW o \in orphans' PROVE o \in Orphan /\ o.at \subseteq {o.name, H!Live}
  <2>1. CASE o \in orphans
    BY <1>1, <2>1 DEF OrphansStand
  <2>2. CASE o \notin orphans
    <3>1. PICK w \in Outlive : o = [life |-> crashes', name |-> staging[w[1]],
                                    open |-> FALSE, at |-> {}]
      BY <1>5, <2>2 DEF Crash
    <3>2. staging[w[1]] \in 1 .. MaxStaged
      BY <1>1, Worker, MaxStagedAssumption DEF Outlive, H!TypeOK, H!Unbound
    <3> QED
      BY <1>4, <3>1, <3>2 DEF Orphan
  <2> QED
    BY <2>1, <2>2
<1>6. /\ leaked' = {p \in 1 .. MaxStaged : disk[p] # NoFile} \cup {o.name : o \in orphans'}
      /\ leaked' \subseteq 1 .. MaxStaged
  BY <1>5 DEF Crash, Orphan
<1>7. OrphansStand'
  BY <1>5, <1>6 DEF OrphansStand, Orphan, H!Paths, H!Live
<1>8. Fresh'
  <2>1. R!Init' /\ W!WInit'
    BY DEF Crash, R!Init, W!WInit, Ids
  <2>2. \A p \in H!Paths \ {H!Live} : disk'[p] # NoFile => p \in leaked'
    BY <1>2, <1>6, RenamedKeeps DEF H!Paths
  <2> QED
    BY <1>3, <1>6, <2>1, <2>2 DEF Crash, Fresh
<1>9. disk[H!Live] \in Graphs => disk'[H!Live] \in Graphs
  BY <1>2, RenamedKeeps DEF H!Paths
<1> QED
  BY <1>4, <1>7, <1>8, <1>9, FreshAgain DEF RestartStands

\* An orphan writes files that have been given up, or the live one: no job waits for them,
\* and what a worker said it wrote is there or Earlier is.
LEMMA OrphanWrites ==
  ASSUME RestartStands, NEW some, disk' \in [H!Paths -> H!Contents],
         \A p \in H!Paths \ some : disk'[p] = disk[p],
         some \subseteq leaked \cup {H!Live},
         \A p \in some : disk'[p] = Earlier \/ (disk[p] = NoFile /\ p # H!Live)
                          \/ disk'[p] = disk[p],
         UNCHANGED <<registry, child, session, staged, staging, leaked, scanning>>
  PROVE  SInv({Earlier})' /\ (disk[H!Live] \in Graphs => disk'[H!Live] \in Graphs)
<1>1. RP!IInv' /\ \A j \in Ids : Kept(j)
  BY RegistryRests DEF RestartStands, SInv
<1>2. ChildrenStand'
  BY DEF RestartStands, SInv, ChildrenStand, Honest, Active, Current, registry
<1>3. FilesStand'
  <2>1. H!TypeOK'
    BY DEF RestartStands, SInv, FilesStand, H!TypeOK
  <2>2. \A i \in Ids : /\ Pending(i)' <=> staging'[i] # H!Unbound
                      /\ staging'[i] <= staged'
    BY <1>1 DEF RestartStands, SInv, FilesStand, Kept
  <2>3. \A p \in H!Paths \ {H!Live} :
          disk'[p] # NoFile => p \in leaked' \/ \E i \in Ids : staging'[i] = p
    BY DEF RestartStands, SInv, FilesStand
  <2> QED
    BY <2>1, <2>2, <2>3 DEF RestartStands, SInv, FilesStand
<1>4. Earlier \in Graphs /\ NoFile \notin Graphs /\ H!Live \in H!Paths
  BY EarlierAssumption, ContentAssumption DEF Graphs, H!Paths
<1>5. GraphsStand({Earlier})'
  <2> SUFFICES ASSUME NEW w \in W!Workers, Active(child[w]), Wrote(child[w])
               PROVE  disk'[staging[w[1]]] \in {w[1], Earlier}
    BY DEF GraphsStand, Active, Wrote
  <2>1. disk[staging[w[1]]] \in {w[1], Earlier} /\ w[1] \in Ids
    BY Worker DEF RestartStands, SInv, GraphsStand
  <2>2. disk[staging[w[1]]] # NoFile /\ staging[w[1]] \in H!Paths
    BY <1>4, <2>1, MaxStagedAssumption
       DEF RestartStands, SInv, FilesStand, H!TypeOK, H!Paths, H!Live, Graphs
  <2> QED
    BY <2>1, <2>2
<1>6. disk'[H!Live] = disk[H!Live] \/ disk'[H!Live] = Earlier
  BY <1>4
<1>7. SessionStands({Earlier})' /\ scanning' \subseteq Scans
  BY <1>4, <1>6 DEF RestartStands, SInv, SessionStands
<1> QED
  BY <1>1, <1>2, <1>3, <1>4, <1>5, <1>6, <1>7 DEF SInv

LEMMA OrphanStep ==
  ASSUME RestartStands, NEW o \in orphans, OrphanOpens(o) \/ OrphanCommits(o) \/ OrphanExits(o)
  PROVE  RestartStands' /\ (disk[H!Live] \in Graphs => disk'[H!Live] \in Graphs)
<1>1. /\ o \in Orphan /\ o.name \in leaked /\ o.at \subseteq {o.name, H!Live}
      /\ o.name \in H!Paths /\ o.name # H!Live
      /\ disk \in [H!Paths -> H!Contents] /\ crashes \in 0 .. MaxCrashes
  BY DEF RestartStands, OrphansStand, Orphan, SInv, FilesStand, H!TypeOK, H!Paths, H!Live
<1>2. Earlier \in H!Contents /\ Blank \in H!Contents
  BY EarlierAssumption DEF H!Contents, Graphs
<1>3. CASE OrphanExits(o)
  <2>1. UNCHANGED vars /\ UNCHANGED <<crashes, leaked>> /\ orphans' \subseteq orphans
    BY <1>3 DEF OrphanExits, vars, holder
  <2>2. SInv({Earlier})' /\ UNCHANGED disk
    BY <2>1, StutterStep DEF RestartStands
  <2> QED
    BY <2>1, <2>2 DEF RestartStands, OrphansStand
<1>4. CASE OrphanOpens(o)
  <2>1. /\ disk' = [disk EXCEPT ![o.name] = IF @ = NoFile THEN Blank ELSE @]
        /\ UNCHANGED <<registry, child, session, staged, staging, leaked, scanning, crashes>>
    BY <1>4 DEF OrphanOpens, H!Create
  <2>2. /\ disk' \in [H!Paths -> H!Contents]
        /\ \A p \in H!Paths \ {o.name} : disk'[p] = disk[p]
        /\ disk[o.name] = NoFile \/ disk'[o.name] = disk[o.name]
    BY <1>1, <1>2, <2>1
  <2>3. SInv({Earlier})' /\ (disk[H!Live] \in Graphs => disk'[H!Live] \in Graphs)
    <3> DEFINE some == {o.name}
    <3>1. some \subseteq leaked \cup {H!Live} /\ \A p \in H!Paths \ some : disk'[p] = disk[p]
      BY <1>1, <2>2
    <3>2. \A p \in some : disk'[p] = Earlier \/ (disk[p] = NoFile /\ p # H!Live)
                           \/ disk'[p] = disk[p]
      BY <1>1, <2>2
    <3> HIDE DEF some
    <3> QED
      BY <2>1, <2>2, <3>1, <3>2, OrphanWrites
  <2>4. orphans' = (orphans \ {o}) \cup {[o EXCEPT !.open = TRUE, !.at = {o.name}]}
    BY <1>4 DEF OrphanOpens
  <2>5. LET x == [o EXCEPT !.open = TRUE, !.at = {o.name}]
        IN  x \in Orphan /\ x.name \in leaked /\ x.at \subseteq {x.name, H!Live}
    BY <1>1 DEF Orphan
  <2>6. OrphansStand'
    BY <2>1, <2>4, <2>5 DEF RestartStands, OrphansStand
  <2> QED
    BY <1>1, <2>1, <2>3, <2>6 DEF RestartStands
<1>5. CASE OrphanCommits(o)
  <2>1. /\ disk' = [p \in H!Paths |-> IF p \in o.at THEN Earlier ELSE disk[p]]
        /\ UNCHANGED <<registry, child, session, staged, staging, leaked, scanning, crashes>>
        /\ orphans' \subseteq orphans
    BY <1>5 DEF OrphanCommits
  <2>2. disk' \in [H!Paths -> H!Contents] /\ \A p \in H!Paths \ o.at : disk'[p] = disk[p]
    BY <1>1, <1>2, <2>1
  <2>3. o.at \subseteq leaked \cup {H!Live} /\ \A p \in o.at : disk'[p] = Earlier
    BY <1>1, <2>1 DEF H!Paths
  <2>4. SInv({Earlier})' /\ (disk[H!Live] \in Graphs => disk'[H!Live] \in Graphs)
    BY <2>1, <2>2, <2>3, OrphanWrites
  <2> QED
    BY <1>1, <2>1, <2>4 DEF RestartStands, OrphansStand
<1> QED
  BY <1>3, <1>4, <1>5

\* A file that an orphan has open stays where it is, becomes the live one, or is gone.
LEMMA FollowedStand ==
  ASSUME OrphansStand, leaked \subseteq leaked', orphans' = {Followed(o) : o \in orphans}
  PROVE  OrphansStand'
<1> SUFFICES ASSUME NEW o \in orphans
             PROVE  /\ Followed(o) \in Orphan /\ Followed(o).name \in leaked'
                    /\ Followed(o).at \subseteq {Followed(o).name, H!Live}
  BY DEF OrphansStand
<1>1. o \in Orphan /\ o.name \in leaked /\ o.at \subseteq {o.name, H!Live}
  BY DEF OrphansStand
<1>2. \A p : After(p) \subseteq {p, H!Live}
  BY DEF After
<1>3. UNION {After(p) : p \in o.at} \subseteq {o.name, H!Live}
  BY <1>1, <1>2
<1>4. o.name \in H!Paths /\ H!Live \in H!Paths
  BY <1>1 DEF Orphan, H!Paths
<1> QED
  BY <1>1, <1>3, <1>4 DEF Followed, Orphan

LEMMA RestartStep ==
  ASSUME RestartStands, [RNext]_rvars
  PROVE  RestartStands' /\ (disk[H!Live] \in Graphs => disk'[H!Live] \in Graphs)
<1>1. CASE Next /\ orphans' = {Followed(o) : o \in orphans} /\ UNCHANGED crashes
  <2>1. SInv({Earlier})' /\ LiveStep({Earlier}) /\ leaked \subseteq leaked'
    BY <1>1, NextStep, LeakedGrow DEF RestartStands
  <2>2. scanning \subseteq Scans /\ Earlier \in Graphs
    BY EarlierAssumption DEF RestartStands, SInv, Graphs
  <2>3. OrphansStand'
    BY <1>1, <2>1, FollowedStand DEF RestartStands
  <2>4. disk[H!Live] \in Graphs => disk'[H!Live] \in Graphs
    BY <2>1, <2>2, ContentAssumption DEF LiveStep, Settling, Graphs
  <2> QED
    BY <1>1, <2>1, <2>3, <2>4 DEF RestartStands
<1>2. CASE Crash
  BY <1>2, CrashStep
<1>3. CASE \E o \in orphans : OrphanOpens(o) \/ OrphanCommits(o) \/ OrphanExits(o)
  BY <1>3, OrphanStep
<1>4. CASE UNCHANGED rvars
  <2>1. UNCHANGED vars /\ UNCHANGED <<orphans, crashes, leaked>>
    BY <1>4 DEF rvars, vars, holder
  <2>2. SInv({Earlier})' /\ UNCHANGED disk
    BY <2>1, StutterStep DEF RestartStands
  <2> QED
    BY <2>1, <2>2 DEF RestartStands, OrphansStand
<1> QED
  BY <1>1, <1>2, <1>3, <1>4 DEF RNext

LEMMA RestartsStand == RSpec => []RestartStands
<1>1. RInit => RestartStands
  <2> SUFFICES ASSUME RInit PROVE RestartStands
    OBVIOUS
  <2>1. Leftovers \subseteq H!Contents
    BY LeftoversAssumption DEF H!Contents, Graphs
  <2>2. Fresh
    BY <2>1 DEF RInit, Fresh, H!Paths, H!Live
  <2> QED
    BY <2>2, FreshStands, MaxCrashesAssumption DEF RInit, RestartStands, OrphansStand
<1>2. RestartStands /\ [RNext]_rvars => RestartStands'
  BY RestartStep
<1> QED
  BY <1>1, <1>2, PTL DEF RSpec

\* A process started on the directory of one that died owes it nothing: its workers and its
\* staged databases are in the order the first one kept, however often that happens and
\* whatever the workers left behind still write; and its session is of the live graph, unless
\* one of those has written over that.
THEOREM RestartsStartClean ==
  RSpec => [](/\ WorkersAreSupervised /\ StagedFilesAreOwned
              /\ SessionMatchesLive \/ disk[H!Live] = Earlier)
<1>1. RestartStands => WorkersAreSupervised /\ StagedFilesAreOwned
  BY StandsSupervised, StandsOwned DEF RestartStands
<1>2. RestartStands => SessionMatchesLive \/ disk[H!Live] = Earlier
  BY DEF RestartStands, SInv, SessionStands, SessionMatchesLive
<1> QED
  BY <1>1, <1>2, RestartsStand, PTL

\* Once a whole graph is live there is always one: no crash, no worker that outlives its
\* process, wherever the file it has open has got to, and no database left behind puts an
\* empty one in its place.
THEOREM NoCrashLosesTheGraph == RSpec => GraphIsNeverLost
<1>1. RestartStands /\ [RNext]_rvars =>
        [disk[H!Live] \in Graphs => disk'[H!Live] \in Graphs]_rvars
  BY RestartStep
<1> QED
  BY <1>1, RestartsStand, PTL DEF RSpec, GraphIsNeverLost
=============================================================================
