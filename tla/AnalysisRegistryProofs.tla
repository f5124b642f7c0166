----------------------- MODULE AnalysisRegistryProofs -----------------------
(***************************************************************************)
(* What holds of AnalysisRegistry for every number of jobs, workers and    *)
(* retries.  Everything the methods do to the queue goes through Drain, so *)
(* the argument is: Ready is what a method hands to Drain, and Drain gives *)
(* it back (DrainKeepsReady).                                              *)
(***************************************************************************)
EXTENDS AnalysisRegistry, FiniteSetTheorems, SequenceTheorems, TLAPS

USE MaxJobsAssumption, ConcurrencyAssumption, RetriesAssumption,
    HistoryAssumption

\* A job that still waits has an attempt left.
MayBegin(e) ==
  \A id \in Ids : e[id].status = "queued" => e[id].attempts <= Retries

\* A job that holds a worker is in its first attempt at least.
Started(e, r) == \A id \in r : e[id].attempts > 0

Ready(e, q, r) ==
  /\ e \in [Ids -> Entry]
  /\ q \in Seq(Ids)
  /\ r \subseteq Ids
  /\ Consistent(e, q, r)
  /\ MayBegin(e)
  /\ Started(e, r)
  /\ Cardinality(r) <= Concurrency

\* Nothing is remembered of an id that was not handed out yet.
Unused(x) == x.status = "absent" /\ x.attempts = 0 /\ ~x.cancelled
Fresh == \A id \in Ids : id > sequence => Unused(entry[id])

\* The queue is in the order of submission, and nothing newer than one of its
\* members has been given a worker ...
InOrder(e, q) ==
  \A a \in 1 .. Len(q) :
    /\ \A b \in 1 .. Len(q) : a < b => q[a] < q[b]
    /\ \A id \in Ids : q[a] < id => e[id].attempts = 0

\* ... except, when a method calls Drain, a retried job that is about to be given
\* back the worker it just freed.
InLine(e, q, r) ==
  \A a \in 1 .. Len(q) :
    /\ \A b \in 1 .. Len(q) : a < b => q[a] < q[b]
    /\ \/ a = 1 /\ Cardinality(r) < Concurrency
       \/ \A id \in Ids : q[a] < id => e[id].attempts = 0

\* The inductive invariant.
IInv ==
  /\ sequence \in 0 .. MaxJobs
  /\ Ready(entry, queue, running)
  /\ InOrder(entry, queue)
  /\ Fresh

-----------------------------------------------------------------------------
(* Drain *)

LEMMA IdsFinite == \A S \in SUBSET Ids : IsFiniteSet(S) /\ Cardinality(S) \in Nat
<1> TAKE S \in SUBSET Ids
<1>1. IsFiniteSet(Ids)
  BY FS_Interval DEF Ids
<1> QED BY <1>1, FS_Subset, FS_CardinalityType

\* Shifting one more id adds at most that id to the pool.
LEMMA PickedGrows ==
  ASSUME NEW e, NEW q \in Seq(Ids), NEW n \in 1 .. Len(q)
  PROVE  /\ Picked(e, q, n) \subseteq Picked(e, q, n - 1) \cup {q[n]}
         /\ Picked(e, q, n) \subseteq Ids
BY DEF Picked

\* The pool never outgrows its limit: an id is only taken while there is room.
LEMMA DrainKeepsCapacity ==
  ASSUME NEW e, NEW q \in Seq(Ids), NEW r \in SUBSET Ids,
         Cardinality(r) <= Concurrency, Drain(e, q, r)
  PROVE  Cardinality(running') <= Concurrency
<1>1. PICK n \in 0 .. Len(q) :
        /\ n > 0 => Cardinality(r \cup Picked(e, q, n - 1)) < Concurrency
        /\ running' = r \cup Picked(e, q, n)
  BY DEF Drain
<1>2. CASE n = 0
  <2>1. Picked(e, q, n) = {}
    BY <1>2 DEF Picked
  <2>2. running' = r
    BY <1>1, <2>1
  <2> QED BY <2>2
<1>3. CASE n > 0
  <2> DEFINE before == r \cup Picked(e, q, n - 1)
  <2>1. /\ q[n] \in Ids
        /\ before \subseteq Ids
        /\ running' \subseteq before \cup {q[n]}
    BY <1>1, <1>3, PickedGrows DEF Picked
  <2>2. IsFiniteSet(before) /\ Cardinality(before) \in Nat
    BY <2>1, IdsFinite
  <2> HIDE DEF before
  <2>3. /\ IsFiniteSet(before \cup {q[n]})
        /\ Cardinality(before \cup {q[n]}) <= Cardinality(before) + 1
    <3> DEFINE x == q[n]
    <3>1. /\ IsFiniteSet(before \cup {x})
          /\ Cardinality(before \cup {x}) =
               IF x \in before THEN Cardinality(before) ELSE Cardinality(before) + 1
      <4> HIDE DEF x
      <4> QED BY <2>2, FS_AddElement
    <3> QED BY <2>2, <3>1
  <2>4. Cardinality(running') <= Cardinality(before \cup {q[n]})
    BY <2>1, <2>3, FS_Subset
  <2>5. /\ Cardinality(running') \in Nat
        /\ Cardinality(before \cup {q[n]}) \in Nat
    BY <2>1, <2>3, FS_Subset, FS_CardinalityType
  <2>6. Cardinality(before) < Concurrency
    BY <1>1, <1>3 DEF before
  <2> QED BY <2>2, <2>3, <2>4, <2>5, <2>6
<1> QED BY <1>2, <1>3

LEMMA DrainKeepsReady ==
  ASSUME NEW e, NEW q, NEW r, Ready(e, q, r), Drain(e, q, r)
  PROVE  Ready(entry', queue', running')
<1>1. PICK n \in 0 .. Len(q) :
        /\ queue' = SubSeq(q, n + 1, Len(q))
        /\ running' = r \cup Picked(e, q, n)
        /\ entry' = [id \in Ids |-> IF id \in Picked(e, q, n)
                                       THEN Begun(e[id]) ELSE e[id]]
  BY DEF Drain
<1> DEFINE P == Picked(e, q, n)
<1>2. /\ e \in [Ids -> Entry] /\ q \in Seq(Ids) /\ r \in SUBSET Ids
      /\ Consistent(e, q, r) /\ MayBegin(e) /\ Cardinality(r) <= Concurrency
  BY DEF Ready
\* Every queued id may be picked, and only the shifted ones are.
<1>3. /\ P \subseteq Ids
      /\ \A id \in Ids : id \in P <=> \E i \in 1 .. n : q[i] = id
      /\ \A id \in P : e[id].status = "queued" /\ ~e[id].finished
  <2>1. \A i \in 1 .. n : q[i] \in Ids /\ e[q[i]].status = "queued"
    BY <1>2 DEF Consistent
  <2>2. \A i \in 1 .. n : ~e[q[i]].finished
    BY <1>2, <2>1 DEF Consistent, Terminal, Entry
  <2> QED BY <2>1, <2>2 DEF Picked
<1>4. /\ queue' \in Seq(Ids)
      /\ Len(queue') = Len(q) - n
      /\ \A i \in 1 .. Len(queue') : queue'[i] = q[n + i]
  BY <1>1, <1>2
<1>5. entry' \in [Ids -> Entry]
  <2> SUFFICES ASSUME NEW id \in P PROVE Begun(e[id]) \in Entry
    BY <1>1, <1>2
  <2>1. e[id] \in Entry /\ e[id].attempts <= Retries
    BY <1>2, <1>3 DEF MayBegin
  <2>2. e[id].attempts + 1 \in Attempts
    BY <2>1 DEF Entry, Attempts
  <2> QED BY <2>1, <2>2 DEF Begun, Entry, Statuses
<1>6. \A id \in Ids : /\ id \in P => /\ entry'[id].status = "running"
                                     /\ entry'[id].finished = e[id].finished
                      /\ id \notin P => entry'[id] = e[id]
  <2>1. \A id \in Ids : e[id] \in Entry
    BY <1>2
  <2> QED BY <1>1, <2>1 DEF Begun, Entry
<1>7. Consistent(entry', queue', running')
  <2>1. ASSUME NEW i \in 1 .. Len(queue'), queue'[i] \in P PROVE FALSE
    <3>1. n + i \in 1 .. Len(q) /\ queue'[i] = q[n + i]
      BY <1>2, <1>4
    <3>2. queue'[i] \in Ids
      BY <1>2, <3>1
    <3>3. PICK j \in 1 .. n : q[j] = q[n + i]
      BY <1>3, <2>1, <3>1, <3>2
    <3>4. j = n + i
      BY <1>2, <3>1, <3>3 DEF Consistent
    <3> QED BY <3>3, <3>4
  <2>2. \A i \in 1 .. Len(queue') : entry'[queue'[i]].status = "queued"
    BY <1>2, <1>4, <1>6, <2>1 DEF Consistent
  <2>3. \A i, j \in 1 .. Len(queue') : queue'[i] = queue'[j] => i = j
    BY <1>2, <1>4 DEF Consistent
  <2>4. ASSUME NEW id \in Ids, entry'[id].status = "queued"
        PROVE  \E i \in 1 .. Len(queue') : queue'[i] = id
    <3>1. id \notin P /\ e[id].status = "queued"
      BY <1>6, <2>4
    <3>2. PICK k \in 1 .. Len(q) : q[k] = id
      BY <1>2, <3>1 DEF Consistent
    <3>3. k > n
      BY <1>3, <3>1, <3>2
    <3>4. k - n \in 1 .. Len(queue') /\ queue'[k - n] = id
      BY <1>2, <1>4, <3>2, <3>3
    <3> QED BY <3>4
  <2>5. running' = {id \in Ids : entry'[id].status = "running"}
    <3>1. r = {id \in Ids : e[id].status = "running"}
      BY <1>2 DEF Consistent
    <3> QED BY <1>1, <1>3, <1>6, <3>1
  <2>6. \A id \in Ids : entry'[id].finished <=> entry'[id].status \in Terminal
    BY <1>2, <1>3, <1>6 DEF Consistent, Terminal
  <2> QED BY <2>2, <2>3, <2>4, <2>5, <2>6 DEF Consistent
<1>8. MayBegin(entry')
  BY <1>2, <1>6 DEF MayBegin
<1>9. Cardinality(running') <= Concurrency
  BY <1>2, DrainKeepsCapacity
<1>10. Started(entry', running')
  <2>1. ASSUME NEW id \in P PROVE Begun(e[id]).attempts > 0
    BY <1>2, <1>3 DEF Begun, Entry, Attempts
  <2>2. ASSUME NEW id \in r PROVE e[id].attempts > 0
    BY DEF Ready, Started
  <2>3. ASSUME NEW id \in running' PROVE entry'[id].attempts > 0
    <3>1. CASE id \in P
      BY <1>1, <1>3, <2>1, <3>1
    <3>2. CASE id \notin P
      BY <1>1, <1>2, <1>6, <2>2, <3>2
    <3> QED BY <3>1, <3>2
  <2> QED BY <2>3 DEF Started
<1> QED BY <1>1, <1>2, <1>3, <1>4, <1>5, <1>7, <1>8, <1>9, <1>10 DEF Ready

\* Drain only touches the jobs it starts, and those were waiting.
LEMMA DrainTouches ==
  ASSUME NEW e, NEW q, NEW r, Ready(e, q, r), Drain(e, q, r), NEW id \in Ids
  PROVE  \/ entry'[id] = e[id]
         \/ /\ e[id].status = "queued" /\ ~e[id].finished
            /\ entry'[id] = Begun(e[id])
<1>1. PICK n \in 0 .. Len(q) :
        entry' = [i \in Ids |-> IF i \in Picked(e, q, n)
                                  THEN Begun(e[i]) ELSE e[i]]
  BY DEF Drain
<1>2. \A i \in 1 .. n : e[q[i]].status = "queued"
  BY DEF Ready, Consistent
<1>3. id \in Picked(e, q, n) => e[id].status = "queued" /\ ~e[id].finished
  BY <1>2 DEF Picked
<1> QED BY <1>1, <1>3

\* Drain stops because nobody waits or because every worker is taken.
LEMMA DrainLeavesNoIdleWorker ==
  ASSUME NEW e, NEW q \in Seq(Ids), NEW r, Drain(e, q, r)
  PROVE  NoIdleWorker'
<1>1. PICK n \in 0 .. Len(q) :
        /\ n < Len(q) => Cardinality(r \cup Picked(e, q, n)) >= Concurrency
        /\ queue' = SubSeq(q, n + 1, Len(q))
        /\ running' = r \cup Picked(e, q, n)
  BY DEF Drain
<1>2. CASE n < Len(q)
  BY <1>1, <1>2 DEF NoIdleWorker
<1>3. CASE n = Len(q)
  <2>1. queue' = <<>>
    BY <1>1, <1>3
  <2> QED BY <2>1 DEF NoIdleWorker
<1> QED BY <1>2, <1>3

\* Drain serves the front of the queue, so what stays is still in order.
LEMMA DrainKeepsOrder ==
  ASSUME NEW e, NEW q, NEW r, Ready(e, q, r), InLine(e, q, r), Drain(e, q, r)
  PROVE  InOrder(entry', queue')
<1>1. PICK n \in 0 .. Len(q) :
        /\ n < Len(q) => Cardinality(r \cup Picked(e, q, n)) >= Concurrency
        /\ queue' = SubSeq(q, n + 1, Len(q))
        /\ entry' = [id \in Ids |-> IF id \in Picked(e, q, n)
                                       THEN Begun(e[id]) ELSE e[id]]
  BY DEF Drain
<1>2. /\ q \in Seq(Ids) /\ r \in SUBSET Ids
      /\ Cardinality(r) \in Nat
  BY IdsFinite DEF Ready
<1>3. /\ Len(queue') = Len(q) - n
      /\ \A i \in 1 .. Len(queue') : /\ n + i \in 1 .. Len(q)
                                     /\ queue'[i] = q[n + i] /\ queue'[i] \in Ids
  BY <1>1, <1>2
<1>4. ASSUME NEW a \in 1 .. Len(queue'), NEW b \in 1 .. Len(queue'), a < b
      PROVE  queue'[a] < queue'[b]
  <2>1. n + a < n + b
    BY <1>3, <1>4
  <2> QED BY <1>3, <2>1 DEF InLine
<1>5. ASSUME NEW a \in 1 .. Len(queue'), NEW id \in Ids, queue'[a] < id
      PROVE  entry'[id].attempts = 0
  \* If the exempted front were still waiting, there would have been room for it.
  <2>1. ~(n + a = 1 /\ Cardinality(r) < Concurrency)
    <3> SUFFICES ASSUME n + a = 1, Cardinality(r) < Concurrency PROVE FALSE
      OBVIOUS
    <3>1. n = 0 /\ n < Len(q)
      BY <1>2, <1>3
    <3>2. Picked(e, q, n) = {}
      BY <3>1 DEF Picked
    <3>3. r \cup Picked(e, q, n) = r
      BY <3>2
    <3>4. Cardinality(r) >= Concurrency
      BY <1>1, <3>1, <3>3
    <3> QED BY <1>2, <3>4
  <2>2. e[id].attempts = 0
    BY <1>3, <1>5, <2>1 DEF InLine
  <2>3. id \notin Picked(e, q, n)
    <3> SUFFICES ASSUME NEW i \in 1 .. n, q[i] = id PROVE FALSE
      BY DEF Picked
    <3>1. i \in 1 .. Len(q) /\ n + a \in 1 .. Len(q) /\ i < n + a
      BY <1>2, <1>3
    <3>2. q[i] < q[n + a]
      BY <3>1 DEF InLine
    <3>3. q[n + a] \in Int /\ id \in Int
      BY <1>2, <3>1 DEF Ids
    <3> QED BY <1>3, <1>5, <3>2, <3>3
  <2> QED BY <1>1, <2>2, <2>3
<1> QED BY <1>4, <1>5 DEF InOrder

-----------------------------------------------------------------------------
(* What each method hands to Drain is Ready *)

LEMMA SubmittedType == Submitted \in Entry /\ Absent \in Entry
BY DEF Submitted, Absent, Entry, Statuses, Attempts

\* Pruning forgets finished jobs and nothing else.
LEMMA PruneDropsFinished ==
  ASSUME NEW e \in [Ids -> Entry]
  PROVE  /\ Prune(e) \in [Ids -> Entry]
         /\ \A id \in Ids : \/ Prune(e)[id] = e[id]
                            \/ e[id].finished /\ Prune(e)[id] = Absent
BY SubmittedType DEF Prune

\* Replacing a job's entry by one that has settled, and freeing its worker.
LEMMA SettleIsReady ==
  ASSUME NEW id \in Ids, NEW x \in Entry, NEW q \in Seq(Ids), IInv,
         x.status \in Terminal,
         \A i \in 1 .. Len(q) : q[i] # id,
         \A i \in 1 .. Len(q) : entry[q[i]].status = "queued",
         \A i, j \in 1 .. Len(q) : q[i] = q[j] => i = j,
         \A j \in Ids \ {id} :
            entry[j].status = "queued" => \E i \in 1 .. Len(q) : q[i] = j
  PROVE  Ready([entry EXCEPT ![id] = [x EXCEPT !.finished = TRUE]],
               q, running \ {id})
<1> DEFINE y == [x EXCEPT !.finished = TRUE]
           e == [entry EXCEPT ![id] = y]
           r == running \ {id}
<1>1. /\ entry \in [Ids -> Entry] /\ running \in SUBSET Ids
      /\ Consistent(entry, queue, running) /\ MayBegin(entry)
      /\ Cardinality(running) <= Concurrency
  BY DEF IInv, Ready
<1>2. y \in Entry /\ y.finished /\ y.status \in Terminal
  BY DEF Entry, Terminal
<1>3. e \in [Ids -> Entry] /\ e[id] = y /\ \A j \in Ids \ {id} : e[j] = entry[j]
  BY <1>1, <1>2
<1>4. "queued" \notin Terminal /\ "running" \notin Terminal
  BY DEF Terminal
<1> HIDE DEF y, e
<1>5. Consistent(e, q, r)
  <2>1. \A i \in 1 .. Len(q) : e[q[i]].status = "queued"
    BY <1>3
  <2>2. \A j \in Ids : e[j].status = "queued" => \E i \in 1 .. Len(q) : q[i] = j
    BY <1>2, <1>3, <1>4
  <2>3. r = {j \in Ids : e[j].status = "running"}
    BY <1>1, <1>2, <1>3, <1>4 DEF Consistent
  <2>4. \A j \in Ids : e[j].finished <=> e[j].status \in Terminal
    BY <1>1, <1>2, <1>3 DEF Consistent
  <2> QED BY <2>1, <2>2, <2>3, <2>4 DEF Consistent
<1>6. MayBegin(e)
  BY <1>1, <1>2, <1>3, <1>4 DEF MayBegin
<1>7. Cardinality(r) <= Concurrency
  <2>1. /\ Cardinality(r) \in Nat /\ Cardinality(running) \in Nat
        /\ Cardinality(r) <= Cardinality(running)
    BY <1>1, IdsFinite, FS_Subset
  <2> QED BY <1>1, <2>1
<1>8. r \subseteq Ids
  BY <1>1
<1>9. Started(e, r)
  BY <1>3, <1>8 DEF IInv, Ready, Started
<1> QED BY <1>3, <1>5, <1>6, <1>7, <1>8, <1>9 DEF Ready, e, y

\* The two ways to settle: a job that runs leaves the queue alone, ...
LEMMA SettleRunningIsReady ==
  ASSUME NEW id \in running, NEW x \in Entry, IInv, x.status \in Terminal
  PROVE  Ready([entry EXCEPT ![id] = [x EXCEPT !.finished = TRUE]],
               queue, running \ {id})
<1>1. /\ Consistent(entry, queue, running) /\ queue \in Seq(Ids) /\ id \in Ids
      /\ entry[id].status = "running"
  BY DEF IInv, Ready, Consistent
<1>2. \A i \in 1 .. Len(queue) : queue[i] # id
  BY <1>1 DEF Consistent
<1> QED BY <1>1, <1>2, SettleIsReady DEF Consistent

\* ... and a job that waits is cut out of it.
Cut(k) == SubSeq(queue, 1, k - 1) \o SubSeq(queue, k + 1, Len(queue))

LEMMA CutProperties ==
  ASSUME queue \in Seq(Ids), NEW k \in 1 .. Len(queue)
  PROVE  /\ Cut(k) \in Seq(Ids)
         /\ Len(Cut(k)) = Len(queue) - 1
         /\ \A i \in 1 .. Len(Cut(k)) :
              Cut(k)[i] = IF i < k THEN queue[i] ELSE queue[i + 1]
<1> DEFINE a == SubSeq(queue, 1, k - 1)
           b == SubSeq(queue, k + 1, Len(queue))
<1>1. /\ a \in Seq(Ids) /\ Len(a) = k - 1
      /\ \A i \in 1 .. k - 1 : a[i] = queue[i]
  OBVIOUS
<1>2. /\ b \in Seq(Ids) /\ Len(b) = Len(queue) - k
      /\ \A i \in 1 .. Len(queue) - k : b[i] = queue[k + i]
  OBVIOUS
<1> HIDE DEF a, b, Cut
<1>3. /\ a \o b \in Seq(Ids) /\ Len(a \o b) = Len(queue) - 1
      /\ \A i \in 1 .. Len(a \o b) :
           (a \o b)[i] = IF i <= k - 1 THEN a[i] ELSE b[i - (k - 1)]
  <2>1. /\ a \o b \in Seq(Ids)
        /\ Len(a \o b) = Len(a) + Len(b)
        /\ \A i \in 1 .. Len(a) + Len(b) :
             (a \o b)[i] = IF i <= Len(a) THEN a[i] ELSE b[i - Len(a)]
    BY <1>1, <1>2, ConcatProperties
  <2>2. k \in Nat /\ Len(queue) \in Nat
    OBVIOUS
  <2> QED BY <1>1, <1>2, <2>1, <2>2
<1>4. ASSUME NEW i \in 1 .. Len(queue) - 1
      PROVE  (a \o b)[i] = IF i < k THEN queue[i] ELSE queue[i + 1]
  <2>1. CASE i < k
    BY <1>1, <1>3, <2>1
  <2>2. CASE i >= k
    <3>1. i - (k - 1) \in 1 .. Len(queue) - k
      BY <2>2
    <3>2. b[i - (k - 1)] = queue[k + (i - (k - 1))]
      BY <1>2, <3>1
    <3>3. k + (i - (k - 1)) = i + 1
      OBVIOUS
    <3>4. i \in 1 .. Len(a \o b) /\ ~(i <= k - 1)
      BY <1>3, <2>2
    <3>5. (a \o b)[i] = b[i - (k - 1)]
      BY <1>3, <3>4
    <3>6. (a \o b)[i] = queue[i + 1]
      BY <3>2, <3>3, <3>5
    <3>7. ~(i < k)
      BY <2>2
    <3> QED BY <3>6, <3>7
  <2>3. i < k \/ i >= k
    OBVIOUS
  <2> QED BY <2>1, <2>2, <2>3
<1> QED BY <1>3, <1>4 DEF a, b, Cut

LEMMA CutIsReady ==
  ASSUME NEW k \in 1 .. Len(queue), IInv,
         NEW x \in Entry, x.status \in Terminal
  PROVE  Ready([entry EXCEPT ![queue[k]] = [x EXCEPT !.finished = TRUE]],
               Cut(k), running \ {queue[k]})
<1> DEFINE q == Cut(k)
           id == queue[k]
<1>1. queue \in Seq(Ids) /\ Consistent(entry, queue, running)
  BY DEF IInv, Ready
<1>2. /\ q \in Seq(Ids)
      /\ Len(q) = Len(queue) - 1
      /\ \A i \in 1 .. Len(q) : q[i] = IF i < k THEN queue[i] ELSE queue[i + 1]
  BY <1>1, CutProperties
<1>3. id \in Ids
  BY <1>1
<1> HIDE DEF q
<1>4. \A i \in 1 .. Len(q) : q[i] # id
  BY <1>1, <1>2 DEF Consistent
<1>5. \A i \in 1 .. Len(q) : entry[q[i]].status = "queued"
  BY <1>1, <1>2 DEF Consistent
<1>6. \A i, j \in 1 .. Len(q) : q[i] = q[j] => i = j
  BY <1>1, <1>2 DEF Consistent
<1>7. ASSUME NEW j \in Ids \ {id}, entry[j].status = "queued"
      PROVE  \E i \in 1 .. Len(q) : q[i] = j
  <2>1. PICK m \in 1 .. Len(queue) : queue[m] = j
    BY <1>1, <1>7 DEF Consistent
  <2>2. m # k
    BY <1>7, <2>1
  <2>3. CASE m < k
    BY <1>1, <1>2, <2>1, <2>3
  <2>4. CASE m > k
    <3>1. m - 1 \in 1 .. Len(q) /\ q[m - 1] = j
      BY <1>1, <1>2, <2>1, <2>4
    <3> QED BY <3>1
  <2> QED BY <2>2, <2>3, <2>4
<1> HIDE DEF id
<1>8. Ready([entry EXCEPT ![id] = [x EXCEPT !.finished = TRUE]], q, running \ {id})
  BY <1>2, <1>3, <1>4, <1>5, <1>6, <1>7, SettleIsReady
<1> QED BY <1>8 DEF q, id

\* A job that gives its worker up for another attempt waits at the front.
LEMMA RequeueIsReady ==
  ASSUME NEW id \in running, IInv, entry[id].attempts <= Retries
  PROVE  Ready([entry EXCEPT ![id] = [@ EXCEPT !.aborted = FALSE,
                                               !.timedOut = FALSE,
                                               !.status = "queued",
                                               !.stages = 0,
                                               !.error = "none"]],
               <<id>> \o queue, running \ {id})
<1> DEFINE y == [entry[id] EXCEPT !.aborted = FALSE, !.timedOut = FALSE,
                                  !.status = "queued", !.stages = 0,
                                  !.error = "none"]
           e == [entry EXCEPT ![id] = y]
           q == <<id>> \o queue
           r == running \ {id}
<1>1. /\ entry \in [Ids -> Entry] /\ queue \in Seq(Ids) /\ running \in SUBSET Ids
      /\ Consistent(entry, queue, running) /\ MayBegin(entry)
      /\ Cardinality(running) <= Concurrency
  BY DEF IInv, Ready
<1>2. id \in Ids /\ entry[id].status = "running" /\ ~entry[id].finished
  BY <1>1 DEF Consistent, Terminal
<1>3. /\ y \in Entry /\ y.status = "queued" /\ ~y.finished
      /\ y.attempts = entry[id].attempts
  BY <1>1, <1>2 DEF Entry, Statuses
<1>4. e \in [Ids -> Entry] /\ e[id] = y /\ \A j \in Ids \ {id} : e[j] = entry[j]
  BY <1>1, <1>2, <1>3
<1>5. /\ q \in Seq(Ids) /\ Len(q) = Len(queue) + 1
      /\ q[1] = id
      /\ \A i \in 2 .. Len(q) : q[i] = queue[i - 1]
  BY <1>1, <1>2
<1>6. \A i \in 1 .. Len(queue) : q[i + 1] = queue[i]
  BY <1>1, <1>5
<1>7. \A i \in 2 .. Len(q) : q[i] \in Ids \ {id} /\ entry[q[i]].status = "queued"
  BY <1>1, <1>2, <1>5 DEF Consistent
<1> HIDE DEF y, e, q
<1>8. Consistent(e, q, r)
  <2>1. \A i \in 1 .. Len(q) : e[q[i]].status = "queued"
    BY <1>1, <1>3, <1>4, <1>5, <1>7
  <2>2. \A i, j \in 1 .. Len(q) : q[i] = q[j] => i = j
    <3>1. ASSUME NEW i \in 2 .. Len(q), NEW j \in 2 .. Len(q), q[i] = q[j]
          PROVE  i = j
      BY <1>1, <1>5, <3>1 DEF Consistent
    <3> QED BY <1>1, <1>5, <1>7, <3>1
  <2>3. ASSUME NEW j \in Ids, e[j].status = "queued"
        PROVE  \E i \in 1 .. Len(q) : q[i] = j
    <3>1. CASE j = id
      BY <1>1, <1>5, <3>1
    <3>2. CASE j # id
      <4>1. PICK m \in 1 .. Len(queue) : queue[m] = j
        BY <1>1, <1>4, <2>3, <3>2 DEF Consistent
      <4>2. m + 1 \in 1 .. Len(q) /\ q[m + 1] = j
        BY <1>1, <1>5, <1>6, <4>1
      <4> QED BY <4>2
    <3> QED BY <3>1, <3>2
  <2>4. r = {j \in Ids : e[j].status = "running"}
    BY <1>1, <1>2, <1>3, <1>4 DEF Consistent
  <2>5. \A j \in Ids : e[j].finished <=> e[j].status \in Terminal
    BY <1>1, <1>3, <1>4 DEF Consistent, Terminal
  <2> QED BY <2>1, <2>2, <2>3, <2>4, <2>5 DEF Consistent
<1>9. MayBegin(e)
  BY <1>1, <1>3, <1>4 DEF MayBegin
<1>10. Cardinality(r) <= Concurrency
  <2>1. /\ Cardinality(r) \in Nat /\ Cardinality(running) \in Nat
        /\ Cardinality(r) <= Cardinality(running)
    BY <1>1, IdsFinite, FS_Subset
  <2> QED BY <1>1, <2>1
<1>11. Started(e, r)
  BY <1>1, <1>4 DEF IInv, Ready, Started
<1> QED BY <1>1, <1>4, <1>5, <1>8, <1>9, <1>10, <1>11 DEF Ready, e, y, q

\* A new submission waits at the back, and pruning takes no one out of the queue.
LEMMA StartIsReady ==
  ASSUME IInv, NEW id \in Ids, id = sequence + 1
  PROVE  Ready(Prune([entry EXCEPT ![id] = Submitted]), Append(queue, id), running)
<1> DEFINE s == [entry EXCEPT ![id] = Submitted]
           e == Prune(s)
           q == Append(queue, id)
<1>1. /\ entry \in [Ids -> Entry] /\ queue \in Seq(Ids) /\ running \in SUBSET Ids
      /\ Consistent(entry, queue, running) /\ MayBegin(entry)
      /\ Cardinality(running) <= Concurrency
  BY DEF IInv, Ready
<1>2. entry[id].status = "absent"
  BY DEF IInv, Fresh, Unused
<1>3. s \in [Ids -> Entry] /\ s[id] = Submitted /\ \A j \in Ids \ {id} : s[j] = entry[j]
  BY <1>1, SubmittedType
<1>4. /\ e \in [Ids -> Entry]
      /\ \A j \in Ids : e[j] = s[j] \/ (s[j].finished /\ e[j] = Absent)
  BY <1>3, PruneDropsFinished
<1>5. /\ q \in Seq(Ids) /\ Len(q) = Len(queue) + 1 /\ q[Len(q)] = id
      /\ \A i \in 1 .. Len(queue) : q[i] = queue[i] /\ q[i] # id
  BY <1>1, <1>2 DEF Consistent
<1> HIDE DEF s, e, q
<1>6. /\ Submitted.status = "queued" /\ ~Submitted.finished
      /\ Submitted.attempts = 0
      /\ Absent.status = "absent" /\ ~Absent.finished
  BY DEF Submitted, Absent
<1>7. e[id] = Submitted
  BY <1>3, <1>4, <1>6
<1>8. ASSUME NEW j \in Ids \ {id}
      PROVE  \/ e[j] = entry[j]
             \/ entry[j].status \in Terminal /\ e[j] = Absent
  BY <1>1, <1>3, <1>4 DEF Consistent
<1>9. Consistent(e, q, running)
  <2>1. \A i \in 1 .. Len(q) : e[q[i]].status = "queued"
    <3>1. ASSUME NEW i \in 1 .. Len(queue) PROVE e[q[i]].status = "queued"
      <4>1. q[i] \in Ids \ {id} /\ entry[q[i]].status = "queued"
        BY <1>1, <1>5 DEF Consistent
      <4> QED BY <1>8, <4>1 DEF Terminal
    <3> QED BY <1>1, <1>5, <1>6, <1>7, <3>1
  <2>2. \A i, j \in 1 .. Len(q) : q[i] = q[j] => i = j
    BY <1>1, <1>5 DEF Consistent
  <2>3. ASSUME NEW j \in Ids, e[j].status = "queued"
        PROVE  \E i \in 1 .. Len(q) : q[i] = j
    <3>1. CASE j = id
      BY <1>1, <1>5, <3>1
    <3>2. CASE j # id
      <4>1. entry[j].status = "queued"
        BY <1>6, <1>8, <2>3, <3>2
      <4>2. PICK m \in 1 .. Len(queue) : queue[m] = j
        BY <1>1, <4>1 DEF Consistent
      <4> QED BY <1>1, <1>5, <4>2
    <3> QED BY <3>1, <3>2
  <2>4. running = {j \in Ids : e[j].status = "running"}
    <3>1. ASSUME NEW j \in Ids
          PROVE  e[j].status = "running" <=> entry[j].status = "running"
      <4>1. CASE j = id
        BY <1>2, <1>6, <1>7, <4>1
      <4>2. CASE j # id
        BY <1>6, <1>8, <4>2 DEF Terminal
      <4> QED BY <4>1, <4>2
    <3>2. running = {j \in Ids : entry[j].status = "running"}
      BY <1>1 DEF Consistent
    <3> QED BY <3>1, <3>2
  <2>5. \A j \in Ids : e[j].finished <=> e[j].status \in Terminal
    BY <1>1, <1>6, <1>7, <1>8 DEF Consistent, Terminal
  <2> QED BY <2>1, <2>2, <2>3, <2>4, <2>5 DEF Consistent
<1>10. MayBegin(e)
  BY <1>1, <1>6, <1>7, <1>8 DEF MayBegin
<1>11. Started(e, running)
  <2>1. ASSUME NEW j \in running PROVE e[j] = entry[j]
    <3>1. j \in Ids \ {id} /\ entry[j].status = "running"
      BY <1>1, <1>2 DEF Consistent
    <3> QED BY <1>8, <3>1 DEF Terminal
  <2> QED BY <2>1 DEF IInv, Ready, Started
<1> QED BY <1>1, <1>4, <1>5, <1>9, <1>10, <1>11 DEF Ready, e, q, s

-----------------------------------------------------------------------------
(* Every step either hands a Ready state to Drain or only sets flags *)

\* What a method may have written before it drains: it leaves settled jobs as they
\* were or forgets them, and remembers no id beyond the counter.
Sparing(e) ==
  \A id \in Ids : /\ Finished(id) => e[id] = entry[id] \/ e[id] = Absent
                  /\ id > sequence' => Unused(e[id])

\* The job ends as x: cancelled if and only if the user asked for it, and it cannot
\* end any other way before it has begun.
Ends(id, x) == /\ Known(id) /\ ~Finished(id)
               /\ x.status \in Terminal
               /\ x.status = "cancelled" <=> x.cancelled
               /\ entry[id].cancelled => x.cancelled
               /\ entry[id].status = "queued" => x.cancelled
               /\ x.attempts = entry[id].attempts

\* What one method, and the drain after it, does to each job.
Moves(e) ==
  \A id \in Ids :
    \/ e[id] = entry[id] /\ (id <= sequence' <=> id <= sequence)
    \/ sequence < id /\ id <= sequence' /\ e[id] = Submitted
    \/ Finished(id) /\ id <= sequence' /\ e[id] = Absent
    \/ Ends(id, e[id])
    \/ /\ entry[id].status = "running" /\ entry'[id].status = "running"
       /\ entry'[id].cancelled = entry[id].cancelled

Drains == \E e, q, r : /\ Ready(e, q, r) /\ InLine(e, q, r)
                       /\ Sparing(e) /\ Moves(e)
                       /\ Drain(e, q, r)

Flags ==
  /\ UNCHANGED <<queue, running>>
  /\ entry' \in [Ids -> Entry]
  /\ \A id \in Ids : /\ entry'[id].status = entry[id].status
                     /\ entry'[id].finished = entry[id].finished
                     /\ entry'[id].attempts = entry[id].attempts
                     /\ Finished(id) => Outcome(entry'[id]) = Outcome(entry[id])
                     /\ \/ entry'[id].cancelled = entry[id].cancelled
                        \/ entry'[id].cancelled /\ Known(id) /\ ~Finished(id)

LEMMA SettleDrains ==
  ASSUME IInv, NEW id \in Ids, NEW x \in Entry, NEW q, UNCHANGED sequence,
         id <= sequence, Ends(id, x), Settle(id, x, q), InOrder(entry, q),
         Ready([entry EXCEPT ![id] = [x EXCEPT !.finished = TRUE]],
               q, running \ {id})
  PROVE  Drains
<1> DEFINE e == [entry EXCEPT ![id] = [x EXCEPT !.finished = TRUE]]
<1>1. entry \in [Ids -> Entry] /\ id \in 0 .. MaxJobs /\ sequence \in 0 .. MaxJobs
  BY DEF IInv, Ready, Ids
<1>2. /\ \A j \in Ids \ {id} : e[j] = entry[j]
      /\ e[id].attempts = entry[id].attempts
      /\ Ends(id, e[id])
  BY <1>1 DEF Entry, Ends
<1>3. Drain(e, q, running \ {id})
  BY DEF Settle
<1> HIDE DEF e
<1>5. InLine(e, q, running \ {id})
  BY <1>2 DEF InOrder, InLine
<1>4. Sparing(e)
  <2>1. \A j \in Ids : j > sequence' => j # id /\ Unused(entry[j])
    BY <1>1 DEF IInv, Fresh, Unused, Ids
  <2> QED BY <1>2, <2>1 DEF Sparing, Ends
<1>6. Moves(e)
  BY <1>2 DEF Moves
<1> QED BY <1>3, <1>4, <1>5, <1>6 DEF Drains, e

\* A job that holds a worker was handed out and has not settled.
LEMMA RunningIsKnown ==
  ASSUME IInv, NEW id \in running
  PROVE  /\ id \in Ids /\ id <= sequence /\ ~Finished(id)
         /\ entry[id] \in Entry /\ entry[id].status = "running"
<1>1. /\ id \in Ids /\ entry[id].status = "running" /\ entry[id] \in Entry
      /\ entry[id].finished <=> entry[id].status \in Terminal
  BY DEF IInv, Ready, Consistent
<1>2. id <= sequence
  BY <1>1 DEF IInv, Fresh, Unused, Ids
<1> QED BY <1>1, <1>2 DEF Finished, Terminal

LEMMA RunningSettles ==
  ASSUME IInv, NEW id \in running, NEW x \in Entry, Ends(id, x),
         UNCHANGED sequence, Settle(id, x, queue)
  PROVE  Drains
BY RunningIsKnown, SettleRunningIsReady, SettleDrains DEF IInv, Ends

LEMMA RequeueDrains ==
  ASSUME IInv, NEW id \in running, NEW code, ShouldRetry(entry[id], code),
         UNCHANGED sequence, Requeue(id)
  PROVE  Drains
<1> DEFINE e == [entry EXCEPT ![id] = [@ EXCEPT !.aborted = FALSE,
                                               !.timedOut = FALSE,
                                               !.status = "queued",
                                               !.stages = 0,
                                               !.error = "none"]]
<1>1. Ready(e, <<id>> \o queue, running \ {id})
  BY RequeueIsReady DEF ShouldRetry
<1>2. Drain(e, <<id>> \o queue, running \ {id})
  BY DEF Requeue
<1>3. /\ entry \in [Ids -> Entry] /\ sequence \in 0 .. MaxJobs
      /\ id \in Ids /\ id <= sequence /\ ~Finished(id)
  BY RunningIsKnown DEF IInv, Ready
<1>4. \A j \in Ids \ {id} : e[j] = entry[j]
  BY <1>3
<1> HIDE DEF e
<1>5. Sparing(e)
  <2>1. \A j \in Ids : j > sequence' => j # id /\ Unused(entry[j])
    BY <1>3 DEF IInv, Fresh, Unused, Ids
  <2> QED BY <1>3, <1>4, <2>1 DEF Sparing
\* The job had been started, so whatever waits behind it is newer.
<1>6. InLine(e, <<id>> \o queue, running \ {id})
  <2> DEFINE q == <<id>> \o queue
  <2>1. /\ queue \in Seq(Ids) /\ running \in SUBSET Ids
        /\ Cardinality(running) <= Concurrency
        /\ InOrder(entry, queue)
    BY DEF IInv, Ready
  <2>2. /\ Len(q) = Len(queue) + 1 /\ q[1] = id
        /\ \A i \in 2 .. Len(q) : i - 1 \in 1 .. Len(queue) /\ q[i] = queue[i - 1]
    BY <2>1, <1>3
  <2>3. entry[id].attempts # 0 /\ \A i \in 1 .. Len(queue) : queue[i] # id
    <3>1. /\ entry[id].status = "running"
          /\ \A i \in 1 .. Len(queue) : entry[queue[i]].status = "queued"
      BY RunningIsKnown DEF IInv, Ready, Consistent
    <3>2. entry[id].attempts # 0
      BY DEF IInv, Ready, Started
    <3> QED BY <3>1, <3>2
  <2>4. \A i \in 1 .. Len(queue) : id < queue[i]
    <3> SUFFICES ASSUME NEW i \in 1 .. Len(queue), ~(id < queue[i]) PROVE FALSE
      OBVIOUS
    <3>1. queue[i] \in Ids
      BY <2>1
    <3>2. queue[i] < id
      BY <1>3, <2>3, <3>1 DEF Ids
    <3> QED BY <1>3, <2>1, <2>3, <3>2 DEF InOrder
  <2>5. Cardinality(running \ {id}) < Concurrency
    <3>1. IsFiniteSet(running) /\ Cardinality(running) \in Nat
      BY <2>1, IdsFinite
    <3>2. Cardinality(running \ {id}) = Cardinality(running) - 1
      BY <3>1, FS_RemoveElement
    <3> QED BY <2>1, <3>1, <3>2
  <2>6. \A j \in Ids : e[j].attempts = entry[j].attempts
    BY <1>3, <1>4 DEF e, Entry
  <2> HIDE DEF q
  <2>7. ASSUME NEW a \in 1 .. Len(q), NEW b \in 1 .. Len(q), a < b
        PROVE  q[a] < q[b]
    <3>1. b \in 2 .. Len(q) /\ b - 1 \in 1 .. Len(queue) /\ q[b] = queue[b - 1]
      BY <2>1, <2>2, <2>7
    <3>2. CASE a = 1
      BY <2>2, <2>4, <3>1, <3>2
    <3>3. CASE a # 1
      <4>1. a - 1 \in 1 .. Len(queue) /\ q[a] = queue[a - 1] /\ a - 1 < b - 1
        BY <2>1, <2>2, <2>7, <3>3
      <4> QED BY <2>1, <3>1, <4>1 DEF InOrder
    <3> QED BY <3>2, <3>3
  <2>8. ASSUME NEW a \in 1 .. Len(q), a # 1, NEW j \in Ids, q[a] < j
        PROVE  e[j].attempts = 0
    <3>1. a - 1 \in 1 .. Len(queue) /\ q[a] = queue[a - 1]
      BY <2>1, <2>2, <2>8
    <3> QED BY <2>1, <2>6, <2>8, <3>1 DEF InOrder
  <2>9. InLine(e, q, running \ {id})
    BY <2>5, <2>7, <2>8 DEF InLine
  <2> QED BY <2>9 DEF q
\* It is the first to be shifted, and its own slot is free.
<1>7. entry'[id].status = "running" /\ entry'[id].cancelled = entry[id].cancelled
  <2> DEFINE q == <<id>> \o queue
             r == running \ {id}
  <2>1. /\ queue \in Seq(Ids) /\ running \in SUBSET Ids
        /\ Cardinality(running) <= Concurrency
        /\ entry[id] \in Entry
    BY RunningIsKnown DEF IInv, Ready
  <2>2. q \in Seq(Ids) /\ Len(q) > 0 /\ q[1] = id
    BY <2>1, <1>3
  <2>3. Cardinality(r) < Concurrency
    <3>1. IsFiniteSet(running) /\ Cardinality(running) \in Nat
      BY <2>1, IdsFinite
    <3>2. Cardinality(r) = Cardinality(running) - 1
      BY <3>1, FS_RemoveElement
    <3> QED BY <2>1, <3>1, <3>2
  <2>4. /\ e[id].status = "queued" /\ ~e[id].finished
        /\ e[id].cancelled = entry[id].cancelled /\ e[id] \in Entry
    <3>1. ~entry[id].finished
      BY RunningIsKnown DEF Finished, Known
    <3>2. e[id].status = "queued" /\ e[id].cancelled = entry[id].cancelled
          /\ e[id].finished = entry[id].finished
      BY <1>3, <2>1 DEF e, Entry
    <3> QED BY <1>1, <1>3, <3>1, <3>2 DEF Ready
  <2> HIDE DEF q, r
  <2>5. PICK n \in 0 .. Len(q) :
          /\ n < Len(q) => Cardinality(r \cup Picked(e, q, n)) >= Concurrency
          /\ entry' = [i \in Ids |-> IF i \in Picked(e, q, n)
                                        THEN Begun(e[i]) ELSE e[i]]
    BY <1>2 DEF Drain, q, r
  <2>6. n # 0
    <3> SUFFICES ASSUME n = 0 PROVE FALSE
      OBVIOUS
    <3>1. r \cup Picked(e, q, n) = r
      BY DEF Picked
    <3>2. Cardinality(r) >= Concurrency
      BY <2>2, <2>5, <3>1
    <3>3. Cardinality(r) \in Nat
      BY <2>1, IdsFinite DEF r
    <3> QED BY <2>3, <3>2, <3>3
  <2>7. id \in Picked(e, q, n)
    <3>1. 1 \in 1 .. n
      BY <2>2, <2>6
    <3> QED BY <2>2, <2>4, <3>1 DEF Picked
  <2>8. entry'[id] = Begun(e[id])
    BY <1>3, <2>5, <2>7
  <2> QED BY <2>4, <2>8 DEF Begun, Entry
<1>8. Moves(e)
  <2>1. entry[id].status = "running"
    BY RunningIsKnown
  <2> QED BY <1>4, <1>7, <2>1 DEF Moves
<1> QED BY <1>1, <1>2, <1>5, <1>6, <1>8 DEF Drains

LEMMA StartDrains ==
  ASSUME IInv, Start
  PROVE  Drains /\ sequence' \in 0 .. MaxJobs
<1> DEFINE id == sequence'
           s  == [entry EXCEPT ![id] = Submitted]
           e  == Prune(s)
<1>1. /\ sequence' = sequence + 1 /\ sequence \in 0 .. MaxJobs
      /\ sequence' \in 0 .. MaxJobs /\ id \in Ids
      /\ entry \in [Ids -> Entry]
      /\ Drain(e, Append(queue, id), running)
  BY DEF IInv, Ready, Start, Ids
<1>2. Ready(e, Append(queue, id), running)
  BY <1>1, StartIsReady
<1>3. s \in [Ids -> Entry] /\ s[id] = Submitted /\ \A j \in Ids \ {id} : s[j] = entry[j]
  BY <1>1, SubmittedType
<1>4. /\ e \in [Ids -> Entry]
      /\ \A j \in Ids : e[j] = s[j] \/ (s[j].finished /\ e[j] = Absent)
  BY <1>3, PruneDropsFinished
<1>5. entry[id].status = "absent"
  BY <1>1 DEF IInv, Fresh, Unused
<1>6. Unused(Absent) /\ Submitted.attempts = 0
  BY DEF Unused, Absent, Submitted
<1> HIDE DEF s, e
<1>7. Sparing(e)
  <2>1. ASSUME NEW j \in Ids, Finished(j)
        PROVE  e[j] = entry[j] \/ e[j] = Absent
    BY <1>3, <1>4, <1>5, <2>1 DEF Finished, Known
  <2>2. ASSUME NEW j \in Ids, j > sequence'
        PROVE  Unused(e[j])
    <3>1. j # id /\ j > sequence
      BY <1>1, <2>2 DEF Ids
    <3>2. Unused(s[j])
      BY <1>3, <3>1 DEF IInv, Fresh, Unused
    <3> QED BY <1>4, <1>6, <3>2
  <2> QED BY <2>1, <2>2 DEF Sparing
\* The new id is greater than all, and has no attempt behind it.
<1>8. InLine(e, Append(queue, id), running)
  <2> DEFINE q == Append(queue, id)
  <2>1. queue \in Seq(Ids) /\ InOrder(entry, queue)
    BY DEF IInv, Ready
  <2>2. /\ Len(q) = Len(queue) + 1 /\ q[Len(q)] = id
        /\ \A i \in 1 .. Len(queue) : q[i] = queue[i]
    BY <2>1
  <2>3. \A i \in 1 .. Len(queue) : queue[i] \in Ids /\ queue[i] < id
    <3> SUFFICES ASSUME NEW i \in 1 .. Len(queue) PROVE queue[i] < id
      BY <2>1
    <3>1. queue[i] \in Ids /\ entry[queue[i]].status = "queued"
      BY <2>1 DEF IInv, Ready, Consistent
    <3>2. ~(queue[i] > sequence)
      BY <3>1 DEF IInv, Fresh, Unused
    <3> QED BY <1>1, <3>1, <3>2 DEF Ids
  <2>4. \A j \in Ids : entry[j].attempts = 0 => e[j].attempts = 0
    BY <1>3, <1>4, <1>6 DEF Unused
  <2>5. \A j \in Ids : id <= j => e[j].attempts = 0
    <3> SUFFICES ASSUME NEW j \in Ids, id <= j PROVE e[j].attempts = 0
      OBVIOUS
    <3>1. j > sequence
      BY <1>1 DEF Ids
    <3> QED BY <2>4, <3>1 DEF IInv, Fresh, Unused
  <2> HIDE DEF q
  <2>6. ASSUME NEW a \in 1 .. Len(q), NEW b \in 1 .. Len(q), a < b
        PROVE  q[a] < q[b]
    <3>1. a \in 1 .. Len(queue) /\ q[a] = queue[a]
      BY <2>1, <2>2, <2>6
    <3>2. CASE b = Len(q)
      BY <2>2, <2>3, <3>1, <3>2
    <3>3. CASE b # Len(q)
      <4>1. b \in 1 .. Len(queue) /\ q[b] = queue[b]
        BY <2>1, <2>2, <3>3
      <4> QED BY <2>1, <2>6, <3>1, <4>1 DEF InOrder
    <3> QED BY <3>2, <3>3
  <2>7. ASSUME NEW a \in 1 .. Len(q), NEW j \in Ids, q[a] < j
        PROVE  e[j].attempts = 0
    <3>1. CASE a = Len(q)
      BY <1>1, <2>2, <2>5, <2>7, <3>1 DEF Ids
    <3>2. CASE a # Len(q)
      <4>1. a \in 1 .. Len(queue) /\ q[a] = queue[a]
        BY <2>1, <2>2, <3>2
      <4> QED BY <2>1, <2>4, <2>7, <4>1 DEF InOrder
    <3> QED BY <3>1, <3>2
  <2>8. InLine(e, q, running)
    BY <2>6, <2>7 DEF InLine
  <2> QED BY <2>8 DEF q
<1>9. Moves(e)
  <2> SUFFICES ASSUME NEW j \in Ids
               PROVE  \/ e[j] = entry[j] /\ (j <= sequence' <=> j <= sequence)
                      \/ sequence < j /\ j <= sequence' /\ e[j] = Submitted
                      \/ Finished(j) /\ j <= sequence' /\ e[j] = Absent
    BY DEF Moves
  <2>1. CASE j = id
    BY <1>1, <1>3, <1>4, <2>1 DEF Submitted
  <2>2. CASE j # id
    <3>1. j <= sequence' <=> j <= sequence
      BY <1>1, <2>2 DEF Ids
    <3>2. e[j] = entry[j] \/ (entry[j].finished /\ e[j] = Absent)
      BY <1>3, <1>4, <2>2
    <3>3. ASSUME entry[j].finished PROVE Finished(j) /\ j <= sequence
      <4>1. entry[j].status \in Terminal
        BY <3>3 DEF IInv, Ready, Consistent
      <4> QED BY <1>1, <3>3, <4>1 DEF Terminal, Finished, Known, IInv, Fresh,
                                     Unused, Ids
    <3> QED BY <3>1, <3>2, <3>3
  <2> QED BY <2>1, <2>2
<1> QED BY <1>1, <1>2, <1>7, <1>8, <1>9 DEF Drains

LEMMA CutIsInOrder ==
  ASSUME queue \in Seq(Ids), NEW k \in 1 .. Len(queue), InOrder(entry, queue)
  PROVE  InOrder(entry, Cut(k))
<1> DEFINE place(i) == IF i < k THEN i ELSE i + 1
<1>1. \A i \in 1 .. Len(Cut(k)) : /\ place(i) \in 1 .. Len(queue)
                                 /\ Cut(k)[i] = queue[place(i)]
  BY CutProperties
<1>2. \A i, j \in 1 .. Len(Cut(k)) : i < j => place(i) < place(j)
  BY CutProperties
<1> QED BY <1>1, <1>2 DEF InOrder

LEMMA CancelStep ==
  ASSUME IInv, NEW id \in Ids, Cancel(id)
  PROVE  Drains \/ Flags
<1>1. /\ ~Finished(id) /\ Known(id) /\ UNCHANGED sequence
      /\ entry \in [Ids -> Entry] /\ queue \in Seq(Ids)
      /\ Consistent(entry, queue, running)
  BY DEF IInv, Ready, Cancel
<1>2. CASE CancelQueued(id)
  <2> DEFINE x == [entry[id] EXCEPT !.cancelled = TRUE, !.status = "cancelled"]
  <2>1. PICK k \in 1 .. Len(queue) :
          /\ queue[k] = id
          /\ Settle(id, x, SubSeq(queue, 1, k - 1)
                             \o SubSeq(queue, k + 1, Len(queue)))
    BY <1>2 DEF CancelQueued
  <2>2. x \in Entry /\ x.status \in Terminal /\ Ends(id, x)
    BY <1>1 DEF Entry, Statuses, Terminal, Ends
  <2>3. id <= sequence
    BY <1>1 DEF IInv, Fresh, Unused, Ids, Known
  <2> HIDE DEF x
  <2>4. Ready([entry EXCEPT ![id] = [x EXCEPT !.finished = TRUE]],
              Cut(k), running \ {id})
    BY <2>1, <2>2, CutIsReady
  <2>5. Settle(id, x, Cut(k))
    BY <2>1 DEF Cut
  <2>6. InOrder(entry, Cut(k))
    BY <1>1, CutIsInOrder DEF IInv
  <2> QED BY <1>1, <2>2, <2>3, <2>4, <2>5, <2>6, SettleDrains
<1>3. CASE CancelRunning(id)
  <2>1. /\ entry' = [entry EXCEPT ![id].cancelled = TRUE, ![id].aborted = TRUE]
        /\ UNCHANGED <<queue, running>>
    BY <1>3 DEF CancelRunning
  <2>2. entry' \in [Ids -> Entry]
    BY <1>1, <2>1 DEF Entry
  <2>3. \A j \in Ids \ {id} : entry'[j] = entry[j]
    BY <1>1, <2>1
  <2>4. /\ entry'[id].status = entry[id].status
        /\ entry'[id].finished = entry[id].finished
        /\ entry'[id].attempts = entry[id].attempts
        /\ entry'[id].cancelled
    BY <1>1, <2>1 DEF Entry
  <2> QED BY <1>1, <2>1, <2>2, <2>3, <2>4 DEF Flags
<1> QED BY <1>2, <1>3 DEF Cancel

LEMMA DeadlineStep ==
  ASSUME IInv, NEW id \in Ids, Deadline(id)
  PROVE  Flags
<1>1. /\ entry \in [Ids -> Entry] /\ ~Finished(id)
      /\ entry' = [entry EXCEPT ![id].timedOut = TRUE, ![id].aborted = TRUE]
      /\ UNCHANGED <<queue, running>>
  BY RunningIsKnown DEF IInv, Ready, Deadline
<1>2. entry' \in [Ids -> Entry]
  BY <1>1 DEF Entry
<1>3. \A j \in Ids \ {id} : entry'[j] = entry[j]
  BY <1>1
<1>4. /\ entry'[id].status = entry[id].status
      /\ entry'[id].finished = entry[id].finished
      /\ entry'[id].attempts = entry[id].attempts
      /\ entry'[id].cancelled = entry[id].cancelled
  BY <1>1 DEF Entry
<1> QED BY <1>1, <1>2, <1>3, <1>4 DEF Flags

LEMMA StageReportedStep ==
  ASSUME IInv, NEW id \in Ids, NEW a \in Attempts, StageReported(id, a)
  PROVE  Flags
<1>1. /\ entry \in [Ids -> Entry]
      /\ entry' = [entry EXCEPT ![id].stages = a]
      /\ UNCHANGED <<queue, running>>
  BY DEF IInv, Ready, StageReported
<1>2. entry' \in [Ids -> Entry]
  BY <1>1 DEF Entry
<1>3. \A j \in Ids \ {id} : entry'[j] = entry[j]
  BY <1>1
<1>4. /\ entry'[id].status = entry[id].status
      /\ entry'[id].finished = entry[id].finished
      /\ entry'[id].attempts = entry[id].attempts
      /\ entry'[id].cancelled = entry[id].cancelled
      /\ Outcome(entry'[id]) = Outcome(entry[id])
  BY <1>1 DEF Entry, Outcome
<1> QED BY <1>1, <1>2, <1>3, <1>4 DEF Flags

LEMMA ResolvedStep ==
  ASSUME IInv, NEW id \in Ids, NEW f \in Failures, Resolved(id, f)
  PROVE  Drains
<1> DEFINE x    == entry[id]
           code == IF x.timedOut THEN "analysis-timeout" ELSE f
           cancelled == [x EXCEPT !.status = "cancelled"]
           settled   == [x EXCEPT !.status = IF code = "none" THEN "succeeded"
                                                              ELSE "failed",
                                  !.result = f = "none",
                                  !.error = code]
<1>1. id \in running /\ UNCHANGED sequence
  BY DEF Resolved
<1>2. /\ x \in Entry
      /\ code \in Codes \cup {"none"}
  BY <1>1, RunningIsKnown DEF Failures, Codes, RETRYABLE
<1>3. /\ cancelled \in Entry /\ settled \in Entry
      /\ x.cancelled => Ends(id, cancelled)
      /\ ~x.cancelled => Ends(id, settled)
  <2>1. Known(id) /\ ~Finished(id) /\ entry[id].status # "queued"
    BY <1>1, RunningIsKnown DEF Known
  <2> QED BY <1>2, <2>1 DEF Entry, Statuses, Terminal, Ends
<1>4. \/ x.cancelled /\ Settle(id, cancelled, queue)
      \/ ShouldRetry(entry[id], code) /\ Requeue(id)
      \/ ~x.cancelled /\ Settle(id, settled, queue)
  BY DEF Resolved
<1> HIDE DEF x, code, cancelled, settled
<1> QED BY <1>1, <1>3, <1>4, RunningSettles, RequeueDrains

LEMMA RejectedStep ==
  ASSUME IInv, NEW id \in Ids, NEW c \in Causes, Rejected(id, c)
  PROVE  Drains
<1> DEFINE x    == entry[id]
           code == IF c = "worker" THEN "worker-exited" ELSE "pipeline-failed"
           cancelled == [x EXCEPT !.status = "cancelled"]
           failed    == [x EXCEPT !.status = "failed", !.error = "pipeline-failed"]
<1>1. id \in running /\ UNCHANGED sequence
  BY DEF Rejected
<1>2. x \in Entry
  BY <1>1, RunningIsKnown
<1>3. /\ cancelled \in Entry /\ failed \in Entry
      /\ x.cancelled => Ends(id, cancelled)
      /\ ~x.cancelled => Ends(id, failed)
  <2>1. Known(id) /\ ~Finished(id) /\ entry[id].status # "queued"
    BY <1>1, RunningIsKnown DEF Known
  <2> QED BY <1>2, <2>1 DEF Entry, Statuses, Terminal, Ends, Codes
<1>4. \/ x.cancelled /\ Settle(id, cancelled, queue)
      \/ ShouldRetry(entry[id], code) /\ Requeue(id)
      \/ ~x.cancelled /\ Settle(id, failed, queue)
  BY DEF Rejected
<1> HIDE DEF x, code, cancelled, failed
<1> QED BY <1>1, <1>3, <1>4, RunningSettles, RequeueDrains

LEMMA NextStep ==
  ASSUME IInv, Next
  PROVE  (Drains /\ sequence' \in 0 .. MaxJobs) \/ (Flags /\ UNCHANGED sequence)
<1>1. sequence \in 0 .. MaxJobs
  BY DEF IInv
<1>2. CASE Start
  BY <1>2, StartDrains
<1>3. ASSUME NEW id \in Ids, Retry(id) PROVE Start
  BY <1>3 DEF Retry
<1>4. ASSUME NEW id \in Ids, Cancel(id)
      PROVE  (Drains \/ Flags) /\ UNCHANGED sequence
  BY <1>4, CancelStep DEF Cancel
<1>5. ASSUME NEW id \in Ids, Deadline(id) PROVE Flags /\ UNCHANGED sequence
  BY <1>5, DeadlineStep DEF Deadline
<1>6. ASSUME NEW id \in Ids, NEW a \in Attempts, StageReported(id, a)
      PROVE  Flags /\ UNCHANGED sequence
  BY <1>6, StageReportedStep DEF StageReported
<1>7. ASSUME NEW id \in Ids, NEW f \in Failures, Resolved(id, f)
      PROVE  Drains /\ UNCHANGED sequence
  BY <1>7, ResolvedStep DEF Resolved
<1>8. ASSUME NEW id \in Ids, NEW c \in Causes, Rejected(id, c)
      PROVE  Drains /\ UNCHANGED sequence
  BY <1>8, RejectedStep DEF Rejected
<1> QED BY <1>1, <1>2, <1>3, <1>4, <1>5, <1>6, <1>7, <1>8, StartDrains DEF Next

-----------------------------------------------------------------------------
(* The theorems *)

LEMMA InitIsReady == Init => IInv /\ NoIdleWorker
<1> SUFFICES ASSUME Init PROVE IInv /\ NoIdleWorker
  OBVIOUS
<1>1. entry \in [Ids -> Entry] /\ \A id \in Ids : entry[id] = Absent
  BY SubmittedType DEF Init
<1>2. Unused(Absent) /\ ~Absent.finished /\ Absent.status = "absent"
  BY DEF Unused, Absent, Submitted
<1>3. Cardinality(running) <= Concurrency
  BY FS_EmptySet DEF Init
<1>4. Consistent(entry, queue, running)
  BY <1>1, <1>2 DEF Init, Consistent, Terminal
<1>5. MayBegin(entry) /\ Fresh
  BY <1>1, <1>2 DEF MayBegin, Fresh
<1>6. Started(entry, running) /\ InOrder(entry, queue)
  BY DEF Init, Started, InOrder
<1> QED BY <1>1, <1>3, <1>4, <1>5, <1>6 DEF Init, IInv, Ready, NoIdleWorker

LEMMA DrainsKeepsIInv ==
  ASSUME IInv, Drains, sequence' \in 0 .. MaxJobs
  PROVE  IInv' /\ NoIdleWorker'
<1>1. PICK e, q, r : /\ Ready(e, q, r) /\ InLine(e, q, r) /\ Sparing(e)
                     /\ Drain(e, q, r)
  BY DEF Drains
<1>2. Ready(entry', queue', running')
  BY <1>1, DrainKeepsReady
<1>3. InOrder(entry', queue')
  BY <1>1, DrainKeepsOrder
<1>4. Fresh'
  <2> SUFFICES ASSUME NEW id \in Ids, id > sequence'
               PROVE  Unused(entry'[id])
    BY DEF Fresh, Unused
  <2>1. Unused(e[id])
    BY <1>1 DEF Sparing
  <2> QED BY <1>1, <2>1, DrainTouches DEF Unused
<1>5. NoIdleWorker'
  BY <1>1, DrainLeavesNoIdleWorker DEF Ready
<1> QED BY <1>2, <1>3, <1>4, <1>5
        DEF IInv, Ready, Consistent, MayBegin, Started, InOrder

LEMMA FlagsKeepsIInv ==
  ASSUME IInv, Flags, UNCHANGED sequence
  PROVE  IInv' /\ (NoIdleWorker => NoIdleWorker')
<1>1. /\ UNCHANGED <<queue, running>> /\ entry' \in [Ids -> Entry]
      /\ \A id \in Ids : /\ entry'[id].status = entry[id].status
                         /\ entry'[id].finished = entry[id].finished
                         /\ entry'[id].attempts = entry[id].attempts
                         /\ \/ entry'[id].cancelled = entry[id].cancelled
                            \/ entry[id].status # "absent"
  BY DEF Flags, Known
<1>2. /\ queue \in Seq(Ids) /\ running \subseteq Ids
      /\ Consistent(entry, queue, running) /\ MayBegin(entry)
      /\ Started(entry, running) /\ InOrder(entry, queue)
      /\ Cardinality(running) <= Concurrency /\ Fresh
      /\ sequence \in 0 .. MaxJobs
  BY DEF IInv, Ready
<1>3. Consistent(entry', queue', running')
  BY <1>1, <1>2 DEF Consistent
<1>4. MayBegin(entry') /\ Fresh' /\ Started(entry', running')
  BY <1>1, <1>2 DEF MayBegin, Fresh, Unused, Started
<1>5. InOrder(entry', queue')
  BY <1>1, <1>2 DEF InOrder
<1>6. NoIdleWorker => NoIdleWorker'
  BY <1>1 DEF NoIdleWorker
<1> QED BY <1>1, <1>2, <1>3, <1>4, <1>5, <1>6
        DEF IInv, Ready, Consistent, MayBegin, Started, InOrder

-----------------------------------------------------------------------------
(* What each method leaves alone, for those who react to it in the same turn *)

Pending(id) == Known(id) /\ ~entry[id].finished

\* A step about another job.
Kept(id) ==
  /\ Pending(id)' <=> Pending(id)
  /\ entry'[id].finished => entry[id].finished
  /\ entry[id].status = "running" => /\ entry'[id].status = "running"
                                     /\ entry'[id].attempts = entry[id].attempts

\* A step about this one, which it may end.
About(id) == /\ Pending(id)
             /\ Pending(id)' \/ entry'[id].finished
             /\ \A j \in Ids \ {id} : Kept(j)

LEMMA NextKeepsIInv ==
  ASSUME IInv, Next
  PROVE  IInv'
BY NextStep, DrainsKeepsIInv, FlagsKeepsIInv

\* Drain ends nothing, forgets nothing and leaves alone what runs.
LEMMA DrainKeeps ==
  ASSUME NEW e, NEW q, NEW r, Ready(e, q, r), Drain(e, q, r), NEW id \in Ids
  PROVE  /\ e[id].status # "queued" => entry'[id] = e[id]
         /\ entry'[id].finished = e[id].finished
         /\ entry'[id].status = "absent" <=> e[id].status = "absent"
<1>1. e[id] \in Entry
  BY DEF Ready
<1>2. Begun(e[id]).finished = e[id].finished /\ Begun(e[id]).status = "running"
  BY <1>1 DEF Begun, Entry
<1> QED BY <1>2, DrainTouches

LEMMA UntouchedIsKept ==
  ASSUME NEW e, NEW q, NEW r, Ready(e, q, r), Drain(e, q, r), NEW id \in Ids,
         e[id] = entry[id]
  PROVE  Kept(id)
BY DrainKeeps DEF Kept, Pending, Known

LEMMA SettleEffect ==
  ASSUME IInv, NEW id \in Ids, NEW x \in Entry, NEW q, Settle(id, x, q),
         x.status \in Terminal, Pending(id),
         Ready([entry EXCEPT ![id] = [x EXCEPT !.finished = TRUE]],
               q, running \ {id})
  PROVE  About(id) /\ entry'[id].status = x.status
<1> DEFINE e == [entry EXCEPT ![id] = [x EXCEPT !.finished = TRUE]]
<1>1. entry \in [Ids -> Entry]
  BY DEF IInv, Ready
<1>2. /\ \A j \in Ids \ {id} : e[j] = entry[j]
      /\ e[id].finished /\ e[id].status = x.status
  BY <1>1 DEF Entry
<1>3. Drain(e, q, running \ {id}) /\ Ready(e, q, running \ {id})
  BY DEF Settle
<1> HIDE DEF e
<1>4. \A j \in Ids \ {id} : Kept(j)
  BY <1>2, <1>3, UntouchedIsKept
<1>5. entry'[id] = e[id]
  BY <1>2, <1>3, DrainKeeps DEF Terminal
<1> QED BY <1>2, <1>4, <1>5 DEF About

LEMMA RequeueEffect ==
  ASSUME IInv, NEW id \in running, NEW code, ShouldRetry(entry[id], code), Requeue(id)
  PROVE  About(id) /\ ~entry'[id].finished
<1> DEFINE e == [entry EXCEPT ![id] = [@ EXCEPT !.aborted = FALSE,
                                               !.timedOut = FALSE,
                                               !.status = "queued",
                                               !.stages = 0,
                                               !.error = "none"]]
<1>1. Ready(e, <<id>> \o queue, running \ {id})
  BY RequeueIsReady DEF ShouldRetry
<1>2. Drain(e, <<id>> \o queue, running \ {id})
  BY DEF Requeue
<1>3. entry \in [Ids -> Entry] /\ id \in Ids /\ Pending(id)
  BY RunningIsKnown DEF IInv, Ready, Pending, Known, Finished
<1>4. /\ \A j \in Ids \ {id} : e[j] = entry[j]
      /\ e[id].finished = entry[id].finished /\ e[id].status = "queued"
  BY <1>3 DEF Entry
<1> HIDE DEF e
<1>5. \A j \in Ids \ {id} : Kept(j)
  BY <1>1, <1>2, <1>4, UntouchedIsKept
<1>6. /\ entry'[id].finished = e[id].finished
      /\ entry'[id].status = "absent" <=> e[id].status = "absent"
  BY <1>1, <1>2, <1>3, DrainKeeps
<1> QED BY <1>3, <1>4, <1>5, <1>6 DEF About, Pending, Known

LEMMA RunningSettlesEffect ==
  ASSUME IInv, NEW id \in running, NEW x \in Entry, Ends(id, x), Settle(id, x, queue)
  PROVE  About(id) /\ entry'[id].status = x.status
<1>1. Ready([entry EXCEPT ![id] = [x EXCEPT !.finished = TRUE]], queue, running \ {id})
  BY RunningIsKnown, SettleRunningIsReady DEF Ends
<1>2. id \in Ids /\ Pending(id) /\ x.status \in Terminal
  BY RunningIsKnown DEF Pending, Known, Finished, Ends
<1> QED BY <1>1, <1>2, SettleEffect

LEMMA StartEffect ==
  ASSUME IInv, Start
  PROVE  /\ IInv' /\ sequence' \in Ids
         /\ ~Pending(sequence') /\ entry[sequence'].status = "absent"
         /\ entry'[sequence'].status # "absent" /\ ~entry'[sequence'].finished
         /\ \A j \in Ids \ {sequence'} : Kept(j)
<1> DEFINE id == sequence'
           s  == [entry EXCEPT ![id] = Submitted]
           e  == Prune(s)
           q  == Append(queue, id)
<1>1. /\ id = sequence + 1 /\ id \in Ids /\ entry \in [Ids -> Entry]
      /\ Drain(e, q, running)
  BY DEF IInv, Ready, Start, Ids
<1>2. Ready(e, q, running)
  BY <1>1, StartIsReady
<1>3. entry[id].status = "absent"
  BY <1>1 DEF IInv, Fresh, Unused, Ids
<1>4. /\ s \in [Ids -> Entry] /\ s[id] = Submitted /\ \A j \in Ids \ {id} : s[j] = entry[j]
  BY <1>1, SubmittedType
<1>5. \A j \in Ids : e[j] = s[j] \/ (s[j].finished /\ e[j] = Absent)
  BY <1>4, PruneDropsFinished
<1>6. /\ Submitted.status = "queued" /\ ~Submitted.finished
      /\ Absent.status = "absent" /\ ~Absent.finished
  BY DEF Submitted, Absent
<1> HIDE DEF id, s, e, q
<1>7. e[id].status = "queued" /\ ~e[id].finished
  BY <1>1, <1>4, <1>5, <1>6
<1>8. ASSUME NEW j \in Ids \ {id} PROVE Kept(j)
  <2>1. CASE e[j] = entry[j]
    BY <1>1, <1>2, <2>1, UntouchedIsKept
  <2>2. CASE entry[j].finished /\ e[j] = Absent
    <3>1. entry'[j] = Absent
      BY <1>1, <1>2, <1>6, <2>2, DrainKeeps
    <3>2. entry[j].status # "running"
      BY <2>2 DEF IInv, Ready, Consistent, Terminal
    <3> QED BY <1>6, <2>2, <3>1, <3>2 DEF Kept, Pending, Known
  <2> QED BY <1>4, <1>5, <2>1, <2>2
<1>9. entry'[id].status # "absent" /\ ~entry'[id].finished
  BY <1>1, <1>2, <1>7, DrainKeeps
<1>10. IInv'
  BY NextKeepsIInv DEF Next
<1> QED BY <1>1, <1>3, <1>8, <1>9, <1>10 DEF Pending, Known, id

LEMMA CancelEffect ==
  ASSUME IInv, NEW id \in Ids, Cancel(id)
  PROVE  /\ IInv' /\ About(id)
         /\ entry[id].status = "running" => Kept(id)
         /\ entry'[id].finished => entry'[id].status # "succeeded"
<1>1. /\ ~Finished(id) /\ Known(id) /\ Pending(id)
      /\ entry \in [Ids -> Entry] /\ queue \in Seq(Ids)
      /\ Consistent(entry, queue, running)
  BY DEF IInv, Ready, Cancel, Pending, Finished
<1>2. CASE CancelQueued(id)
  <2> DEFINE x == [entry[id] EXCEPT !.cancelled = TRUE, !.status = "cancelled"]
  <2>1. PICK k \in 1 .. Len(queue) :
          /\ queue[k] = id
          /\ Settle(id, x, SubSeq(queue, 1, k - 1)
                             \o SubSeq(queue, k + 1, Len(queue)))
    BY <1>2 DEF CancelQueued
  <2>2. x \in Entry /\ x.status = "cancelled"
    BY <1>1 DEF Entry, Statuses, Terminal
  <2>3. entry[id].status = "queued"
    BY <1>1, <2>1 DEF Consistent
  <2> HIDE DEF x
  <2>4. Ready([entry EXCEPT ![id] = [x EXCEPT !.finished = TRUE]],
              Cut(k), running \ {id})
    BY <2>1, <2>2, CutIsReady DEF Terminal
  <2>5. Settle(id, x, Cut(k))
    BY <2>1 DEF Cut
  <2>6. About(id) /\ entry'[id].status = "cancelled"
    BY <1>1, <2>2, <2>4, <2>5, SettleEffect DEF Terminal
  <2> QED BY <2>3, <2>6, NextKeepsIInv DEF Next
<1>3. CASE CancelRunning(id)
  <2>1. entry' = [entry EXCEPT ![id].cancelled = TRUE, ![id].aborted = TRUE]
    BY <1>3 DEF CancelRunning
  <2>2. \A j \in Ids : /\ entry'[j].status = entry[j].status
                       /\ entry'[j].finished = entry[j].finished
                       /\ entry'[j].attempts = entry[j].attempts
    BY <1>1, <2>1 DEF Entry
  <2>3. \A j \in Ids : Kept(j)
    BY <2>2 DEF Kept, Pending, Known
  <2>4. ~entry'[id].finished
    BY <1>1, <2>2 DEF Pending
  <2> QED BY <1>1, <2>3, <2>4, NextKeepsIInv DEF Next, About, Kept
<1> QED BY <1>2, <1>3 DEF Cancel

\* The timer and the stage listener only write marks on an entry.
LEMMA MarksEffect ==
  ASSUME IInv, NEW id \in Ids,
         Deadline(id) \/ \E a \in Attempts : StageReported(id, a)
  PROVE  IInv' /\ \A j \in Ids : Kept(j)
<1>1. Flags
  BY DeadlineStep, StageReportedStep
<1>2. \A j \in Ids : Kept(j)
  BY <1>1 DEF Flags, Kept, Pending, Known
<1> QED BY <1>2, NextKeepsIInv DEF Next

LEMMA ResolvedEffect ==
  ASSUME IInv, NEW id \in Ids, NEW f \in Failures, Resolved(id, f)
  PROVE  /\ IInv' /\ About(id)
         /\ entry'[id].finished /\ entry'[id].status = "succeeded" => f = "none"
<1> DEFINE x    == entry[id]
           code == IF x.timedOut THEN "analysis-timeout" ELSE f
           cancelled == [x EXCEPT !.status = "cancelled"]
           settled   == [x EXCEPT !.status = IF code = "none" THEN "succeeded"
                                                              ELSE "failed",
                                  !.result = f = "none",
                                  !.error = code]
<1>1. id \in running
  BY DEF Resolved
<1>2. /\ x \in Entry
      /\ code \in Codes \cup {"none"}
      /\ code = "none" => f = "none"
  BY <1>1, RunningIsKnown DEF Failures, Codes, RETRYABLE
<1>3. /\ cancelled \in Entry /\ settled \in Entry
      /\ x.cancelled => Ends(id, cancelled)
      /\ ~x.cancelled => Ends(id, settled)
      /\ cancelled.status = "cancelled"
      /\ settled.status = "succeeded" => code = "none"
  <2>1. Known(id) /\ ~Finished(id) /\ entry[id].status # "queued"
    BY <1>1, RunningIsKnown DEF Known
  <2> QED BY <1>2, <2>1 DEF Entry, Statuses, Terminal, Ends
<1>4. \/ x.cancelled /\ Settle(id, cancelled, queue)
      \/ ShouldRetry(entry[id], code) /\ Requeue(id)
      \/ ~x.cancelled /\ Settle(id, settled, queue)
  BY DEF Resolved
<1>5. IInv'
  BY NextKeepsIInv DEF Next
<1> HIDE DEF x, code, cancelled, settled
<1> QED BY <1>1, <1>2, <1>3, <1>4, <1>5, RunningSettlesEffect, RequeueEffect

LEMMA RejectedEffect ==
  ASSUME IInv, NEW id \in Ids, NEW c \in Causes, Rejected(id, c)
  PROVE  /\ IInv' /\ About(id)
         /\ entry'[id].finished => entry'[id].status # "succeeded"
<1> DEFINE x    == entry[id]
           code == IF c = "worker" THEN "worker-exited" ELSE "pipeline-failed"
           cancelled == [x EXCEPT !.status = "cancelled"]
           failed    == [x EXCEPT !.status = "failed", !.error = "pipeline-failed"]
<1>1. id \in running
  BY DEF Rejected
<1>2. x \in Entry
  BY <1>1, RunningIsKnown
<1>3. /\ cancelled \in Entry /\ failed \in Entry
      /\ x.cancelled => Ends(id, cancelled)
      /\ ~x.cancelled => Ends(id, failed)
      /\ cancelled.status = "cancelled" /\ failed.status = "failed"
  <2>1. Known(id) /\ ~Finished(id) /\ entry[id].status # "queued"
    BY <1>1, RunningIsKnown DEF Known
  <2> QED BY <1>2, <2>1 DEF Entry, Statuses, Terminal, Ends, Codes
<1>4. \/ x.cancelled /\ Settle(id, cancelled, queue)
      \/ ShouldRetry(entry[id], code) /\ Requeue(id)
      \/ ~x.cancelled /\ Settle(id, failed, queue)
  BY DEF Rejected
<1>5. IInv'
  BY NextKeepsIInv DEF Next
<1> HIDE DEF x, code, cancelled, failed
<1> QED BY <1>1, <1>3, <1>4, <1>5, RunningSettlesEffect, RequeueEffect

-----------------------------------------------------------------------------
\* The strengthening that is inductive: every claim below follows from it.
THEOREM Inductive == Spec => [](IInv /\ NoIdleWorker)
<1>1. Init => IInv /\ NoIdleWorker
  BY InitIsReady
<1>2. IInv /\ NoIdleWorker /\ [Next]_vars => (IInv /\ NoIdleWorker)'
  <2> SUFFICES ASSUME IInv, NoIdleWorker, [Next]_vars
               PROVE  (IInv /\ NoIdleWorker)'
    OBVIOUS
  <2>1. CASE Next
    BY <2>1, NextStep, DrainsKeepsIInv, FlagsKeepsIInv
  <2>2. CASE UNCHANGED vars
    BY <2>2 DEF vars, IInv, Ready, Fresh, Unused, Consistent, MayBegin,
                   Started, InOrder, NoIdleWorker
  <2> QED BY <2>1, <2>2
<1> QED BY <1>1, <1>2, PTL DEF Spec

\* Every state is one the type invariant describes.
THEOREM TypeCorrect == Spec => []TypeOK
<1>1. IInv => TypeOK
  BY DEF IInv, Ready, TypeOK
<1> QED BY <1>1, Inductive, PTL

\* No path through cancel, retry, prune, settle or requeue loses or doubles a job.
THEOREM NoJobIsLost == Spec => []Bookkeeping
<1>1. IInv => Bookkeeping
  BY DEF IInv, Ready, Bookkeeping
<1> QED BY <1>1, Inductive, PTL

\* The pool is never larger than it was configured to be.
THEOREM PoolIsBounded == Spec => []CapacityBound
<1>1. IInv => CapacityBound
  BY DEF IInv, Ready, CapacityBound
<1> QED BY <1>1, Inductive, PTL

\* A slot freed by any path is given to whoever waits, in the same step.
THEOREM NobodyWaitsForAnIdleWorker == Spec => []NoIdleWorker
BY Inductive, PTL

\* First come, first served, although a retried job goes back to the front.
THEOREM FirstComeFirstServed == Spec => []NoOvertaking
<1>1. IInv => NoOvertaking
  <2> SUFFICES ASSUME IInv, NEW i \in Ids, NEW j \in Ids, i < j,
                      entry[i].status = "queued"
               PROVE  entry[j].attempts = 0
    BY DEF NoOvertaking
  <2>1. PICK a \in 1 .. Len(queue) : queue[a] = i
    BY DEF IInv, Ready, Consistent
  <2> QED BY <2>1 DEF IInv, InOrder
<1> QED BY <1>1, Inductive, PTL

\* How a job ended never changes afterwards; it can only be forgotten.
THEOREM OutcomesAreFinal == Spec => SettledKeepsOutcome
<1>1. ASSUME IInv, Next, NEW id \in Ids, Finished(id)
      PROVE  Outcome(entry'[id]) = Outcome(entry[id]) \/ entry'[id] = Absent
  <2>1. CASE Flags
    BY <1>1, <2>1 DEF Flags
  <2>2. CASE Drains
    <3>1. PICK e, q, r : Ready(e, q, r) /\ Sparing(e) /\ Drain(e, q, r)
      BY <2>2 DEF Drains
    <3>2. e[id] = entry[id] \/ e[id] = Absent
      BY <1>1, <3>1 DEF Sparing
    <3>3. e[id].status # "queued"
      BY <1>1, <3>2 DEF IInv, Ready, Consistent, Finished, Terminal,
                         Absent, Submitted
    <3>4. entry'[id] = e[id]
      BY <3>1, <3>3, DrainTouches
    <3> QED BY <3>2, <3>4
  <2> QED BY <1>1, <2>1, <2>2, NextStep
<1>2. IInv /\ [Next]_vars =>
        [\A id \in Ids :
           Finished(id) => \/ Outcome(entry'[id]) = Outcome(entry[id])
                           \/ entry'[id] = Absent]_vars
  BY <1>1
<1> QED BY <1>2, Inductive, PTL DEF Spec, SettledKeepsOutcome

-----------------------------------------------------------------------------
(* The registry implements AnalysisJobs: every step moves each job as the   *)
(* lifecycle allows, and stops are neither invented nor lost.              *)

Place(id) == IF Known(id) THEN entry[id].status
             ELSE IF id <= sequence THEN "forgotten" ELSE "unborn"

\* The lifecycle's move of one job, all its alternatives.
Moved(id) == /\ \/ Jobs!Born(id) \/ Jobs!Begins(id) \/ Jobs!Settles(id)
                \/ Jobs!Forgets(id) \/ Jobs!Stays(id)
             /\ Jobs!StopIsSound(id)

LEMMA Mapping ==
  ASSUME NEW id \in Ids
  PROVE  /\ phase[id] = Place(id) /\ phase'[id] = Place(id)'
         /\ stopped[id] = entry[id].cancelled
         /\ stopped'[id] = entry'[id].cancelled
BY DEF phase, stopped, Place, Known

LEMMA DrainsMoves ==
  ASSUME IInv, Drains, NEW id \in Ids
  PROVE  Moved(id)
<1>1. PICK e, q, r : /\ Ready(e, q, r) /\ Moves(e) /\ Drain(e, q, r)
  BY DEF Drains
<1>2. /\ entry \in [Ids -> Entry] /\ e \in [Ids -> Entry]
      /\ entry[id].finished <=> entry[id].status \in Terminal
  BY <1>1 DEF IInv, Ready, Consistent
<1>3. \/ entry'[id] = e[id]
      \/ /\ e[id].status = "queued" /\ entry'[id].status = "running"
         /\ entry'[id].cancelled = e[id].cancelled
  <2>1. CASE entry'[id] = e[id]
    BY <2>1
  <2>2. CASE e[id].status = "queued" /\ entry'[id] = Begun(e[id])
    <3>1. e[id] \in Entry
      BY <1>2
    <3>2. Begun(e[id]).status = "running" /\ Begun(e[id]).cancelled = e[id].cancelled
      BY <3>1 DEF Begun, Entry
    <3> QED BY <2>2, <3>2
  <2> QED BY <1>1, <2>1, <2>2, DrainTouches
<1>4. CASE e[id] = entry[id] /\ (id <= sequence' <=> id <= sequence)
  <2>1. CASE entry'[id] = entry[id]
    BY <1>4, <2>1, Mapping
       DEF Moved, Jobs!Stays, Jobs!StopIsSound, Place, Known
  <2>2. CASE /\ entry[id].status = "queued" /\ entry'[id].status = "running"
             /\ entry'[id].cancelled = entry[id].cancelled
    BY <2>2, Mapping DEF Moved, Jobs!Begins, Jobs!StopIsSound, Place, Known
  <2> QED BY <1>3, <1>4, <2>1, <2>2
<1>5. CASE sequence < id /\ id <= sequence' /\ e[id] = Submitted
  <2>1. id > sequence /\ sequence \in Int /\ id \in Int
    BY <1>5 DEF IInv, Ids
  <2>2. Place(id) = "unborn" /\ ~entry[id].cancelled
    BY <2>1 DEF IInv, Fresh, Unused, Place, Known
  <2>3. /\ entry'[id].status \in {"queued", "running"}
        /\ entry'[id].cancelled = FALSE
    <3>1. e[id].status = "queued" /\ e[id].cancelled = FALSE
      BY <1>5 DEF Submitted
    <3>2. CASE entry'[id] = e[id]
      BY <3>1, <3>2
    <3>3. CASE entry'[id].status = "running" /\ entry'[id].cancelled = e[id].cancelled
      BY <3>1, <3>3
    <3> QED BY <1>3, <3>2, <3>3
  <2>4. Place(id)' \in {"queued", "running"}
    BY <2>3 DEF Place, Known
  <2>5. entry[id].cancelled = FALSE
    BY <1>2, <2>2 DEF Entry
  <2> QED BY <2>2, <2>3, <2>4, <2>5, Mapping DEF Moved, Jobs!Born, Jobs!StopIsSound
<1>6. CASE Finished(id) /\ id <= sequence' /\ e[id] = Absent
  <2>1. entry'[id] = Absent
    BY <1>3, <1>6 DEF Absent, Submitted
  <2>2. Place(id)' = "forgotten" /\ entry'[id].cancelled = FALSE
    BY <1>6, <2>1 DEF Place, Known, Absent, Submitted
  <2>3. Place(id) \in {"succeeded", "failed", "cancelled"}
    BY <1>2, <1>6 DEF Place, Finished, Terminal
  <2> QED BY <2>2, <2>3, Mapping
          DEF Moved, Jobs!Forgets, Jobs!StopIsSound, Jobs!Settled
<1>7. CASE Ends(id, e[id])
  <2>1. entry'[id] = e[id]
    BY <1>3, <1>7 DEF Ends, Terminal
  <2>2. Place(id) \in {"queued", "running"} /\ Place(id) = entry[id].status
    BY <1>2, <1>7 DEF Ends, Finished, Terminal, Place, Known, Entry, Statuses
  <2>3. Place(id)' \in {"succeeded", "failed", "cancelled"}
        /\ Place(id)' = e[id].status
    BY <1>7, <2>1 DEF Ends, Terminal, Place, Known
  <2>4. /\ e[id].status = "cancelled" <=> e[id].cancelled
        /\ entry[id].cancelled => e[id].cancelled
        /\ entry[id].status = "queued" => e[id].cancelled
        /\ entry[id].cancelled \in BOOLEAN /\ e[id].cancelled \in BOOLEAN
    BY <1>2, <1>7 DEF Ends, Entry
  <2> QED BY <2>1, <2>2, <2>3, <2>4, Mapping
          DEF Moved, Jobs!Settles, Jobs!StopIsSound, Jobs!Settled
<1>8. CASE /\ entry[id].status = "running" /\ entry'[id].status = "running"
           /\ entry'[id].cancelled = entry[id].cancelled
  BY <1>8, Mapping DEF Moved, Jobs!Stays, Jobs!StopIsSound, Place, Known
<1> QED BY <1>1, <1>4, <1>5, <1>6, <1>7, <1>8 DEF Moves

LEMMA FlagsMoves ==
  ASSUME IInv, Flags, UNCHANGED sequence, NEW id \in Ids
  PROVE  Moved(id)
<1>1. /\ entry[id] \in Entry /\ entry'[id] \in Entry
      /\ entry'[id].status = entry[id].status
      /\ entry[id].finished <=> entry[id].status \in Terminal
      /\ \/ entry'[id].cancelled = entry[id].cancelled
         \/ entry'[id].cancelled /\ Known(id) /\ ~Finished(id)
  BY DEF Flags, IInv, Ready, Consistent
<1>2. Place(id)' = Place(id)
  BY <1>1 DEF Place, Known
<1>3. Known(id) /\ ~Finished(id) => Place(id) \in {"queued", "running"}
  BY <1>1 DEF Finished, Terminal, Place, Known, Entry, Statuses
<1>4. Jobs!StopIsSound(id)
  BY <1>1, <1>3, Mapping DEF Jobs!StopIsSound, Entry
<1> QED BY <1>2, <1>4, Mapping DEF Moved, Jobs!Stays

\* The registry keeps the promise its callers read AnalysisStatus for.
THEOREM RegistryImplementsJobs == Spec => ImplementsJobs
<1>1. Init => Jobs!Init
  BY DEF Init, Jobs!Init, phase, stopped, Known, Absent, Submitted, Ids
<1>2. IInv /\ IInv' /\ [Next]_vars => [Jobs!Next]_Jobs!vars
  <2> SUFFICES ASSUME IInv, IInv', [Next]_vars PROVE [Jobs!Next]_Jobs!vars
    OBVIOUS
  <2>1. CASE UNCHANGED vars
    BY <2>1 DEF vars, Jobs!vars, phase, stopped, Known
  <2>2. CASE Next
    <3>1. \A id \in Ids : Moved(id)
      BY <2>2, NextStep, DrainsMoves, FlagsMoves
    <3>2. phase' \in [Ids -> Jobs!Phases]
      <4> SUFFICES ASSUME NEW id \in Ids PROVE phase'[id] \in Jobs!Phases
        BY DEF phase
      <4>1. entry'[id].status \in Statuses
        BY DEF IInv, Ready, Entry
      <4> QED BY <4>1, Mapping
              DEF Place, Known, Statuses, Terminal, Jobs!Phases, Jobs!Settled
    <3>3. stopped' \in [Ids -> BOOLEAN]
      BY DEF IInv, Ready, Entry, stopped
    <3>4. Jobs!Cardinality(Jobs!Active') <= Concurrency
      <4>1. Jobs!Active' = running'
        <5>1. running' = {id \in Ids : entry'[id].status = "running"}
          BY DEF IInv, Ready, Consistent
        <5>2. \A id \in Ids : phase'[id] = "running" <=> entry'[id].status = "running"
          BY Mapping DEF Place, Known
        <5> QED BY <5>1, <5>2 DEF Jobs!Active
      <4>2. Cardinality(running') <= Concurrency
        BY DEF IInv, Ready
      \* AnalysisJobs sees the same library operator under the name of its instance.
      <4>3. Jobs!Cardinality(running') = Cardinality(running')
        BY DEF Cardinality, Jobs!Cardinality
      <4> QED BY <4>1, <4>2, <4>3
    <3> QED BY <3>1, <3>2, <3>3, <3>4 DEF Jobs!Next, Moved
  <2> QED BY <2>1, <2>2
<1> QED BY <1>1, <1>2, Inductive, PTL DEF Spec, ImplementsJobs, Jobs!Spec
=============================================================================
