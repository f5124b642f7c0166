------------------------ MODULE GraphQuestionsProofs ------------------------
(***************************************************************************)
(* Two theorems about the whole-graph questions, for every graph and every *)
(* number of nodes.                                                        *)
(*                                                                         *)
(* 1. A breadth-first walk finds every node once and at its distance: what *)
(*    is found ends a trail of its length, the queue spans one step and    *)
(*    its order is that of the depths, and a node met for the first time   *)
(*    has no shorter trail.                                                *)
(* 2. The cycles reported are the strongly connected components, each      *)
(*    after all it reaches.  The invariant (SearchStands) is about any     *)
(*    state of the search and any edges: it has no variable in it, and a   *)
(*    lemma per kind of step shows that the next state has it too.         *)
(***************************************************************************)
EXTENDS GraphQuestions, FiniteSetTheorems, FunctionTheorems, SequenceTheorems, WellFoundedInduction, TLAPS

-----------------------------------------------------------------------------
(* What the definitions give *)

\* A set of numbers that has a member has a least one.
LEMMA LeastIsThere ==
  ASSUME NEW S, S \subseteq Nat, S # {}
  PROVE  \E x \in S : \A y \in S : x <= y
<1> DEFINE Less == {p \in Nat \X Nat : p[1] < p[2]}
<1>1. Less = OpToRel(<, Nat)
  BY DEF OpToRel
<1>2. IsWellFoundedOn(Less, Nat)
  BY <1>1, NatLessThanWellFounded
<1> HIDE DEF Less
<1>3. \E x \in S : \A y \in S : <<y, x>> \notin Less
  BY <1>2, WFMin
<1>4. \A x, y \in S : <<y, x>> \notin Less => x <= y
  BY DEF Less
<1>5. QED BY <1>3, <1>4

\* The neighbour taken next is one of them.
LEMMA FirstIsIn ==
  ASSUME NEW S, S \subseteq Nodes, S # {}
  PROVE  First(S) \in S
<1>1. S \subseteq Nat
  BY GraphsAssumption DEF Nodes
<1>2. \E x \in S : \A y \in S : x <= y
  BY <1>1, LeastIsThere
<1>3. QED BY <1>2 DEF First

\* The nodes are finitely many, and so is whatever is made of them.
LEMMA NodesAreFinite ==
  ASSUME NEW S, S \subseteq Nodes
  PROVE  IsFiniteSet(S) /\ Cardinality(S) \in Nat
<1>1. IsFiniteSet(Nodes)
  BY GraphsAssumption, FS_Interval DEF Nodes
<1>2. IsFiniteSet(S)
  BY <1>1, FS_Subset
<1>3. QED BY <1>2, FS_CardinalityType

Questions == {"cycles", "depth", "impact", "dependencies"}

\* The graph and the question are what they are assumed to be.
Asked == repository \in Repositories /\ question \in Questions

\* Neighbours are nodes, and one that is followed is no route.
LEMMA NeighboursAreNodes ==
  ASSUME Asked, NEW n, NEW m \in Neighbours(n)
  PROVE  m \in Nodes /\ (Followed(m) => ~IsRoute(m))
<1>1. \A e \in repository.edges : repository.kind[e[2]] # "route"
  BY GraphsAssumption DEF Asked
<1>2. CASE question = "impact"
  BY <1>2 DEF Neighbours, Sources, Followed, Declared, IsRoute
<1>3. CASE question = "depth"
  BY <1>1, <1>3 DEF Neighbours, Targets, Calls, IsRoute
<1>4. CASE question # "impact" /\ question # "depth"
  BY <1>1, <1>4 DEF Neighbours, Targets, IsRoute
<1>5. QED BY <1>2, <1>3, <1>4

\* What a queue holds, with one more at its end or with its head gone.
LEMMA RangeOfAppend ==
  ASSUME NEW S, NEW q \in Seq(S), NEW e \in S
  PROVE  Range(Append(q, e)) = Range(q) \cup {e}
<1>1. /\ Append(q, e) \in Seq(S) /\ Len(q) \in Nat /\ Len(Append(q, e)) = Len(q) + 1
      /\ \A i \in 1 .. Len(q) : Append(q, e)[i] = q[i]
      /\ Append(q, e)[Len(q) + 1] = e
  BY AppendProperties, LenProperties
<1>2. /\ Range(q) = {q[i] : i \in 1 .. Len(q)}
      /\ Range(Append(q, e)) = {Append(q, e)[i] : i \in 1 .. Len(q) + 1}
  BY <1>1, RangeEquality
<1>3. 1 .. Len(q) + 1 = (1 .. Len(q)) \cup {Len(q) + 1}
  BY <1>1
<1>4. QED BY <1>1, <1>2, <1>3

LEMMA RangeOfTail ==
  ASSUME NEW S, NEW q \in Seq(S), q # <<>>
  PROVE  /\ Head(q) \in S /\ Range(q) = Range(Tail(q)) \cup {Head(q)}
         /\ \A e \in Range(Tail(q)) : \E i \in 2 .. Len(q) : e = q[i]
<1>1. /\ Head(q) \in S /\ Head(q) = q[1] /\ Tail(q) \in Seq(S) /\ Len(q) \in Nat \ {0}
      /\ Len(Tail(q)) = Len(q) - 1 /\ \A i \in 1 .. Len(q) - 1 : Tail(q)[i] = q[i + 1]
  BY HeadTailProperties, LenProperties, EmptySeq
<1>2. /\ Range(q) = {q[i] : i \in 1 .. Len(q)}
      /\ Range(Tail(q)) = {Tail(q)[i] : i \in 1 .. Len(q) - 1}
  BY <1>1, RangeEquality
<1>3. \A i \in 1 .. Len(q) - 1 : i + 1 \in 2 .. Len(q) /\ i + 1 \in 1 .. Len(q)
  BY <1>1
<1>4. \A i \in 1 .. Len(q) : i = 1 \/ (i - 1 \in 1 .. Len(q) - 1 /\ Tail(q)[i - 1] = q[i])
  BY <1>1
<1>5. ASSUME NEW e \in Range(q) PROVE e \in Range(Tail(q)) \cup {Head(q)}
  <2>1. PICK i \in 1 .. Len(q) : e = q[i]
    BY <1>2
  <2>2. QED BY <1>1, <1>2, <1>4, <2>1
<1>6. ASSUME NEW e \in Range(Tail(q)) PROVE e \in Range(q) /\ \E i \in 2 .. Len(q) : e = q[i]
  BY <1>1, <1>2, <1>3
<1>7. Head(q) \in Range(q)
  BY <1>1, <1>2
<1>8. QED BY <1>1, <1>5, <1>6, <1>7

-----------------------------------------------------------------------------
(* The invariant of a walk *)

Entry == [id : Nodes, depth : Nat]
Walk  == [queue : Seq(Entry), now : Entry \cup {NoEntry}, rest : SUBSET Nodes,
          visited : SUBSET Nodes, found : Seq(Entry), routes : SUBSET (Nodes \X Nodes),
          asked : Nat]

\* A start is at depth 0, anything else where it was found.
At(n, k) == (n \in Starts /\ k = 0) \/ FoundAt(n, k)

\* Those whose neighbours were asked for, and the neighbours one still has.
Expanded == {n \in walk.visited : Followed(n)} \ Ids(walk.queue)
Left(n)  == IF n = walk.now.id THEN walk.rest ELSE {}

\* Each node is found once, at the end of a trail, and no further than one step ahead.
FoundStand ==
  /\ Ids(walk.found) \subseteq walk.visited
  /\ \A i, j \in DOMAIN walk.found : i < j =>
       walk.found[i].depth <= walk.found[j].depth /\ walk.found[i].id # walk.found[j].id
  /\ \A e \in Range(walk.found) :
       e.depth \in 1 .. walk.now.depth + 1 /\ ~IsRoute(e.id) /\ e.id \in Ends(e.depth)

\* The queue is nearest first and spans one step; the one in hand left it.
QueueStands ==
  /\ \A e \in Range(walk.queue) :
       At(e.id, e.depth) /\ Followed(e.id) /\ e.depth \in walk.now.depth .. walk.now.depth + 1
  /\ \A i, j \in DOMAIN walk.queue : i < j =>
       walk.queue[i].depth <= walk.queue[j].depth /\ walk.queue[i].id # walk.queue[j].id
  /\ walk.rest # {} =>
       \E e \in Entry : /\ walk.now = e /\ At(e.id, e.depth)
                        /\ e.id \in Expanded /\ walk.rest \subseteq Neighbours(e.id)

\* What is one step from a node asked is found at most one step further.
AskedStand ==
  /\ \A n \in Expanded : \A m \in Neighbours(n) \ Left(n) :
       IsRoute(m) \/ \E k, j \in Nat : At(n, k) /\ At(m, j) /\ j <= k + 1
  /\ walk.routes = {p \in Nodes \X Expanded : p[1] \in Neighbours(p[2]) \ Left(p[2]) /\ IsRoute(p[1])}
  /\ walk.asked = Cardinality(Expanded)

WalkInv ==
  /\ Asked /\ walk \in Walk /\ \A s \in Starts : Followed(s)
  /\ FoundStand /\ QueueStands /\ AskedStand

-----------------------------------------------------------------------------
(* The steps *)

\* A walk begins with its starts queued and nothing found.
LEMMA WalkStarts ==
  ASSUME Asked, NEW list \in Seq(Nodes), walk = WalkFrom(list),
         \A i, j \in 1 .. Len(list) : i < j => list[i] # list[j],
         \A i \in 1 .. Len(list) : Followed(list[i])
  PROVE  WalkInv
<1> DEFINE queue == [i \in DOMAIN list |-> [id |-> list[i], depth |-> 0]]
<1>1. DOMAIN list = 1 .. Len(list) /\ Len(list) \in Nat /\ Range(list) = {list[i] : i \in 1 .. Len(list)}
  BY RangeEquality
<1>2. walk = [queue |-> queue, now |-> NoEntry, rest |-> {}, visited |-> Range(list),
              found |-> <<>>, routes |-> {}, asked |-> 0]
  BY DEF WalkFrom
<1>3. queue \in Seq(Entry) /\ Len(queue) = Len(list) /\ DOMAIN queue = 1 .. Len(list)
  BY <1>1 DEF Entry
<1>4. \A i \in 1 .. Len(list) : queue[i].id = list[i] /\ queue[i].depth = 0
  BY <1>1
<1> HIDE DEF queue
<1>5. /\ walk.queue = queue /\ walk.now = NoEntry /\ walk.rest = {} /\ walk.visited = Range(list)
      /\ walk.found = <<>> /\ walk.routes = {} /\ walk.asked = 0
  BY <1>2
<1>6. walk \in Walk
  BY <1>1, <1>2, <1>3 DEF Walk
<1>7. Ids(walk.found) = {} /\ Range(walk.found) = {} /\ DOMAIN walk.found = {}
  <2>1. DOMAIN <<>> = {}
    OBVIOUS
  <2>2. QED BY <1>5, <2>1 DEF Ids, Range
<1>8. Starts = Range(list)
  BY <1>5, <1>7 DEF Starts
<1>9. /\ \A e \in Range(walk.queue) : e.id \in Range(list) /\ e.depth = 0
      /\ Ids(walk.queue) = Range(list)
  <2>1. Range(queue) = {queue[i] : i \in 1 .. Len(list)}
    BY <1>3, RangeEquality
  <2>2. ASSUME NEW e \in Range(queue) PROVE e.id \in Range(list) /\ e.depth = 0
    <3>1. PICK i \in 1 .. Len(list) : e = queue[i]
      BY <2>1
    <3>2. e.id = list[i] /\ e.depth = 0
      BY <1>4, <3>1
    <3>3. QED BY <1>1, <3>2
  <2>3. ASSUME NEW n \in Range(list) PROVE \E e \in Range(queue) : e.id = n
    <3>1. PICK i \in 1 .. Len(list) : n = list[i]
      BY <1>1
    <3>2. queue[i].id = n
      BY <1>4, <3>1
    <3>3. queue[i] \in Range(queue)
      BY <2>1
    <3>4. QED BY <3>2, <3>3
  <2>4. QED BY <1>5, <2>2, <2>3 DEF Ids
<1>10. Expanded = {}
  BY <1>5, <1>9 DEF Expanded
<1>11. FoundStand
  BY <1>7 DEF FoundStand
<1>12. QueueStands
  <2>1. \A e \in Range(walk.queue) :
          At(e.id, e.depth) /\ Followed(e.id) /\ e.depth \in walk.now.depth .. walk.now.depth + 1
    BY <1>1, <1>5, <1>8, <1>9 DEF At, NoEntry
  <2>2. \A i, j \in DOMAIN walk.queue : i < j =>
          walk.queue[i].depth <= walk.queue[j].depth /\ walk.queue[i].id # walk.queue[j].id
    BY <1>3, <1>4, <1>5
  <2>3. QED BY <1>5, <2>1, <2>2 DEF QueueStands
<1>13. AskedStand
  BY <1>5, <1>10, FS_EmptySet DEF AskedStand
<1>14. QED BY <1>1, <1>6, <1>8, <1>11, <1>12, <1>13 DEF WalkInv

LEMMA WalkInit == Init => WalkInv
<1> SUFFICES ASSUME Init PROVE WalkInv
  OBVIOUS
<1>1. Asked
  BY DEF Init, Asked, Questions
<1>2. CASE question = "cycles" /\ walk = WalkFrom(<<>>)
  <2>1. PICK list : list = <<>>
    OBVIOUS
  <2>2. list \in Seq(Nodes) /\ Len(list) = 0
    BY <2>1
  <2>3. \A i \in 1 .. Len(list) : FALSE
    BY <2>2
  <2>4. QED BY <1>1, <1>2, <2>1, <2>2, <2>3, WalkStarts
<1>3. CASE question = "depth" /\ \E list \in Listed(Roots) : walk = WalkFrom(list)
  <2>1. PICK list \in Listed(Roots) : walk = WalkFrom(list)
    BY <1>3
  <2>2. Roots \subseteq Nodes
    BY DEF Roots, Participants
  <2>3. Cardinality(Roots) \in Nat
    BY <2>2, NodesAreFinite
  <2>4. /\ list \in [1 .. Cardinality(Roots) -> Roots]
        /\ \A i, j \in 1 .. Cardinality(Roots) : i < j => list[i] < list[j]
    BY DEF Listed
  <2>5. list \in Seq(Nodes) /\ Len(list) = Cardinality(Roots)
    BY <2>2, <2>3, <2>4
  <2>6. \A i, j \in 1 .. Len(list) : i < j => list[i] # list[j]
    BY <2>2, <2>4, <2>5, GraphsAssumption DEF Nodes
  <2>7. \A n : Followed(n)
    BY <1>3 DEF Followed
  <2>8. QED BY <1>1, <2>1, <2>5, <2>6, <2>7, WalkStarts
<1>4. ASSUME NEW n \in Nodes, walk = WalkFrom(<<n>>), Followed(n)
      PROVE  WalkInv
  <2>1. PICK list : list = <<n>>
    OBVIOUS
  <2>2. list \in Seq(Nodes) /\ Len(list) = 1 /\ list[1] = n
    BY <2>1
  <2>3. \A i \in 1 .. Len(list) : i = 1
    BY <2>2
  <2>4. \A i, j \in 1 .. Len(list) : i < j => list[i] # list[j]
    BY <2>3
  <2>5. QED BY <1>1, <1>4, <2>1, <2>2, <2>3, <2>4, WalkStarts
<1>5. CASE question = "impact" /\ \E n \in Nodes : Declared(n) /\ walk = WalkFrom(<<n>>)
  BY <1>4, <1>5 DEF Followed
<1>6. CASE question = "dependencies" /\ \E n \in Nodes : walk = WalkFrom(<<n>>)
  BY <1>4, <1>6 DEF Followed
<1>7. QED BY <1>2, <1>3, <1>5, <1>6 DEF Init

\* While nothing is asked of another graph and the starts are the same, the trails are.
LEMMA TrailsStay ==
  ASSUME UNCHANGED <<repository, question>>, Starts' = Starts
  PROVE  /\ \A n : Neighbours(n)' = Neighbours(n) /\ Followed(n)' = Followed(n) /\ IsRoute(n)' = IsRoute(n)
         /\ \A k : Ends(k)' = Ends(k)
<1>1. \A n : Neighbours(n)' = Neighbours(n) /\ Followed(n)' = Followed(n) /\ IsRoute(n)' = IsRoute(n)
  BY DEF Neighbours, Followed, IsRoute, Calls, Declared
<1>2. \A k : Trails(k)' = Trails(k)
  BY <1>1 DEF Trails
<1>3. QED BY <1>1, <1>2 DEF Ends

\* Where nothing more is found, everything is where it was.
LEMMA FoundStays ==
  ASSUME UNCHANGED <<repository, question>>, walk'.visited = walk.visited, walk'.found = walk.found
  PROVE  /\ Starts' = Starts
         /\ \A n, k : FoundAt(n, k)' = FoundAt(n, k) /\ At(n, k)' = At(n, k)
  BY DEF Starts, FoundAt, At

\* What is found is visited.
LEMMA AtIsVisited ==
  ASSUME WalkInv, NEW n, NEW k, At(n, k)
  PROVE  n \in walk.visited
<1>1. CASE n \in Starts
  BY <1>1 DEF Starts
<1>2. CASE FoundAt(n, k)
  <2>1. n \in Ids(walk.found)
    BY <1>2 DEF FoundAt, Ids
  <2>2. QED BY <2>1 DEF WalkInv, FoundStand
<1>3. QED BY <1>1, <1>2 DEF At

\* The head of the queue is asked; it stands for no neighbour until they are met.
LEMMA AskKeeps == WalkInv /\ Ask => WalkInv'
<1> SUFFICES ASSUME WalkInv, Ask PROVE WalkInv'
  OBVIOUS
<1>0. Asked /\ walk \in Walk /\ FoundStand /\ QueueStands /\ AskedStand
  BY DEF WalkInv
<1>1. /\ walk.queue \in Seq(Entry) /\ walk.queue # <<>> /\ walk.rest = {}
      /\ walk.visited \subseteq Nodes /\ walk.asked \in Nat
  BY <1>0 DEF Ask, Walk
<1>2. PICK head \in Entry : /\ head = Head(walk.queue) /\ head = walk.queue[1]
                           /\ Range(walk.queue) = Range(Tail(walk.queue)) \cup {head}
  BY <1>1, RangeOfTail
<1>3. /\ Len(walk.queue) \in Nat \ {0} /\ DOMAIN walk.queue = 1 .. Len(walk.queue)
      /\ Tail(walk.queue) \in Seq(Entry) /\ DOMAIN Tail(walk.queue) = 1 .. Len(walk.queue) - 1
      /\ \A i \in 1 .. Len(walk.queue) - 1 : Tail(walk.queue)[i] = walk.queue[i + 1]
      /\ \A e \in Range(Tail(walk.queue)) : \E i \in 2 .. Len(walk.queue) : e = walk.queue[i]
  BY <1>1, HeadTailProperties, RangeOfTail
<1>4. /\ walk' = [queue |-> Tail(walk.queue), now |-> head, rest |-> Neighbours(head.id),
                  visited |-> walk.visited, found |-> walk.found, routes |-> walk.routes,
                  asked |-> walk.asked + 1]
      /\ UNCHANGED <<repository, question>>
  BY <1>0, <1>2 DEF Ask, Walk
<1>5. /\ walk'.queue = Tail(walk.queue) /\ walk'.now = head /\ walk'.rest = Neighbours(head.id)
      /\ walk'.visited = walk.visited /\ walk'.found = walk.found
      /\ walk'.routes = walk.routes /\ walk'.asked = walk.asked + 1
  BY <1>4
<1>6. walk' \in Walk
  <2>1. Neighbours(head.id) \in SUBSET Nodes
    BY <1>0, NeighboursAreNodes
  <2>2. QED BY <1>0, <1>1, <1>3, <1>4, <2>1 DEF Walk
<1>7. /\ Starts' = Starts
      /\ \A n, k : FoundAt(n, k)' = FoundAt(n, k) /\ At(n, k)' = At(n, k)
  BY <1>4, <1>5, FoundStays
<1>8. /\ \A n : Neighbours(n)' = Neighbours(n) /\ Followed(n)' = Followed(n) /\ IsRoute(n)' = IsRoute(n)
      /\ \A k : Ends(k)' = Ends(k)
  BY <1>4, <1>7, TrailsStay
<1>9. At(head.id, head.depth) /\ Followed(head.id) /\ head.depth \in walk.now.depth .. walk.now.depth + 1
  BY <1>0, <1>2 DEF QueueStands
<1>10. head.id \in walk.visited
  BY <1>9, AtIsVisited
<1>11. Ids(walk.queue) = Ids(walk'.queue) \cup {head.id} /\ head.id \notin Ids(walk'.queue)
  <2>1. \A e \in Range(Tail(walk.queue)) : e.id # head.id
    BY <1>0, <1>2, <1>3 DEF QueueStands
  <2>2. QED BY <1>2, <1>5, <2>1 DEF Ids
<1>12. Expanded' = Expanded \cup {head.id} /\ head.id \notin Expanded
  BY <1>5, <1>8, <1>9, <1>10, <1>11 DEF Expanded
<1>13. /\ \A n : Left(n) = {}
       /\ \A n : Left(n)' = IF n = head.id THEN Neighbours(n) ELSE {}
  BY <1>1, <1>5 DEF Left
<1>14. walk.now.depth \in Nat /\ head.depth \in Nat
  BY <1>0 DEF Walk, Entry, NoEntry
<1>15. FoundStand'
  <2>1. \A e \in Range(walk.found) : e.depth \in 1 .. head.depth + 1
    BY <1>0, <1>9, <1>14 DEF FoundStand
  <2>2. QED BY <1>0, <1>5, <1>8, <2>1 DEF FoundStand
<1>16. QueueStands'
  <2>1. ASSUME NEW e \in Range(Tail(walk.queue))
        PROVE  At(e.id, e.depth) /\ Followed(e.id) /\ e.depth \in head.depth .. head.depth + 1
    <3>1. PICK i \in 2 .. Len(walk.queue) : e = walk.queue[i]
      BY <1>3
    <3>2. 1 \in DOMAIN walk.queue /\ i \in DOMAIN walk.queue /\ 1 < i
      BY <1>3
    <3>3. head.depth <= e.depth
      BY <1>0, <1>2, <3>1, <3>2 DEF QueueStands
    <3>4. At(e.id, e.depth) /\ Followed(e.id) /\ e.depth \in walk.now.depth .. walk.now.depth + 1
      BY <1>0, <1>2 DEF QueueStands
    <3>5. QED BY <1>9, <1>14, <3>3, <3>4
  <2>2. \A i, j \in DOMAIN Tail(walk.queue) : i < j =>
          /\ Tail(walk.queue)[i].depth <= Tail(walk.queue)[j].depth
          /\ Tail(walk.queue)[i].id # Tail(walk.queue)[j].id
    <3> SUFFICES ASSUME NEW i \in 1 .. Len(walk.queue) - 1, NEW j \in 1 .. Len(walk.queue) - 1, i < j
                 PROVE  walk.queue[i + 1].depth <= walk.queue[j + 1].depth /\ walk.queue[i + 1].id # walk.queue[j + 1].id
      BY <1>3
    <3>1. i + 1 \in DOMAIN walk.queue /\ j + 1 \in DOMAIN walk.queue /\ i + 1 < j + 1
      BY <1>3
    <3>2. QED BY <1>0, <3>1 DEF QueueStands
  <2>3. At(head.id, head.depth)' /\ head.id \in Expanded' /\ walk'.rest \subseteq Neighbours(head.id)'
    BY <1>5, <1>7, <1>8, <1>9, <1>12
  <2>4. QED BY <1>5, <1>7, <1>8, <2>1, <2>2, <2>3 DEF QueueStands
<1>17. AskedStand'
  <2>1. \A n \in Expanded' : \A m \in Neighbours(n)' \ Left(n)' :
          IsRoute(m)' \/ \E k, j \in Nat : At(n, k)' /\ At(m, j)' /\ j <= k + 1
    BY <1>0, <1>7, <1>8, <1>12, <1>13 DEF AskedStand
  <2>2. walk'.routes = {p \in Nodes \X Expanded' : p[1] \in Neighbours(p[2])' \ Left(p[2])' /\ IsRoute(p[1])'}
    BY <1>0, <1>5, <1>8, <1>12, <1>13 DEF AskedStand
  <2>3. walk'.asked = Cardinality(Expanded')
    <3>1. IsFiniteSet(Expanded)
      BY <1>1, NodesAreFinite DEF Expanded
    <3>2. Cardinality(Expanded \cup {head.id}) = Cardinality(Expanded) + 1
      BY <1>12, <3>1, FS_AddElement
    <3>3. walk.asked = Cardinality(Expanded)
      BY <1>0 DEF AskedStand
    <3>4. QED BY <1>5, <1>12, <3>2, <3>3
  <2>4. QED BY <2>1, <2>2, <2>3 DEF AskedStand
<1>18. Asked' /\ \A s \in Starts' : Followed(s)'
  BY <1>4, <1>7, <1>8 DEF WalkInv, Asked
<1>19. QED BY <1>6, <1>15, <1>16, <1>17, <1>18 DEF WalkInv

\* What is visited was found no further than one step ahead.
LEMMA VisitedIsAt ==
  ASSUME WalkInv, NEW n \in walk.visited
  PROVE  \E k \in Nat : At(n, k) /\ k <= walk.now.depth + 1
<1>0. walk.now.depth \in Nat /\ FoundStand
  BY DEF WalkInv, Walk, Entry, NoEntry
<1>1. CASE n \in Starts
  BY <1>0, <1>1 DEF At
<1>2. CASE n \notin Starts
  <2>1. PICK e \in Range(walk.found) : e.id = n
    BY <1>2 DEF Starts, Ids
  <2>2. walk.found \in Seq(Entry)
    BY DEF WalkInv, Walk
  <2>3. e \in Entry
    BY <2>1, <2>2, RangeOfSeq
  <2>4. e = [id |-> n, depth |-> e.depth] /\ e.depth \in Nat
    BY <2>1, <2>3 DEF Entry
  <2>5. At(n, e.depth)
    BY <2>1, <2>4 DEF At, FoundAt
  <2>6. e.depth <= walk.now.depth + 1
    BY <1>0, <2>1 DEF FoundStand
  <2>7. QED BY <2>4, <2>5, <2>6
<1>3. QED BY <1>1, <1>2

\* A neighbour that is a route, or was visited, is one the node asked no longer has.
LEMMA MetBefore ==
  ASSUME WalkInv, walk.rest # {}, NEW next, next = First(walk.rest),
         IsRoute(next) \/ next \in walk.visited, UNCHANGED <<repository, question>>,
         walk' = [walk EXCEPT !.rest = @ \ {next},
                              !.routes = IF IsRoute(next) THEN @ \cup {<<next, walk.now.id>>} ELSE @]
  PROVE  WalkInv'
<1>0. Asked /\ walk \in Walk /\ FoundStand /\ QueueStands /\ AskedStand
  BY DEF WalkInv
<1>1. /\ walk.rest \subseteq Nodes /\ walk.routes \subseteq Nodes \X Nodes /\ walk.visited \subseteq Nodes
      /\ walk.now.depth \in Nat
  BY <1>0 DEF Walk, Entry, NoEntry
<1>2. PICK now \in Entry : /\ walk.now = now /\ At(now.id, now.depth)
                          /\ now.id \in Expanded /\ walk.rest \subseteq Neighbours(now.id)
  BY <1>0 DEF QueueStands
<1>3. next \in walk.rest /\ next \in Nodes /\ next \in Neighbours(now.id) /\ now.id \in Nodes
  BY <1>1, <1>2, FirstIsIn DEF Entry
<1>4. /\ walk'.rest = walk.rest \ {next}
      /\ walk'.routes = IF IsRoute(next) THEN walk.routes \cup {<<next, now.id>>} ELSE walk.routes
      /\ UNCHANGED <<walk.queue, walk.now, walk.visited, walk.found, walk.asked>>
  BY <1>0, <1>2 DEF Walk
<1>5. walk' \in Walk
  <2>1. walk'.routes \in SUBSET (Nodes \X Nodes) /\ walk'.rest \in SUBSET Nodes
    BY <1>1, <1>3, <1>4
  <2>2. walk' = [walk EXCEPT !.rest = walk'.rest, !.routes = walk'.routes]
    BY <1>0 DEF Walk
  <2>3. QED BY <1>0, <2>1, <2>2 DEF Walk
<1>6. /\ Starts' = Starts
      /\ \A n, k : FoundAt(n, k)' = FoundAt(n, k) /\ At(n, k)' = At(n, k)
  BY <1>4, FoundStays
<1>7. /\ \A n : Neighbours(n)' = Neighbours(n) /\ Followed(n)' = Followed(n) /\ IsRoute(n)' = IsRoute(n)
      /\ \A k : Ends(k)' = Ends(k)
  BY <1>6, TrailsStay
<1>8. Expanded' = Expanded
  BY <1>4, <1>7 DEF Expanded
<1>9. \A n : Left(n)' = IF n = now.id THEN Left(n) \ {next} ELSE Left(n)
  BY <1>2, <1>4 DEF Left
<1>10. Left(now.id) = walk.rest
  BY <1>2 DEF Left
<1>11. FoundStand'
  BY <1>0, <1>4, <1>7 DEF FoundStand
<1>12. QueueStands'
  <2>1. walk'.now = now /\ At(now.id, now.depth)' /\ now.id \in Expanded' /\ walk'.rest \subseteq Neighbours(now.id)'
    BY <1>2, <1>4, <1>6, <1>7, <1>8
  <2>2. QED BY <1>0, <1>4, <1>6, <1>7, <2>1 DEF QueueStands
<1>13. AskedStand'
  <2>1. ASSUME NEW n \in Expanded, NEW m \in Neighbours(n) \ Left(n)'
        PROVE  IsRoute(m) \/ \E k, j \in Nat : At(n, k) /\ At(m, j) /\ j <= k + 1
    <3>1. CASE m \notin Left(n)
      BY <1>0, <3>1 DEF AskedStand
    <3>2. CASE n = now.id /\ m = next
      <4>1. CASE IsRoute(next)
        BY <3>2, <4>1
      <4>2. CASE next \in walk.visited
        <5>1. PICK j \in Nat : At(next, j) /\ j <= walk.now.depth + 1
          BY <4>2, VisitedIsAt
        <5>2. now.depth \in Nat
          BY DEF Entry
        <5>3. QED BY <1>2, <3>2, <5>1, <5>2
      <4>3. QED BY <4>1, <4>2
    <3>3. QED BY <1>9, <3>1, <3>2
  <2>2. walk'.routes = {p \in Nodes \X Expanded : p[1] \in Neighbours(p[2]) \ Left(p[2])' /\ IsRoute(p[1])}
    <3>1. walk.routes = {p \in Nodes \X Expanded : p[1] \in Neighbours(p[2]) \ Left(p[2]) /\ IsRoute(p[1])}
      BY <1>0 DEF AskedStand
    <3>2. \A p \in Nodes \X Expanded : p[1] \in Neighbours(p[2]) \ Left(p[2])'
            <=> (p[1] \in Neighbours(p[2]) \ Left(p[2]) \/ p = <<next, now.id>>)
      BY <1>3, <1>9, <1>10
    <3>3. <<next, now.id>> \in Nodes \X Expanded
      BY <1>2, <1>3
    <3>4. CASE IsRoute(next)
      BY <1>4, <3>1, <3>2, <3>3, <3>4
    <3>5. CASE ~IsRoute(next)
      BY <1>4, <3>1, <3>2, <3>3, <3>5
    <3>6. QED BY <3>4, <3>5
  <2>3. QED BY <1>0, <1>4, <1>6, <1>7, <1>8, <2>1, <2>2 DEF AskedStand
<1>14. Asked' /\ \A s \in Starts' : Followed(s)'
  BY <1>0, <1>6, <1>7 DEF WalkInv, Asked
<1>15. QED BY <1>5, <1>11, <1>12, <1>13, <1>14 DEF WalkInv

\* A trail to a node that is followed goes on to its neighbours.
LEMMA TrailGoesOn ==
  ASSUME NEW n, NEW k \in Nat, At(n, k), FoundAt(n, k) => k > 0 /\ n \in Ends(k),
         Followed(n), NEW m \in Nodes, m \in Neighbours(n)
  PROVE  m \in Ends(k + 1)
<1>1. CASE n \in Starts /\ k = 0
  <2> DEFINE p == [i \in 1 .. 1 |-> m]
  <2>1. p \in [1 .. 1 -> Nodes] /\ p[1] = m
    OBVIOUS
  <2>2. \A i \in 2 .. 1 : FALSE
    OBVIOUS
  <2>3. p \in Trails(1)
    BY <1>1, <2>1, <2>2 DEF Trails
  <2>4. QED BY <1>1, <2>1, <2>3 DEF Ends
<1>2. CASE FoundAt(n, k)
  <2>1. PICK p \in Trails(k) : p[k] = n
    BY <1>2 DEF Ends
  <2> DEFINE q == [i \in 1 .. k + 1 |-> IF i = k + 1 THEN m ELSE p[i]]
  <2>2. /\ p \in [1 .. k -> Nodes] /\ \E s \in Starts : p[1] \in Neighbours(s)
        /\ \A i \in 2 .. k : Followed(p[i - 1]) /\ p[i] \in Neighbours(p[i - 1])
    BY <2>1 DEF Trails
  <2>3. q \in [1 .. k + 1 -> Nodes] /\ q[k + 1] = m /\ \A i \in 1 .. k : q[i] = p[i]
    BY <2>2
  <2> HIDE DEF q
  <2>4. q[1] = p[1]
    BY <1>2, <2>3
  <2>5. ASSUME NEW i \in 2 .. k + 1 PROVE Followed(q[i - 1]) /\ q[i] \in Neighbours(q[i - 1])
    <3>1. i - 1 \in 1 .. k /\ q[i - 1] = p[i - 1]
      BY <2>3
    <3>2. CASE i = k + 1
      BY <2>1, <2>3, <3>1, <3>2
    <3>3. CASE i # k + 1
      <4>1. i \in 2 .. k /\ q[i] = p[i]
        BY <2>3, <3>3
      <4>2. QED BY <2>2, <3>1, <4>1
    <3>4. QED BY <3>2, <3>3
  <2>6. q \in Trails(k + 1)
    BY <2>2, <2>3, <2>4, <2>5 DEF Trails
  <2>7. QED BY <2>3, <2>6 DEF Ends
<1>3. QED BY <1>1, <1>2 DEF At

\* Any other neighbour is found, one step further than the node asked.
LEMMA MetFirst ==
  ASSUME WalkInv, walk.rest # {}, NEW next, next = First(walk.rest),
         ~IsRoute(next), next \notin walk.visited, UNCHANGED <<repository, question>>,
         NEW entry, entry = [id |-> next, depth |-> walk.now.depth + 1],
         walk' = [walk EXCEPT !.rest = @ \ {next}, !.visited = @ \cup {next},
                              !.found = Append(@, entry),
                              !.queue = IF Followed(next) THEN Append(@, entry) ELSE @]
  PROVE  WalkInv'
<1>0. Asked /\ walk \in Walk /\ FoundStand /\ QueueStands /\ AskedStand
  BY DEF WalkInv
<1>1. /\ walk.rest \subseteq Nodes /\ walk.visited \subseteq Nodes
      /\ walk.now.depth \in Nat /\ walk.found \in Seq(Entry) /\ walk.queue \in Seq(Entry)
  BY <1>0 DEF Walk, Entry, NoEntry
<1>2. PICK now \in Entry : /\ walk.now = now /\ At(now.id, now.depth)
                          /\ now.id \in Expanded /\ walk.rest \subseteq Neighbours(now.id)
  BY <1>0 DEF QueueStands
<1>3. next \in walk.rest /\ next \in Nodes /\ next \in Neighbours(now.id) /\ now.id \in Nodes
  BY <1>1, <1>2, FirstIsIn DEF Entry
<1>4. /\ walk'.rest = walk.rest \ {next} /\ walk'.visited = walk.visited \cup {next}
      /\ walk'.found = Append(walk.found, entry)
      /\ walk'.queue = IF Followed(next) THEN Append(walk.queue, entry) ELSE walk.queue
      /\ UNCHANGED <<walk.now, walk.routes, walk.asked>>
  BY <1>0 DEF Walk
<1>5. entry \in Entry /\ entry.id = next /\ entry.depth = now.depth + 1 /\ now.depth \in Nat
  BY <1>1, <1>2, <1>3 DEF Entry
<1>6. walk' \in Walk
  <2>1. walk'.visited \in SUBSET Nodes /\ walk'.rest \in SUBSET Nodes
    BY <1>1, <1>3, <1>4
  <2>2. walk'.found \in Seq(Entry) /\ walk'.queue \in Seq(Entry)
    BY <1>1, <1>4, <1>5, AppendProperties
  <2>3. walk' = [walk EXCEPT !.rest = walk'.rest, !.visited = walk'.visited,
                             !.found = walk'.found, !.queue = walk'.queue]
    BY <1>0 DEF Walk
  <2>4. QED BY <1>0, <2>1, <2>2, <2>3 DEF Walk
<1>7. Range(walk'.found) = Range(walk.found) \cup {entry}
  BY <1>1, <1>4, <1>5, RangeOfAppend
<1>8. Ids(walk.found) \subseteq walk.visited /\ Ids(walk'.found) = Ids(walk.found) \cup {next}
  BY <1>0, <1>5, <1>7 DEF Ids, FoundStand
<1>9. Starts' = Starts
  BY <1>4, <1>8 DEF Starts
<1>10. /\ \A n : Neighbours(n)' = Neighbours(n) /\ Followed(n)' = Followed(n) /\ IsRoute(n)' = IsRoute(n)
       /\ \A k : Ends(k)' = Ends(k)
  BY <1>9, TrailsStay
<1>11. /\ \A n, k : FoundAt(n, k) => FoundAt(n, k)'
       /\ \A n, k : At(n, k) => At(n, k)'
  BY <1>7, <1>9 DEF FoundAt, At
<1>12. At(next, now.depth + 1)'
  <2>1. [id |-> next, depth |-> now.depth + 1] \in Range(walk'.found)
    BY <1>2, <1>7
  <2>2. QED BY <2>1 DEF At, FoundAt
<1>13. now.id \in walk.visited /\ Followed(now.id)
  BY <1>2 DEF Expanded
<1>14. Range(walk'.queue) = IF Followed(next) THEN Range(walk.queue) \cup {entry} ELSE Range(walk.queue)
  <2>1. Range(Append(walk.queue, entry)) = Range(walk.queue) \cup {entry}
    BY <1>1, <1>5, RangeOfAppend
  <2>2. CASE Followed(next)
    BY <1>4, <2>1, <2>2
  <2>3. CASE ~Followed(next)
    BY <1>4, <2>3
  <2>4. QED BY <2>2, <2>3
<1>15. Ids(walk'.queue) = IF Followed(next) THEN Ids(walk.queue) \cup {next} ELSE Ids(walk.queue)
  BY <1>5, <1>14 DEF Ids
<1>16. \A e \in Range(walk.queue) : e.id \in walk.visited
  BY <1>0, AtIsVisited DEF QueueStands
<1>17. Expanded' = Expanded
  <2>1. Expanded' = {n \in walk.visited \cup {next} : Followed(n)} \ Ids(walk'.queue)
    BY <1>4, <1>10 DEF Expanded
  <2>2. next \notin Ids(walk.queue)
    BY <1>16 DEF Ids
  <2>3. CASE Followed(next)
    BY <1>15, <2>1, <2>3 DEF Expanded
  <2>4. CASE ~Followed(next)
    BY <1>15, <2>1, <2>4 DEF Expanded
  <2>5. QED BY <2>3, <2>4
<1>18. \A n : Left(n)' = IF n = now.id THEN Left(n) \ {next} ELSE Left(n)
  BY <1>2, <1>4 DEF Left
<1>19. FoundStand'
  <2>1. Len(walk.found) \in Nat /\ DOMAIN walk.found = 1 .. Len(walk.found)
        /\ DOMAIN walk'.found = 1 .. Len(walk.found) + 1
        /\ walk'.found[Len(walk.found) + 1] = entry
        /\ \A i \in 1 .. Len(walk.found) : walk'.found[i] = walk.found[i] /\ walk.found[i] \in Range(walk.found)
    <3>1. Range(walk.found) = {walk.found[i] : i \in 1 .. Len(walk.found)}
      BY <1>1, RangeEquality
    <3>2. QED BY <1>1, <1>4, <1>5, <3>1, AppendProperties, LenProperties
  <2>2. ASSUME NEW i \in DOMAIN walk'.found, NEW j \in DOMAIN walk'.found, i < j
        PROVE  walk'.found[i].depth <= walk'.found[j].depth /\ walk'.found[i].id # walk'.found[j].id
    <3>1. i \in 1 .. Len(walk.found)
      BY <2>1, <2>2
    <3>2. CASE j \in 1 .. Len(walk.found)
      BY <1>0, <2>1, <2>2, <3>1, <3>2 DEF FoundStand
    <3>3. CASE j = Len(walk.found) + 1
      <4>1. walk.found[i].depth \in 1 .. now.depth + 1 /\ walk.found[i].id \in Ids(walk.found)
        BY <1>0, <1>2, <2>1, <3>1 DEF FoundStand, Ids
      <4>2. QED BY <1>5, <1>8, <2>1, <3>1, <3>3, <4>1
    <3>4. QED BY <2>1, <3>2, <3>3
  <2>3. next \in Ends(now.depth + 1)
    <3>1. ASSUME FoundAt(now.id, now.depth) PROVE now.depth > 0 /\ now.id \in Ends(now.depth)
      <4>1. PICK e \in Range(walk.found) : e.id = now.id /\ e.depth = now.depth
        BY <3>1 DEF FoundAt
      <4>2. e.depth \in 1 .. walk.now.depth + 1 /\ e.id \in Ends(e.depth)
        BY <1>0 DEF FoundStand
      <4>3. QED BY <1>1, <4>1, <4>2
    <3>2. QED BY <1>2, <1>3, <1>5, <1>13, <3>1, TrailGoesOn
  <2>4. \A e \in Range(walk'.found) :
          e.depth \in 1 .. now.depth + 1 /\ ~IsRoute(e.id) /\ e.id \in Ends(e.depth)
    <3>1. ASSUME NEW e \in Range(walk.found)
          PROVE  e.depth \in 1 .. now.depth + 1 /\ ~IsRoute(e.id) /\ e.id \in Ends(e.depth)
      BY <1>0, <1>2 DEF FoundStand
    <3>2. entry.depth \in 1 .. now.depth + 1 /\ ~IsRoute(entry.id) /\ entry.id \in Ends(entry.depth)
      BY <1>5, <2>3
    <3>3. QED BY <1>7, <3>1, <3>2
  <2>5. QED BY <1>2, <1>4, <1>8, <1>10, <2>2, <2>4 DEF FoundStand
<1>20. QueueStands'
  <2>1. \A e \in Range(walk'.queue) :
          At(e.id, e.depth)' /\ Followed(e.id) /\ e.depth \in now.depth .. now.depth + 1
    BY <1>0, <1>2, <1>5, <1>11, <1>12, <1>14 DEF QueueStands
  <2>2. \A i, j \in DOMAIN walk'.queue : i < j =>
          walk'.queue[i].depth <= walk'.queue[j].depth /\ walk'.queue[i].id # walk'.queue[j].id
    <3>1. CASE ~Followed(next)
      BY <1>0, <1>4, <3>1 DEF QueueStands
    <3>2. CASE Followed(next)
      <4>1. Len(walk.queue) \in Nat /\ DOMAIN walk.queue = 1 .. Len(walk.queue)
            /\ DOMAIN walk'.queue = 1 .. Len(walk.queue) + 1
            /\ walk'.queue[Len(walk.queue) + 1] = entry
            /\ \A i \in 1 .. Len(walk.queue) : walk'.queue[i] = walk.queue[i] /\ walk.queue[i] \in Range(walk.queue)
        <5>1. Range(walk.queue) = {walk.queue[i] : i \in 1 .. Len(walk.queue)}
          BY <1>1, RangeEquality
        <5>2. QED BY <1>1, <1>4, <1>5, <3>2, <5>1, AppendProperties, LenProperties
      <4>2. ASSUME NEW i \in DOMAIN walk'.queue, NEW j \in DOMAIN walk'.queue, i < j
            PROVE  walk'.queue[i].depth <= walk'.queue[j].depth /\ walk'.queue[i].id # walk'.queue[j].id
        <5>1. i \in 1 .. Len(walk.queue)
          BY <4>1, <4>2
        <5>2. CASE j \in 1 .. Len(walk.queue)
          BY <1>0, <4>1, <4>2, <5>1, <5>2 DEF QueueStands
        <5>3. CASE j = Len(walk.queue) + 1
          <6>1. walk.queue[i].depth \in now.depth .. now.depth + 1 /\ walk.queue[i].id \in walk.visited
            BY <1>0, <1>2, <1>16, <4>1, <5>1 DEF QueueStands
          <6>2. QED BY <1>5, <4>1, <5>1, <5>3, <6>1
        <5>4. QED BY <4>1, <5>2, <5>3
      <4>3. QED BY <4>2
    <3>3. QED BY <3>1, <3>2
  <2>3. walk'.now = now /\ At(now.id, now.depth)' /\ now.id \in Expanded' /\ walk'.rest \subseteq Neighbours(now.id)'
    BY <1>2, <1>4, <1>10, <1>11, <1>17
  <2>4. QED BY <1>2, <1>10, <2>1, <2>2, <2>3 DEF QueueStands
<1>21. AskedStand'
  <2>1. ASSUME NEW n \in Expanded, NEW m \in Neighbours(n) \ Left(n)'
        PROVE  IsRoute(m) \/ \E k, j \in Nat : At(n, k)' /\ At(m, j)' /\ j <= k + 1
    <3>1. CASE m \notin Left(n)
      BY <1>0, <1>11, <3>1 DEF AskedStand
    <3>2. CASE n = now.id /\ m = next
      <4>1. At(n, now.depth)' /\ At(m, now.depth + 1)' /\ now.depth + 1 \in Nat
        BY <1>2, <1>5, <1>11, <1>12, <3>2
      <4>2. QED BY <1>5, <4>1
    <3>3. QED BY <1>18, <3>1, <3>2
  <2>2. walk.routes = {p \in Nodes \X Expanded : p[1] \in Neighbours(p[2]) \ Left(p[2])' /\ IsRoute(p[1])}
    BY <1>0, <1>18 DEF AskedStand
  <2>3. QED BY <1>0, <1>4, <1>10, <1>17, <2>1, <2>2 DEF AskedStand
<1>22. Asked' /\ \A s \in Starts' : Followed(s)'
  BY <1>0, <1>9, <1>10 DEF WalkInv, Asked
<1>23. QED BY <1>6, <1>19, <1>20, <1>21, <1>22 DEF WalkInv

\* One turn of the loop over the neighbours.
LEMMA MeetKeeps == WalkInv /\ Meet => WalkInv'
<1> SUFFICES ASSUME WalkInv, Meet PROVE WalkInv'
  OBVIOUS
<1>1. PICK next, entry : next = First(walk.rest) /\ entry = [id |-> next, depth |-> walk.now.depth + 1]
  OBVIOUS
<1>2. walk.rest # {} /\ UNCHANGED <<repository, question>> /\ walk \in Walk
  BY DEF Meet, WalkInv
<1>3. CASE IsRoute(next)
  <2>1. walk' = [walk EXCEPT !.rest = @ \ {next},
                             !.routes = IF IsRoute(next) THEN @ \cup {<<next, walk.now.id>>} ELSE @]
    BY <1>1, <1>2, <1>3 DEF Meet, IsRoute, Walk
  <2>2. QED BY <1>1, <1>2, <1>3, <2>1, MetBefore
<1>4. CASE ~IsRoute(next) /\ next \in walk.visited
  <2>1. walk' = [walk EXCEPT !.rest = @ \ {next},
                             !.routes = IF IsRoute(next) THEN @ \cup {<<next, walk.now.id>>} ELSE @]
    BY <1>1, <1>2, <1>4 DEF Meet, IsRoute, Walk
  <2>2. QED BY <1>1, <1>2, <1>4, <2>1, MetBefore
<1>5. CASE ~IsRoute(next) /\ next \notin walk.visited
  <2>1. walk' = [walk EXCEPT !.rest = @ \ {next}, !.visited = @ \cup {next},
                             !.found = Append(@, entry),
                             !.queue = IF Followed(next) THEN Append(@, entry) ELSE @]
    BY <1>1, <1>2, <1>5 DEF Meet, IsRoute, Walk, Queued
  <2>2. QED BY <1>1, <1>2, <1>5, <2>1, MetFirst
<1>6. QED BY <1>3, <1>4, <1>5

LEMMA WalkNext == WalkInv /\ [Next]_vars => WalkInv'
<1> SUFFICES ASSUME WalkInv, [Next]_vars PROVE WalkInv'
  OBVIOUS
<1>1. ASSUME UNCHANGED <<repository, question, walk>> PROVE WalkInv'
  <2>1. Starts' = Starts /\ \A n, k : FoundAt(n, k)' = FoundAt(n, k) /\ At(n, k)' = At(n, k)
    BY <1>1, FoundStays
  <2>2. /\ \A n : Neighbours(n)' = Neighbours(n) /\ Followed(n)' = Followed(n) /\ IsRoute(n)' = IsRoute(n)
        /\ \A k : Ends(k)' = Ends(k)
    BY <1>1, <2>1, TrailsStay
  <2>3. Expanded' = Expanded /\ \A n : Left(n)' = Left(n)
    BY <1>1, <2>2 DEF Expanded, Left
  <2>4. FoundStand'
    BY <1>1, <2>2 DEF WalkInv, FoundStand
  <2>5. QueueStands'
    BY <1>1, <2>1, <2>2, <2>3 DEF WalkInv, QueueStands
  <2>6. AskedStand'
    BY <1>1, <2>1, <2>2, <2>3 DEF WalkInv, AskedStand
  <2>7. QED BY <1>1, <2>1, <2>2, <2>4, <2>5, <2>6 DEF WalkInv, Asked
<1>2. CASE StartSearch \/ Look \/ Leave \/ UNCHANGED vars
  BY <1>1, <1>2 DEF StartSearch, Look, Leave, vars
<1>3. CASE Ask
  BY <1>3, AskKeeps
<1>4. CASE Meet
  BY <1>4, MeetKeeps
<1>5. QED BY <1>2, <1>3, <1>4 DEF Next

-----------------------------------------------------------------------------
(* At the end *)

\* A node is at one depth only.
LEMMA AtOneDepth ==
  ASSUME WalkInv, NEW n, NEW k, NEW j, At(n, k), At(n, j)
  PROVE  k = j
<1>1. /\ walk.found \in Seq(Entry)
      /\ \A a, b \in DOMAIN walk.found : a < b => walk.found[a].id # walk.found[b].id
  BY DEF WalkInv, Walk, FoundStand
<1>2. DOMAIN walk.found = 1 .. Len(walk.found) /\ Range(walk.found) = {walk.found[i] : i \in 1 .. Len(walk.found)}
  BY <1>1, RangeEquality
<1>3. \A i : FoundAt(n, i) => n \in Ids(walk.found)
  BY DEF FoundAt, Ids
<1>4. CASE FoundAt(n, k) /\ FoundAt(n, j)
  <2>1. PICK a \in 1 .. Len(walk.found) : walk.found[a] = [id |-> n, depth |-> k]
    BY <1>2, <1>4 DEF FoundAt
  <2>2. PICK b \in 1 .. Len(walk.found) : walk.found[b] = [id |-> n, depth |-> j]
    BY <1>2, <1>4 DEF FoundAt
  <2>3. ~(a < b) /\ ~(b < a)
    BY <1>1, <1>2, <2>1, <2>2
  <2>4. a = b
    BY <2>3
  <2>5. QED BY <2>1, <2>2, <2>4
<1>5. QED BY <1>3, <1>4 DEF At, Starts

\* When nothing is left, whatever ends a trail was found within its length.
LEMMA TrailsAreFound ==
  ASSUME WalkInv, walk.queue = <<>>, walk.rest = {}, NEW k \in Nat \ {0}, NEW n \in Ends(k), ~IsRoute(n)
  PROVE  \E d \in 0 .. k : At(n, d)
<1>0. Asked /\ walk \in Walk /\ FoundStand /\ AskedStand /\ \A s \in Starts : Followed(s)
  BY DEF WalkInv
<1>1. PICK p \in Trails(k) : p[k] = n
  BY DEF Ends
<1>2. /\ p \in [1 .. k -> Nodes] /\ \E s \in Starts : p[1] \in Neighbours(s)
      /\ \A i \in 2 .. k : Followed(p[i - 1]) /\ p[i] \in Neighbours(p[i - 1])
  BY <1>1 DEF Trails
<1>3. \A m \in walk.visited : Followed(m) => m \in Expanded
  <2>1. Ids(walk.queue) = {}
    BY DEF Ids, Range
  <2>2. QED BY <2>1 DEF Expanded
<1>4. ASSUME NEW m, NEW d \in Nat, At(m, d), Followed(m), NEW t \in Neighbours(m), ~IsRoute(t)
      PROVE  \E e \in 0 .. d + 1 : At(t, e)
  <2>1. m \in Expanded /\ Left(m) = {}
    BY <1>3, <1>4, AtIsVisited DEF Left
  <2>2. PICK i \in Nat, e \in Nat : At(m, i) /\ At(t, e) /\ e <= i + 1
    BY <1>0, <1>4, <2>1 DEF AskedStand
  <2>3. i = d
    BY <1>4, <2>2, AtOneDepth
  <2>4. QED BY <2>2, <2>3
<1>5. \A i \in 1 .. k : ~IsRoute(p[i])
  <2> SUFFICES ASSUME NEW i \in 1 .. k PROVE ~IsRoute(p[i])
    OBVIOUS
  <2>1. CASE i = k
    BY <1>1, <2>1
  <2>2. CASE i # k
    <3>1. i + 1 \in 2 .. k /\ (i + 1) - 1 = i
      BY <2>2
    <3>2. Followed(p[i])
      BY <1>2, <3>1
    <3>3. \E m : p[i] \in Neighbours(m)
      BY <1>2
    <3>4. QED BY <1>0, <3>2, <3>3, NeighboursAreNodes
  <2>3. QED BY <2>1, <2>2
<1> DEFINE Lost == {i \in 1 .. k : ~ \E d \in 0 .. i : At(p[i], d)}
<1>6. CASE Lost # {}
  <2>1. PICK i \in Lost : \A j \in Lost : i <= j
    <3>1. Lost \subseteq Nat
      OBVIOUS
    <3> HIDE DEF Lost
    <3>2. QED BY <1>6, <3>1, LeastIsThere
  <2>2. i \in 1 .. k /\ ~ \E d \in 0 .. i : At(p[i], d)
    OBVIOUS
  <2>3. CASE i = 1
    <3>1. PICK s \in Starts : p[1] \in Neighbours(s)
      BY <1>2
    <3>2. At(s, 0) /\ Followed(s)
      BY <1>0 DEF At
    <3>3. \E e \in 0 .. 0 + 1 : At(p[1], e)
      BY <1>4, <1>5, <2>2, <2>3, <3>1, <3>2
    <3>4. QED BY <2>2, <2>3, <3>3
  <2>4. CASE i # 1
    <3>1. i \in 2 .. k /\ i - 1 \in 1 .. k /\ i - 1 \notin Lost
      BY <2>1, <2>2, <2>4
    <3>2. PICK d \in 0 .. i - 1 : At(p[i - 1], d)
      BY <3>1
    <3>3. \E e \in 0 .. d + 1 : At(p[i], e)
      BY <1>2, <1>4, <1>5, <3>1, <3>2
    <3>4. QED BY <2>2, <3>2, <3>3
  <2>5. QED BY <2>3, <2>4
<1>7. CASE Lost = {}
  BY <1>1, <1>7
<1>8. QED BY <1>6, <1>7

\* How many distinct ids a list without a repetition has.
LEMMA DistinctAreCounted ==
  ASSUME NEW S, NEW entries \in Seq(S),
         \A i, j \in DOMAIN entries : i < j => entries[i].id # entries[j].id
  PROVE  Cardinality(Ids(entries)) = Len(entries)
<1> DEFINE f == [i \in 1 .. Len(entries) |-> entries[i].id]
<1>1. Len(entries) \in Nat /\ DOMAIN entries = 1 .. Len(entries)
      /\ Range(entries) = {entries[i] : i \in 1 .. Len(entries)}
  BY RangeEquality
<1>2. \A n \in Ids(entries) : \E i \in 1 .. Len(entries) : n = entries[i].id
  BY <1>1 DEF Ids
<1>3. \A i \in 1 .. Len(entries) : entries[i].id \in Ids(entries)
  BY <1>1 DEF Ids
<1>4. \A i, j \in 1 .. Len(entries) : entries[i].id = entries[j].id => i = j
  <2> SUFFICES ASSUME NEW i \in 1 .. Len(entries), NEW j \in 1 .. Len(entries),
                      entries[i].id = entries[j].id
               PROVE  i = j
    OBVIOUS
  <2>1. ~(i < j) /\ ~(j < i)
    BY <1>1
  <2>2. QED BY <1>1, <2>1
<1>5. f \in Bijection(1 .. Len(entries), Ids(entries))
  BY <1>2, <1>3, <1>4, Fun_IsBij
<1>6. IsFiniteSet(1 .. Len(entries)) /\ Cardinality(1 .. Len(entries)) = Len(entries)
  BY <1>1, FS_Interval
<1>7. QED BY <1>5, <1>6, FS_Bijection DEF ExistsBijection

\* What is found is what trails end at, at the length of the shortest.
LEMMA WalkEnds == WalkInv => WalksFindEveryNodeOnce
<1> SUFFICES ASSUME WalkInv, question # "cycles", walk.queue = <<>>, walk.rest = {}
             PROVE  WalksFindEveryNodeOnce
  BY DEF WalksFindEveryNodeOnce
<1>0. walk \in Walk /\ FoundStand /\ AskedStand
  BY DEF WalkInv
<1>1. Expanded = {n \in walk.visited : Followed(n)} /\ \A n : Left(n) = {}
  <2>1. Ids(walk.queue) = {}
    BY DEF Ids, Range
  <2>2. QED BY <2>1 DEF Expanded, Left
<1>2. ASSUME NEW n, NEW k, FoundAt(n, k)
      PROVE  n \in Nodes /\ k \in Nat \ {0} /\ ~IsRoute(n) /\ n \in Ends(k) /\ n \notin Starts
  <2>1. PICK e \in Range(walk.found) : e = [id |-> n, depth |-> k]
    BY <1>2 DEF FoundAt
  <2>2. e.id = n /\ e.depth = k
    BY <2>1
  <2>3. e \in Entry /\ walk.now.depth \in Nat
    <3>1. walk.found \in Seq(Entry) /\ walk.now.depth \in Nat
      BY <1>0 DEF Walk, Entry, NoEntry
    <3>2. QED BY <3>1, RangeOfSeq
  <2>4. n \in Ids(walk.found)
    BY <2>1, <2>2 DEF Ids
  <2>5. k \in 1 .. walk.now.depth + 1 /\ ~IsRoute(n) /\ n \in Ends(k)
    BY <1>0, <2>2 DEF FoundStand
  <2>6. QED BY <2>2, <2>3, <2>4, <2>5 DEF Starts, Entry
<1>3. ASSUME NEW k \in Nat \ {0}
      PROVE  {n \in Nodes : FoundAt(n, k)} =
               {n \in Ends(k) : ~IsRoute(n)} \ (Starts \cup UNION {Ends(j) : j \in 1 .. k - 1})
  <2>1. ASSUME NEW n, FoundAt(n, k), NEW j \in 1 .. k - 1, n \in Ends(j)
        PROVE  FALSE
    <3>1. PICK d \in 0 .. j : At(n, d)
      BY <1>2, <2>1, TrailsAreFound
    <3>2. d = k
      BY <2>1, <3>1, AtOneDepth DEF At
    <3>3. QED BY <3>2
  <2>2. ASSUME NEW n \in Ends(k), ~IsRoute(n), n \notin Starts, \A j \in 1 .. k - 1 : n \notin Ends(j)
        PROVE  FoundAt(n, k) /\ n \in Nodes
    <3>1. PICK d \in 0 .. k : At(n, d)
      BY <2>2, TrailsAreFound
    <3>2. FoundAt(n, d)
      BY <2>2, <3>1 DEF At
    <3>3. d \in Nat \ {0} /\ n \in Ends(d) /\ n \in Nodes
      BY <1>2, <3>2
    <3>4. d = k
      BY <2>2, <3>3
    <3>5. QED BY <3>2, <3>3, <3>4
  <2>3. QED BY <1>2, <2>1, <2>2
<1>4. Cardinality(Ids(walk.found)) = Len(walk.found)
  BY <1>0, DistinctAreCounted DEF Walk, FoundStand
<1>5. \A i, j \in DOMAIN walk.found : i < j => walk.found[i].depth <= walk.found[j].depth
  BY <1>0 DEF FoundStand
<1>6. \A k \in 1 .. N : k \in Nat \ {0}
  BY GraphsAssumption
<1>7. /\ walk.asked = Cardinality(Expanded)
      /\ walk.routes = {p \in Nodes \X Expanded : p[1] \in Neighbours(p[2]) /\ IsRoute(p[1])}
  BY <1>0, <1>1 DEF AskedStand
<1>8. QED BY <1>1, <1>3, <1>4, <1>5, <1>6, <1>7 DEF WalksFindEveryNodeOnce

\* Impact, depth and dependencies: each node that can be reached is found once, at its
\* shortest distance and nearest first, whatever cycles the graph has and whatever is not
\* followed; every route into what was followed is known; one query was spent on each.
THEOREM WalksAreComplete == Spec => []WalksFindEveryNodeOnce
<1>1. Init => WalkInv
  BY WalkInit
<1>2. WalkInv /\ [Next]_vars => WalkInv'
  BY WalkNext
<1>3. WalkInv => WalksFindEveryNodeOnce
  BY WalkEnds
<1>4. QED BY <1>1, <1>2, <1>3, PTL DEF Spec

-----------------------------------------------------------------------------
(* Reachability *)

\* What is a target is reached, and so is what is a target of what is reached.
LEMMA TargetsAreReached ==
  ASSUME NEW E, NEW n
  PROVE  /\ Reach(E, n) \subseteq Nodes /\ Targets(E, n) \subseteq Reach(E, n)
         /\ Closed(E, Reach(E, n))
<1>1. Targets(E, n) \subseteq Reach(E, n) /\ Reach(E, n) \subseteq Nodes
  BY DEF Reach, Targets
<1>2. ASSUME NEW m \in Reach(E, n), NEW t \in Targets(E, m) PROVE t \in Reach(E, n)
  BY <1>2 DEF Reach, Targets, Closed
<1>3. QED BY <1>1, <1>2 DEF Closed

\* What has the targets of a node and those of its members has all the node reaches.
LEMMA ReachIsLeast ==
  ASSUME NEW E, NEW n, NEW S \in SUBSET Nodes, Targets(E, n) \subseteq S, Closed(E, S)
  PROVE  Reach(E, n) \subseteq S
  BY DEF Reach

LEMMA ReachGoesOn ==
  ASSUME NEW E, NEW n, NEW m \in Reach(E, n)
  PROVE  Reach(E, m) \subseteq Reach(E, n)
<1>1. Reach(E, n) \in SUBSET Nodes /\ Closed(E, Reach(E, n))
  BY TargetsAreReached
<1>2. Targets(E, m) \subseteq Reach(E, n)
  BY <1>1 DEF Closed
<1>3. QED BY <1>1, <1>2, ReachIsLeast

\* A node that reaches itself has a target, and another one in its component unless it is one.
LEMMA CycleHasTargets ==
  ASSUME NEW E, NEW n \in Nodes, n \in Reach(E, n)
  PROVE  Targets(E, n) # {} /\ (Component(E, n) = {n} => <<n, n>> \in E)
<1>1. ASSUME Targets(E, n) = {} PROVE FALSE
  <2>1. {} \in SUBSET Nodes /\ Targets(E, n) \subseteq {} /\ Closed(E, {})
    BY <1>1 DEF Closed
  <2>2. Reach(E, n) \subseteq {}
    BY <2>1, ReachIsLeast
  <2>3. QED BY <2>2
<1>2. ASSUME Component(E, n) = {n}, <<n, n>> \notin E PROVE FALSE
  <2> DEFINE S == {m \in Reach(E, n) : n \notin Reach(E, m)}
  <2>1. S \in SUBSET Nodes
    BY TargetsAreReached
  <2>2. Targets(E, n) \subseteq S
    <3> SUFFICES ASSUME NEW t \in Targets(E, n), n \in Reach(E, t) PROVE FALSE
      BY TargetsAreReached
    <3>1. t \in Reach(E, n)
      BY TargetsAreReached
    <3>2. t \in Component(E, n)
      BY <3>1 DEF Component
    <3>3. QED BY <1>2, <3>2 DEF Targets
  <2>3. Closed(E, S)
    <3> SUFFICES ASSUME NEW m \in S, NEW t \in Targets(E, m) PROVE t \in S
      BY DEF Closed
    <3>1. m \in Reach(E, n) /\ n \notin Reach(E, m)
      OBVIOUS
    <3>2. t \in Reach(E, m)
      BY TargetsAreReached
    <3>3. t \in Reach(E, n) /\ Reach(E, t) \subseteq Reach(E, m)
      BY <3>1, <3>2, ReachGoesOn
    <3>4. QED BY <3>1, <3>3
  <2>4. Reach(E, n) \subseteq S
    BY <2>1, <2>2, <2>3, ReachIsLeast
  <2>5. QED BY <2>4
<1>3. QED BY <1>1, <1>2

-----------------------------------------------------------------------------
(* The invariant of the search, of any state of it and any edges *)

Frame  == [node : Nodes, rest : SUBSET Nodes]
Search == [index : [Nodes -> Nat], low : [Nodes -> Nat], stack : Seq(Nodes),
           frames : Seq(Frame), components : Seq(SUBSET Nodes)]

\* On the stack; in a frame; and reported, or known to be no cycle.
Stacked(s) == Range(s.stack)
Framed(s)  == {frame.node : frame \in Range(s.frames)}
Done(s)    == Seen(s) \ Stacked(s)

\* The neighbours a node still has to look at.
Rest(s, n) == UNION {frame.rest : frame \in {f \in Range(s.frames) : f.node = n}}

Reaches(E, a, b) == a = b \/ b \in Reach(E, a)

\* The node of the last frame that was open when x was entered.
Innermost(s, g, x) ==
  s.index[g] <= s.index[x] /\ \A h \in Framed(s) : s.index[h] <= s.index[x] => s.index[h] <= s.index[g]

\* Stack and frames are in the order their nodes were entered.
Numbered(s) ==
  /\ Framed(s) \subseteq Stacked(s) /\ Stacked(s) \subseteq Seen(s)
  /\ \A n \in Nodes : s.index[n] <= Cardinality(Seen(s))
  /\ \A n, m \in Seen(s) : s.index[n] = s.index[m] => n = m
  /\ \A i, j \in DOMAIN s.stack : i < j => s.index[s.stack[i]] < s.index[s.stack[j]]
  /\ \A i, j \in DOMAIN s.frames : i < j => s.index[s.frames[i].node] < s.index[s.frames[j].node]

\* What was looked at was entered, and what is done leads nowhere else.
Explored(s, E) ==
  /\ \A frame \in Range(s.frames) : frame.rest \subseteq Targets(E, frame.node)
  /\ \A n \in Seen(s) : Targets(E, n) \ Rest(s, n) \subseteq Seen(s)
  /\ Closed(E, Done(s))

\* A low link is the index of a node that can be reached on the stack, no later than any
\* neighbour looked at, and what a frame has below it has been passed up to it.
LowStands(s, E) ==
  /\ \A x \in Stacked(s) : s.low[x] <= s.index[x]
  /\ \A x \in Stacked(s) : \E m \in Stacked(s) : s.index[m] = s.low[x] /\ Reaches(E, x, m)
  /\ \A x \in Stacked(s) : \A m \in Targets(E, x) \ Rest(s, x) :
       m \in Stacked(s) => s.low[x] <= s.index[m]
  /\ \A g \in Framed(s), x \in Stacked(s) : Innermost(s, g, x) => s.low[g] <= s.low[x]

\* A frame reaches all of the stack above it, and all of the stack reaches a frame below it.
PathsStand(s, E) ==
  /\ \A g \in Framed(s), x \in Stacked(s) : s.index[g] <= s.index[x] => Reaches(E, g, x)
  /\ \A x \in Stacked(s) : \E g \in Framed(s) : s.index[g] <= s.index[x] /\ Reaches(E, x, g)

\* The cycles among what is done are reported, in an order in which none leads forward.
Reports(s, E) ==
  /\ Range(s.components) = {Component(E, n) : n \in {m \in Done(s) : m \in Reach(E, m)}}
  /\ \A i, j \in DOMAIN s.components : i < j =>
       \A n \in s.components[i] : Reach(E, n) \cap s.components[j] = {}

SearchStands(s, E) ==
  /\ s \in Search /\ Numbered(s) /\ Explored(s, E)
  /\ LowStands(s, E) /\ PathsStand(s, E) /\ Reports(s, E)

LEMMA ReachesOn ==
  ASSUME NEW E, NEW a, NEW b, NEW c, Reaches(E, a, b), Reaches(E, b, c)
  PROVE  Reaches(E, a, c)
  BY ReachGoesOn DEF Reaches

\* What cannot be left keeps what it reaches.
LEMMA ClosedKeeps ==
  ASSUME NEW E, NEW S \in SUBSET Nodes, Closed(E, S), NEW a \in S, NEW b, Reaches(E, a, b)
  PROVE  b \in S
<1>1. Targets(E, a) \subseteq S
  BY DEF Closed
<1>2. Reach(E, a) \subseteq S
  BY <1>1, ReachIsLeast
<1>3. QED BY <1>2 DEF Reaches

\* The components are those of mutual reachability, the same for each of its nodes.
LEMMA ComponentIs ==
  ASSUME NEW E, NEW n \in Nodes
  PROVE  /\ Component(E, n) = {m \in Nodes : Reaches(E, n, m) /\ Reaches(E, m, n)}
         /\ \A m \in Component(E, n) : Component(E, m) = Component(E, n)
<1>1. ASSUME NEW k \in Nodes
      PROVE  Component(E, k) = {m \in Nodes : Reaches(E, k, m) /\ Reaches(E, m, k)}
  BY TargetsAreReached DEF Component, Reaches
<1>2. ASSUME NEW m \in Component(E, n) PROVE Component(E, m) = Component(E, n)
  <2>1. m \in Nodes /\ Reaches(E, n, m) /\ Reaches(E, m, n)
    BY <1>1
  <2>2. \A k : Reaches(E, m, k) <=> Reaches(E, n, k)
    BY <2>1, ReachesOn
  <2>3. \A k : Reaches(E, k, m) <=> Reaches(E, k, n)
    BY <2>1, ReachesOn
  <2>4. QED BY <1>1, <2>1, <2>2, <2>3
<1>3. QED BY <1>1, <1>2

-----------------------------------------------------------------------------
(* The steps of the search *)

LEMMA FrontAndLast ==
  ASSUME NEW S, NEW q \in Seq(S), q # <<>>
  PROVE  /\ Front(q) \in Seq(S) /\ Last(q) \in S /\ Len(q) \in Nat \ {0}
         /\ Last(q) = q[Len(q)] /\ DOMAIN q = 1 .. Len(q) /\ DOMAIN Front(q) = 1 .. Len(q) - 1
         /\ \A i \in 1 .. Len(q) - 1 : Front(q)[i] = q[i]
         /\ Range(q) = Range(Front(q)) \cup {Last(q)}
<1>1. Len(q) \in Nat \ {0} /\ DOMAIN q = 1 .. Len(q) /\ \A i \in 1 .. Len(q) : q[i] \in S
  BY EmptySeq, ElementOfSeq, LenProperties
<1>2. /\ Front(q) \in Seq(S) /\ Len(Front(q)) = Len(q) - 1 /\ DOMAIN Front(q) = 1 .. Len(q) - 1
      /\ \A i \in 1 .. Len(q) - 1 : Front(q)[i] = q[i]
  <2>1. Front(q) = SubSeq(q, 1, Len(q) - 1)
    BY DEF Front
  <2>2. 1 \in Int /\ Len(q) - 1 \in Int /\ \A i \in 1 .. Len(q) - 1 : q[i] \in S
    BY <1>1
  <2>3. /\ SubSeq(q, 1, Len(q) - 1) \in Seq(S)
        /\ Len(SubSeq(q, 1, Len(q) - 1)) = IF 1 <= Len(q) - 1 THEN (Len(q) - 1) - 1 + 1 ELSE 0
        /\ \A i \in 1 .. (Len(q) - 1) - 1 + 1 : SubSeq(q, 1, Len(q) - 1)[i] = q[1 + i - 1]
    BY <2>2, SubSeqProperties
  <2>4. /\ Front(q) \in Seq(S) /\ Len(Front(q)) = Len(q) - 1
        /\ \A i \in 1 .. Len(q) - 1 : Front(q)[i] = q[i]
    BY <1>1, <2>1, <2>3
  <2>5. QED BY <2>4, LenProperties
<1>3. Last(q) \in S /\ Last(q) = q[Len(q)]
  BY <1>1 DEF Last
<1>4. /\ Range(q) = {q[i] : i \in 1 .. Len(q)}
      /\ Range(Front(q)) = {Front(q)[i] : i \in 1 .. Len(q) - 1}
  BY <1>2, RangeEquality
<1>5. 1 .. Len(q) = (1 .. Len(q) - 1) \cup {Len(q)}
  BY <1>1
<1>6. Range(q) = Range(Front(q)) \cup {Last(q)}
  BY <1>2, <1>3, <1>4, <1>5
<1>7. QED BY <1>1, <1>2, <1>3, <1>6

\* A node that is entered is the highest of the stack and of the frames.
LEMMA Enters ==
  ASSUME NEW E, NEW s, SearchStands(s, E), NEW n \in Nodes, n \notin Seen(s), NEW t \in Search,
         t.index = [s.index EXCEPT ![n] = Cardinality(Seen(s)) + 1],
         t.low = [s.low EXCEPT ![n] = Cardinality(Seen(s)) + 1],
         t.stack = Append(s.stack, n), t.components = s.components,
         Framed(t) = Framed(s) \cup {n}, Targets(E, n) \subseteq Rest(t, n),
         \A i, j \in DOMAIN t.frames : i < j => t.index[t.frames[i].node] < t.index[t.frames[j].node],
         \A frame \in Range(t.frames) : frame.rest \subseteq Targets(E, frame.node),
         \A x : Rest(s, x) \subseteq Rest(t, x) \cup {n},
         \A g \in Framed(s) : Reaches(E, g, n)
  PROVE  SearchStands(t, E)
<1>0. /\ s \in Search /\ Numbered(s) /\ Explored(s, E)
      /\ LowStands(s, E) /\ PathsStand(s, E) /\ Reports(s, E)
  BY DEF SearchStands
<1>1. /\ s.index \in [Nodes -> Nat] /\ s.low \in [Nodes -> Nat] /\ s.stack \in Seq(Nodes)
      /\ Seen(s) \subseteq Nodes /\ Framed(s) \subseteq Stacked(s) /\ Stacked(s) \subseteq Seen(s)
  BY <1>0 DEF Search, Seen, Numbered
<1> DEFINE top == Cardinality(Seen(s)) + 1
<1>2. IsFiniteSet(Seen(s)) /\ Cardinality(Seen(s)) \in Nat
  BY <1>1, NodesAreFinite
<1>3. /\ t.index[n] = top /\ t.low[n] = top /\ top \in Nat \ {0}
      /\ \A x \in Nodes \ {n} : t.index[x] = s.index[x] /\ t.low[x] = s.low[x]
  BY <1>1, <1>2
<1>4. \A x \in Nodes : s.index[x] \in Nat /\ s.low[x] \in Nat /\ s.index[x] < top
  BY <1>0, <1>1, <1>2 DEF Numbered
<1> HIDE DEF top
<1>5. Seen(t) = Seen(s) \cup {n} /\ Cardinality(Seen(t)) = top
  <2>1. Seen(t) = Seen(s) \cup {n}
    BY <1>1, <1>3 DEF Seen, Unseen
  <2>2. QED BY <1>2, <2>1, FS_AddElement DEF top
<1>6. Stacked(t) = Stacked(s) \cup {n} /\ Done(t) = Done(s)
  <2>1. Range(Append(s.stack, n)) = Range(s.stack) \cup {n}
    BY <1>1, RangeOfAppend
  <2>2. QED BY <1>1, <1>5, <2>1 DEF Stacked, Done
<1>7. \A x \in Seen(s) : x \in Nodes /\ x # n /\ t.index[x] = s.index[x] /\ t.low[x] = s.low[x]
  BY <1>1, <1>3
<1>8. Numbered(t)
  <2>1. \A x \in Nodes : t.index[x] <= Cardinality(Seen(t))
    BY <1>2, <1>3, <1>4, <1>5
  <2>2. \A x, y \in Seen(t) : t.index[x] = t.index[y] => x = y
    BY <1>0, <1>3, <1>4, <1>5, <1>7 DEF Numbered
  <2>3. ASSUME NEW i \in DOMAIN t.stack, NEW j \in DOMAIN t.stack, i < j
        PROVE  t.index[t.stack[i]] < t.index[t.stack[j]]
    <3>1. /\ Len(s.stack) \in Nat /\ DOMAIN s.stack = 1 .. Len(s.stack)
          /\ DOMAIN t.stack = 1 .. Len(s.stack) + 1 /\ t.stack[Len(s.stack) + 1] = n
          /\ \A k \in 1 .. Len(s.stack) : t.stack[k] = s.stack[k]
      BY <1>1, AppendProperties, LenProperties
    <3>2. \A k \in 1 .. Len(s.stack) : s.stack[k] \in Seen(s)
      BY <1>1, RangeEquality DEF Stacked
    <3>3. i \in 1 .. Len(s.stack)
      BY <2>3, <3>1
    <3>4. CASE j \in 1 .. Len(s.stack)
      BY <1>0, <1>7, <2>3, <3>1, <3>2, <3>3, <3>4 DEF Numbered
    <3>5. CASE j = Len(s.stack) + 1
      BY <1>3, <1>4, <1>7, <3>1, <3>2, <3>3, <3>5
    <3>6. QED BY <3>1, <3>4, <3>5
  <2>4. QED BY <1>1, <1>5, <1>6, <2>1, <2>2, <2>3 DEF Numbered
<1>9. Explored(t, E)
  <2>1. ASSUME NEW x \in Seen(t) PROVE Targets(E, x) \ Rest(t, x) \subseteq Seen(t)
    <3>1. CASE x = n
      BY <3>1
    <3>2. CASE x \in Seen(s)
      BY <1>0, <1>5, <3>2 DEF Explored
    <3>3. QED BY <1>5, <3>1, <3>2
  <2>2. QED BY <1>0, <1>6, <2>1 DEF Explored
<1>10. LowStands(t, E)
  <2>1. \A x \in Stacked(t) : t.low[x] <= t.index[x]
    BY <1>0, <1>1, <1>3, <1>6, <1>7 DEF LowStands
  <2>2. ASSUME NEW x \in Stacked(t)
        PROVE  \E m \in Stacked(t) : t.index[m] = t.low[x] /\ Reaches(E, x, m)
    <3>1. CASE x = n
      BY <1>3, <1>6, <3>1 DEF Reaches
    <3>2. CASE x \in Stacked(s)
      <4>1. PICK m \in Stacked(s) : s.index[m] = s.low[x] /\ Reaches(E, x, m)
        BY <1>0, <3>2 DEF LowStands
      <4>2. QED BY <1>1, <1>6, <1>7, <3>2, <4>1
    <3>3. QED BY <1>6, <3>1, <3>2
  <2>3. ASSUME NEW x \in Stacked(t), NEW m \in Targets(E, x) \ Rest(t, x), m \in Stacked(t)
        PROVE  t.low[x] <= t.index[m]
    <3>1. CASE x = n
      BY <3>1
    <3>2. CASE x \in Stacked(s) /\ m = n
      <4>1. s.low[x] <= s.index[x] /\ x \in Nodes
        BY <1>0, <1>1, <3>2 DEF LowStands
      <4>2. QED BY <1>1, <1>3, <1>4, <1>7, <3>2, <4>1
    <3>3. CASE x \in Stacked(s) /\ m # n
      <4>1. m \in Targets(E, x) \ Rest(s, x) /\ m \in Stacked(s)
        BY <1>6, <2>3, <3>3
      <4>2. s.low[x] <= s.index[m]
        BY <1>0, <3>3, <4>1 DEF LowStands
      <4>3. QED BY <1>1, <1>7, <3>3, <4>1, <4>2
    <3>4. QED BY <1>6, <3>1, <3>2, <3>3
  <2>4. ASSUME NEW g \in Framed(t), NEW x \in Stacked(t), Innermost(t, g, x)
        PROVE  t.low[g] <= t.low[x]
    <3>0. t.index[g] <= t.index[x] /\ \A h \in Framed(t) : t.index[h] <= t.index[x] => t.index[h] <= t.index[g]
      BY <2>4 DEF Innermost
    <3>1. CASE x = n
      <4>1. t.index[n] <= t.index[g]
        BY <1>3, <3>0, <3>1
      <4>2. g = n
        BY <1>1, <1>3, <1>4, <1>7, <4>1
      <4>3. QED BY <1>3, <3>1, <4>2
    <3>2. CASE x \in Stacked(s)
      <4>1. x \in Seen(s) /\ t.index[x] = s.index[x] /\ s.index[x] < top /\ s.index[x] \in Nat
        BY <1>1, <1>4, <1>7, <3>2
      <4>2. g # n
        BY <1>3, <3>0, <4>1
      <4>3. g \in Framed(s) /\ g \in Seen(s)
        BY <1>1, <4>2
      <4>4. Innermost(s, g, x)
        BY <1>1, <1>7, <3>0, <4>1, <4>3 DEF Innermost
      <4>5. s.low[g] <= s.low[x]
        BY <1>0, <3>2, <4>3, <4>4 DEF LowStands
      <4>6. QED BY <1>7, <4>1, <4>3, <4>5
    <3>3. QED BY <1>6, <3>1, <3>2
  <2>5. QED BY <2>1, <2>2, <2>3, <2>4 DEF LowStands
<1>11. PathsStand(t, E)
  <2>1. ASSUME NEW g \in Framed(t), NEW x \in Stacked(t), t.index[g] <= t.index[x]
        PROVE  Reaches(E, g, x)
    <3>1. CASE x = n
      BY <3>1 DEF Reaches
    <3>2. CASE x \in Stacked(s)
      <4>1. g # n
        BY <1>1, <1>3, <1>4, <1>7, <2>1, <3>2
      <4>2. g \in Framed(s) /\ s.index[g] <= s.index[x]
        BY <1>1, <1>7, <2>1, <3>2, <4>1
      <4>3. QED BY <1>0, <3>2, <4>2 DEF PathsStand
    <3>3. QED BY <1>6, <3>1, <3>2
  <2>2. ASSUME NEW x \in Stacked(t)
        PROVE  \E g \in Framed(t) : t.index[g] <= t.index[x] /\ Reaches(E, x, g)
    <3>1. CASE x = n
      BY <1>3, <3>1 DEF Reaches
    <3>2. CASE x \in Stacked(s)
      <4>1. PICK g \in Framed(s) : s.index[g] <= s.index[x] /\ Reaches(E, x, g)
        BY <1>0, <3>2 DEF PathsStand
      <4>2. QED BY <1>1, <1>7, <3>2, <4>1
    <3>3. QED BY <1>6, <3>1, <3>2
  <2>3. QED BY <2>1, <2>2 DEF PathsStand
<1>12. Reports(t, E)
  BY <1>0, <1>6 DEF Reports
<1>13. QED BY <1>8, <1>9, <1>10, <1>11, <1>12 DEF SearchStands

\* The last frame is the highest, and the only one of its node.
LEMMA TopFrame ==
  ASSUME NEW s \in Search, Numbered(s), s.frames # <<>>
  PROVE  LET top == Last(s.frames)
             low == Range(Front(s.frames))
         IN /\ top \in Frame /\ Range(s.frames) = low \cup {top} /\ low \subseteq Frame
            /\ \A f \in low : s.index[f.node] < s.index[top.node]
            /\ \A g \in Framed(s) : g # top.node => s.index[g] < s.index[top.node]
            /\ Framed(s) = {f.node : f \in low} \cup {top.node} /\ Rest(s, top.node) = top.rest
            /\ \A x : x # top.node => Rest(s, x) = UNION {f.rest : f \in {g \in low : g.node = x}}
<1> DEFINE top == Last(s.frames)
           low == Range(Front(s.frames))
<1>0. s.frames \in Seq(Frame) /\ s.index \in [Nodes -> Nat]
  BY DEF Search
<1>1. /\ Front(s.frames) \in Seq(Frame) /\ top \in Frame /\ Len(s.frames) \in Nat \ {0}
      /\ top = s.frames[Len(s.frames)] /\ DOMAIN s.frames = 1 .. Len(s.frames)
      /\ \A i \in 1 .. Len(s.frames) - 1 : Front(s.frames)[i] = s.frames[i]
      /\ DOMAIN Front(s.frames) = 1 .. Len(s.frames) - 1
      /\ Range(s.frames) = low \cup {top}
  BY <1>0, FrontAndLast
<1>2. low \subseteq Frame
  BY <1>1, RangeOfSeq
<1>3. ASSUME NEW f \in low PROVE s.index[f.node] < s.index[top.node]
  <2>1. PICK i \in 1 .. Len(s.frames) - 1 : f = s.frames[i]
    BY <1>1 DEF Range
  <2>2. i \in DOMAIN s.frames /\ Len(s.frames) \in DOMAIN s.frames /\ i < Len(s.frames)
    BY <1>1
  <2>3. QED BY <1>1, <2>1, <2>2 DEF Numbered
<1> HIDE DEF top, low
<1>4. Framed(s) = {f.node : f \in low} \cup {top.node}
  BY <1>1 DEF Framed
<1>5. \A f \in low : f.node \in Nodes /\ f.node # top.node
  BY <1>0, <1>1, <1>2, <1>3 DEF Frame
<1>6. {f \in Range(s.frames) : f.node = top.node} = {top}
  BY <1>1, <1>5
<1>7. Rest(s, top.node) = top.rest
  BY <1>6 DEF Rest
<1>8. \A x : x # top.node => {f \in Range(s.frames) : f.node = x} = {f \in low : f.node = x}
  BY <1>1
<1>9. \A g \in Framed(s) : g # top.node => s.index[g] < s.index[top.node]
  BY <1>3, <1>4
<1>10. QED BY <1>1, <1>2, <1>3, <1>4, <1>7, <1>8, <1>9 DEF Rest, top, low

\* A low link lowered to a node that is seen stands.
LEMMA Lowers ==
  ASSUME NEW E, NEW s, SearchStands(s, E), NEW t \in Search,
         t.index = s.index, t.stack = s.stack, t.components = s.components, Framed(t) = Framed(s),
         \A i, j \in DOMAIN t.frames : i < j => t.index[t.frames[i].node] < t.index[t.frames[j].node],
         \A frame \in Range(t.frames) : frame.rest \subseteq Targets(E, frame.node),
         NEW n \in Framed(s), NEW m \in Targets(E, n), m \in Seen(s),
         \A x : Rest(s, x) \subseteq Rest(t, x) \cup (IF x = n THEN {m} ELSE {}),
         t.low = IF m \in Stacked(s) THEN [s.low EXCEPT ![n] = Least(@, s.index[m])] ELSE s.low
  PROVE  SearchStands(t, E)
<1>0. /\ s \in Search /\ Numbered(s) /\ Explored(s, E)
      /\ LowStands(s, E) /\ PathsStand(s, E) /\ Reports(s, E)
  BY DEF SearchStands
<1>1. /\ s.index \in [Nodes -> Nat] /\ s.low \in [Nodes -> Nat]
      /\ Seen(s) \subseteq Nodes /\ Framed(s) \subseteq Stacked(s) /\ Stacked(s) \subseteq Seen(s)
      /\ n \in Nodes /\ m \in Nodes /\ n \in Stacked(s)
  BY <1>0 DEF Search, Seen, Numbered
<1>2. Seen(t) = Seen(s) /\ Stacked(t) = Stacked(s) /\ Done(t) = Done(s)
  BY DEF Seen, Stacked, Done
<1>3. /\ \A x \in Nodes : x # n => t.low[x] = s.low[x]
      /\ \A x \in Nodes : t.low[x] \in Nat /\ t.low[x] <= s.low[x]
      /\ t.low[n] = s.low[n] \/ (m \in Stacked(s) /\ t.low[n] = s.index[m])
      /\ m \in Stacked(s) => t.low[n] <= s.index[m]
  <2>1. CASE m \in Stacked(s)
    BY <1>1, <2>1 DEF Least
  <2>2. CASE m \notin Stacked(s)
    BY <1>1, <2>2
  <2>3. QED BY <2>1, <2>2
<1>4. Numbered(t)
  BY <1>0, <1>2 DEF Numbered
<1>5. Explored(t, E)
  <2>1. ASSUME NEW x \in Seen(s) PROVE Targets(E, x) \ Rest(t, x) \subseteq Seen(s)
    <3>1. Targets(E, x) \ Rest(s, x) \subseteq Seen(s)
      BY <1>0 DEF Explored
    <3>2. QED BY <3>1
  <2>2. QED BY <1>0, <1>2, <2>1 DEF Explored
<1>6. LowStands(t, E)
  <2>1. \A x \in Stacked(s) : t.low[x] <= s.index[x]
    <3> SUFFICES ASSUME NEW x \in Stacked(s) PROVE t.low[x] <= s.index[x]
      OBVIOUS
    <3>1. s.low[x] <= s.index[x] /\ x \in Nodes
      BY <1>0, <1>1 DEF LowStands
    <3>2. QED BY <1>1, <1>3, <3>1
  <2>2. ASSUME NEW x \in Stacked(s)
        PROVE  \E k \in Stacked(s) : s.index[k] = t.low[x] /\ Reaches(E, x, k)
    <3>1. CASE t.low[x] = s.low[x]
      BY <1>0, <3>1 DEF LowStands
    <3>2. CASE x = n /\ m \in Stacked(s) /\ t.low[n] = s.index[m]
      BY <3>2, TargetsAreReached DEF Reaches
    <3>3. QED BY <1>1, <1>3, <3>1, <3>2
  <2>3. ASSUME NEW x \in Stacked(s), NEW k \in Targets(E, x) \ Rest(t, x), k \in Stacked(s)
        PROVE  t.low[x] <= s.index[k]
    <3>1. CASE x = n /\ k = m
      BY <1>3, <2>3, <3>1
    <3>2. CASE k \notin Rest(s, x)
      <4>1. s.low[x] <= s.index[k]
        BY <1>0, <2>3, <3>2 DEF LowStands
      <4>2. QED BY <1>1, <1>3, <2>3, <4>1
    <3>3. QED BY <3>1, <3>2
  <2>4. ASSUME NEW g \in Framed(s), NEW x \in Stacked(s), Innermost(t, g, x)
        PROVE  t.low[g] <= t.low[x]
    <3>1. Innermost(s, g, x)
      BY <2>4 DEF Innermost
    <3>2. CASE x = n
      <4>1. s.index[g] = s.index[n]
        BY <1>1, <3>1, <3>2 DEF Innermost
      <4>2. g = n
        BY <1>0, <1>1, <4>1 DEF Numbered
      <4>3. QED BY <1>1, <1>3, <3>2, <4>2
    <3>3. CASE x # n
      <4>1. s.low[g] <= s.low[x]
        BY <1>0, <3>1 DEF LowStands
      <4>2. g \in Nodes /\ x \in Nodes
        BY <1>1
      <4>3. QED BY <1>1, <1>3, <3>3, <4>1, <4>2
    <3>4. QED BY <3>2, <3>3
  <2>5. QED BY <1>2, <2>1, <2>2, <2>3, <2>4 DEF LowStands
<1>7. PathsStand(t, E)
  BY <1>0, <1>2 DEF PathsStand
<1>8. Reports(t, E)
  BY <1>0, <1>2 DEF Reports
<1>9. QED BY <1>4, <1>5, <1>6, <1>7, <1>8 DEF SearchStands

\* What is left when the last frame is.
LEMMA FrameLeft ==
  ASSUME NEW s \in Search, Numbered(s), s.frames # <<>>, NEW t \in Search,
         t.frames = Front(s.frames), t.index = s.index
  PROVE  LET n == Last(s.frames).node
         IN /\ n \in Framed(s) /\ Framed(t) = Framed(s) \ {n}
            /\ Range(t.frames) \subseteq Range(s.frames)
            /\ \A x : x # n => Rest(t, x) = Rest(s, x)
            /\ \A g \in Framed(s) : g # n => s.index[g] < s.index[n]
            /\ \A i, j \in DOMAIN t.frames : i < j => t.index[t.frames[i].node] < t.index[t.frames[j].node]
<1> DEFINE n   == Last(s.frames).node
           low == Range(Front(s.frames))
<1>1. /\ Range(s.frames) = low \cup {Last(s.frames)}
      /\ \A f \in low : s.index[f.node] < s.index[n]
      /\ \A g \in Framed(s) : g # n => s.index[g] < s.index[n]
      /\ Framed(s) = {f.node : f \in low} \cup {n} /\ n \in Nodes
      /\ \A x : x # n => Rest(s, x) = UNION {f.rest : f \in {g \in low : g.node = x}}
  BY TopFrame DEF Frame
<1>2. s.index[n] \in Nat
  BY <1>1 DEF Search
<1>3. Range(t.frames) = low
  OBVIOUS
<1>4. Framed(t) = {f.node : f \in low} /\ n \notin {f.node : f \in low}
  BY <1>1, <1>2, <1>3 DEF Framed
<1>5. \A x : Rest(t, x) = UNION {f.rest : f \in {g \in low : g.node = x}}
  BY <1>3 DEF Rest
<1>6. s.frames \in Seq(Frame)
  BY DEF Search
<1>7. /\ Len(s.frames) \in Nat \ {0} /\ DOMAIN s.frames = 1 .. Len(s.frames)
      /\ DOMAIN t.frames = 1 .. Len(s.frames) - 1
      /\ \A i \in 1 .. Len(s.frames) - 1 : t.frames[i] = s.frames[i]
  BY <1>6, FrontAndLast
<1>8. \A i \in DOMAIN t.frames : i \in DOMAIN s.frames
  BY <1>7
<1>9. \A i, j \in DOMAIN t.frames : i < j => t.index[t.frames[i].node] < t.index[t.frames[j].node]
  BY <1>7, <1>8 DEF Numbered
<1>10. QED BY <1>1, <1>3, <1>4, <1>5, <1>9

\* t is s without its last frame, whose low link has been passed to the one below it.
PassesTo(s, n, t) ==
  LET p == Last(Front(s.frames)).node
  IN /\ t \in Search /\ t.index = s.index /\ t.stack = s.stack /\ t.components = s.components
     /\ t.frames = Front(s.frames)
     /\ t.frames = <<>> => t.low = s.low
     /\ t.frames # <<>> => t.low = [s.low EXCEPT ![p] = Least(s.low[p], s.low[n])]

\* A frame that is no root of a component passes its low link on.
LEMMA Passes ==
  ASSUME NEW E, NEW s, SearchStands(s, E), s.frames # <<>>,
         NEW n, n = Last(s.frames).node, Last(s.frames).rest = {}, s.low[n] # s.index[n],
         NEW t, PassesTo(s, n, t)
  PROVE  SearchStands(t, E)
<1>a. PICK p : p = Last(Front(s.frames)).node
  OBVIOUS
<1>b. /\ t \in Search /\ t.index = s.index /\ t.stack = s.stack /\ t.components = s.components
      /\ t.frames = Front(s.frames)
      /\ t.frames # <<>> => t.low = [s.low EXCEPT ![p] = Least(s.low[p], s.low[n])]
  BY <1>a DEF PassesTo
<1>0. /\ s \in Search /\ Numbered(s) /\ Explored(s, E)
      /\ LowStands(s, E) /\ PathsStand(s, E) /\ Reports(s, E)
  BY DEF SearchStands
<1>1. /\ s.index \in [Nodes -> Nat] /\ s.low \in [Nodes -> Nat]
      /\ Seen(s) \subseteq Nodes /\ Framed(s) \subseteq Stacked(s) /\ Stacked(s) \subseteq Seen(s)
  BY <1>0 DEF Search, Seen, Numbered
<1>2. Seen(t) = Seen(s) /\ Stacked(t) = Stacked(s) /\ Done(t) = Done(s)
  BY <1>b DEF Seen, Stacked, Done
<1>3. /\ n \in Framed(s) /\ Framed(t) = Framed(s) \ {n} /\ Range(t.frames) \subseteq Range(s.frames)
      /\ \A x : x # n => Rest(t, x) = Rest(s, x)
      /\ \A g \in Framed(s) : g # n => s.index[g] < s.index[n]
      /\ \A i, j \in DOMAIN t.frames : i < j => t.index[t.frames[i].node] < t.index[t.frames[j].node]
  BY <1>0, <1>b, FrameLeft
<1>4. Rest(s, n) = {}
  BY <1>0, TopFrame
<1>5. \A x : Rest(s, x) \subseteq Rest(t, x)
  BY <1>3, <1>4
<1>6. Numbered(t)
  BY <1>0, <1>1, <1>2, <1>3, <1>b DEF Numbered
<1>7. PICK k \in Stacked(s) : s.index[k] = s.low[n] /\ Reaches(E, n, k) /\ s.index[k] < s.index[n]
  BY <1>0, <1>1, <1>3 DEF LowStands
<1>8. PICK g \in Framed(s) : s.index[g] <= s.index[k] /\ Reaches(E, k, g) /\ g # n
  BY <1>0, <1>1, <1>7 DEF PathsStand
<1>9. t.frames # <<>>
  <2>1. Range(t.frames) # {}
    BY <1>3, <1>8 DEF Framed
  <2>2. Range(<<>>) = {}
    BY DEF Range
  <2>3. QED BY <2>1, <2>2
<1>10. p \in Framed(t) /\ \A h \in Framed(t) : h # p => s.index[h] < s.index[p]
  <2>1. \A h \in Framed(t) : h # p => t.index[h] < t.index[p]
    BY <1>6, <1>9, <1>a, <1>b, TopFrame
  <2>2. p \in Framed(t)
    BY <1>6, <1>9, <1>a, <1>b, TopFrame
  <2>3. QED BY <1>b, <2>1, <2>2
<1>11. p \in Nodes /\ n \in Nodes /\ p # n /\ p \in Stacked(s) /\ s.index[p] < s.index[n]
  BY <1>1, <1>3, <1>10
<1>12. /\ \A x \in Nodes : x # p => t.low[x] = s.low[x]
       /\ \A x \in Nodes : t.low[x] \in Nat /\ t.low[x] <= s.low[x]
       /\ t.low[p] = s.low[p] \/ t.low[p] = s.low[n]
       /\ t.low[p] <= s.low[n]
  <2>1. t.low = [s.low EXCEPT ![p] = Least(s.low[p], s.low[n])]
    BY <1>9, <1>b
  <2>2. s.low[p] \in Nat /\ s.low[n] \in Nat
    BY <1>1, <1>11
  <2>3. QED BY <1>1, <1>11, <2>1, <2>2 DEF Least
<1>13. Explored(t, E)
  <2>1. ASSUME NEW x \in Seen(s) PROVE Targets(E, x) \ Rest(t, x) \subseteq Seen(s)
    BY <1>0, <1>5 DEF Explored
  <2>2. QED BY <1>0, <1>2, <1>3, <2>1 DEF Explored
<1>14. LowStands(t, E)
  <2>1. ASSUME NEW x \in Stacked(s) PROVE t.low[x] <= s.index[x]
    <3>1. s.low[x] <= s.index[x] /\ x \in Nodes
      BY <1>0, <1>1 DEF LowStands
    <3>2. QED BY <1>1, <1>12, <3>1
  <2>2. ASSUME NEW x \in Stacked(s)
        PROVE  \E m \in Stacked(s) : s.index[m] = t.low[x] /\ Reaches(E, x, m)
    <3>1. CASE t.low[x] = s.low[x]
      BY <1>0, <3>1 DEF LowStands
    <3>2. CASE x = p /\ t.low[p] = s.low[n]
      <4>1. Reaches(E, p, n)
        <5>1. s.index[p] \in Nat /\ s.index[n] \in Nat /\ p \in Framed(s) /\ n \in Stacked(s)
          BY <1>1, <1>3, <1>10, <1>11
        <5>2. QED BY <1>0, <1>11, <5>1 DEF PathsStand
      <4>2. Reaches(E, p, k)
        BY <1>7, <4>1, ReachesOn
      <4>3. QED BY <1>7, <3>2, <4>2
    <3>3. QED BY <1>1, <1>12, <3>1, <3>2
  <2>3. ASSUME NEW x \in Stacked(s), NEW m \in Targets(E, x) \ Rest(t, x), m \in Stacked(s)
        PROVE  t.low[x] <= s.index[m]
    <3>1. s.low[x] <= s.index[m]
      BY <1>0, <1>5, <2>3 DEF LowStands
    <3>2. x \in Nodes /\ m \in Nodes
      BY <1>1, <2>3
    <3>3. QED BY <1>1, <1>12, <3>1, <3>2
  <2>4. ASSUME NEW h \in Framed(t), NEW x \in Stacked(s), Innermost(t, h, x)
        PROVE  t.low[h] <= t.low[x]
    <3>0. /\ h \in Framed(s) /\ h \in Nodes /\ x \in Nodes
          /\ s.index[h] <= s.index[x]
          /\ \A i \in Framed(s) : i # n /\ s.index[i] <= s.index[x] => s.index[i] <= s.index[h]
      BY <1>1, <1>3, <1>b, <2>4 DEF Innermost
    <3>1. CASE x = p
      <4>1. s.index[h] = s.index[p]
        BY <1>1, <1>3, <1>10, <1>11, <3>0, <3>1
      <4>2. h = p
        BY <1>0, <1>1, <1>11, <3>0, <4>1 DEF Numbered
      <4>3. QED BY <1>12, <3>0, <3>1, <4>2
    <3>2. CASE x # p /\ s.index[n] <= s.index[x]
      <4>1. Innermost(s, n, x)
        <5> SUFFICES ASSUME NEW i \in Framed(s) PROVE s.index[i] <= s.index[n]
          BY <3>2 DEF Innermost
        <5>1. i \in Nodes
          BY <1>1
        <5>2. QED BY <1>1, <1>3, <1>11, <5>1
      <4>2. s.low[n] <= s.low[x]
        BY <1>0, <1>3, <4>1 DEF LowStands
      <4>3. s.index[p] <= s.index[x]
        BY <1>1, <1>11, <3>0, <3>2
      <4>4. s.index[p] <= s.index[h]
        BY <1>3, <1>10, <1>11, <3>0, <4>3
      <4>5. h = p
        BY <1>1, <1>10, <1>11, <3>0, <4>4
      <4>6. QED BY <1>1, <1>11, <1>12, <3>0, <3>2, <4>2, <4>5
    <3>3. CASE x # p /\ ~(s.index[n] <= s.index[x])
      <4>1. Innermost(s, h, x)
        BY <3>0, <3>3 DEF Innermost
      <4>2. s.low[h] <= s.low[x]
        BY <1>0, <3>0, <4>1 DEF LowStands
      <4>3. QED BY <1>1, <1>12, <3>0, <3>3, <4>2
    <3>4. QED BY <3>1, <3>2, <3>3
  <2>5. QED BY <1>2, <1>b, <2>1, <2>2, <2>3, <2>4 DEF LowStands
<1>15. PathsStand(t, E)
  <2>1. ASSUME NEW x \in Stacked(s)
        PROVE  \E h \in Framed(t) : s.index[h] <= s.index[x] /\ Reaches(E, x, h)
    <3>1. PICK h \in Framed(s) : s.index[h] <= s.index[x] /\ Reaches(E, x, h)
      BY <1>0 DEF PathsStand
    <3>2. CASE h # n
      BY <1>3, <3>1, <3>2
    <3>3. CASE h = n
      <4>1. Reaches(E, x, g)
        BY <1>7, <1>8, <3>1, <3>3, ReachesOn
      <4>2. x \in Nodes /\ g \in Nodes /\ k \in Nodes
        BY <1>1, <1>8
      <4>3. s.index[g] <= s.index[x]
        BY <1>1, <1>7, <1>8, <1>11, <3>1, <3>3, <4>2
      <4>4. QED BY <1>3, <1>8, <4>1, <4>3
    <3>4. QED BY <3>2, <3>3
  <2>2. QED BY <1>0, <1>2, <1>3, <1>b, <2>1 DEF PathsStand
<1>16. Reports(t, E)
  BY <1>0, <1>2, <1>b DEF Reports
<1>17. QED BY <1>b, <1>6, <1>13, <1>14, <1>15, <1>16 DEF SearchStands

\* The stack is cut between what was entered before a node and what was not.
LEMMA StackCut ==
  ASSUME NEW s \in Search, Numbered(s), NEW n \in Stacked(s)
  PROVE  LET at    == CHOOSE i \in DOMAIN s.stack : s.stack[i] = n
             below == SubSeq(s.stack, 1, at - 1)
         IN /\ below \in Seq(Nodes)
            /\ Range(below) = {x \in Stacked(s) : s.index[x] < s.index[n]}
            /\ \A i, j \in DOMAIN below : i < j => s.index[below[i]] < s.index[below[j]]
            /\ Range(SubSeq(s.stack, at, Len(s.stack))) = {x \in Stacked(s) : s.index[n] <= s.index[x]}
<1> DEFINE q     == s.stack
           at    == CHOOSE i \in DOMAIN q : q[i] = n
           below == SubSeq(q, 1, at - 1)
           above == SubSeq(q, at, Len(q))
<1>0. s.stack \in Seq(Nodes) /\ s.index \in [Nodes -> Nat]
  BY DEF Search
<1>1. /\ Len(q) \in Nat /\ DOMAIN q = 1 .. Len(q) /\ \A i \in 1 .. Len(q) : q[i] \in Nodes
      /\ Stacked(s) = {q[i] : i \in 1 .. Len(q)}
  BY <1>0, ElementOfSeq, LenProperties, RangeEquality DEF Stacked
<1>2. at \in 1 .. Len(q) /\ q[at] = n
  BY <1>1
<1>3. \A i, j \in 1 .. Len(q) : i < j => s.index[q[i]] < s.index[q[j]]
  BY <1>1 DEF Numbered
<1> HIDE DEF at
<1>4. /\ below \in Seq(Nodes) /\ DOMAIN below = 1 .. at - 1
      /\ \A i \in 1 .. at - 1 : below[i] = q[i]
  <2>1. 1 \in Int /\ at - 1 \in Int /\ \A i \in 1 .. at - 1 : q[i] \in Nodes
    BY <1>1, <1>2
  <2>2. /\ SubSeq(q, 1, at - 1) \in Seq(Nodes)
        /\ Len(SubSeq(q, 1, at - 1)) = IF 1 <= at - 1 THEN (at - 1) - 1 + 1 ELSE 0
        /\ \A i \in 1 .. (at - 1) - 1 + 1 : SubSeq(q, 1, at - 1)[i] = q[1 + i - 1]
    BY <2>1, SubSeqProperties
  <2>3. /\ below \in Seq(Nodes) /\ Len(below) = at - 1
        /\ \A i \in 1 .. at - 1 : below[i] = q[i]
    BY <1>2, <2>2
  <2>4. QED BY <2>3, LenProperties
<1>5. /\ above \in Seq(Nodes) /\ DOMAIN above = 1 .. Len(q) - at + 1
      /\ \A i \in 1 .. Len(q) - at + 1 : above[i] = q[at + i - 1]
  <2>1. at \in Int /\ Len(q) \in Int /\ \A i \in at .. Len(q) : q[i] \in Nodes
    BY <1>1, <1>2
  <2>2. /\ SubSeq(q, at, Len(q)) \in Seq(Nodes)
        /\ Len(SubSeq(q, at, Len(q))) = IF at <= Len(q) THEN Len(q) - at + 1 ELSE 0
        /\ \A i \in 1 .. Len(q) - at + 1 : SubSeq(q, at, Len(q))[i] = q[at + i - 1]
    BY <2>1, SubSeqProperties
  <2>3. /\ above \in Seq(Nodes) /\ Len(above) = Len(q) - at + 1
        /\ \A i \in 1 .. Len(q) - at + 1 : above[i] = q[at + i - 1]
    BY <1>1, <1>2, <2>2
  <2>4. QED BY <2>3, LenProperties
<1>6. Range(below) = {q[i] : i \in 1 .. at - 1}
  BY <1>4 DEF Range
<1>7. Range(above) = {q[i] : i \in at .. Len(q)}
  <2>1. ASSUME NEW i \in at .. Len(q) PROVE q[i] \in Range(above)
    <3>1. i - at + 1 \in 1 .. Len(q) - at + 1 /\ at + (i - at + 1) - 1 = i
      BY <1>1, <1>2
    <3>2. above[i - at + 1] = q[i]
      BY <1>5, <3>1
    <3>3. QED BY <1>5, <3>1, <3>2 DEF Range
  <2>2. ASSUME NEW x \in Range(above) PROVE \E i \in at .. Len(q) : x = q[i]
    <3>1. PICK i \in 1 .. Len(q) - at + 1 : x = q[at + i - 1]
      BY <1>5 DEF Range
    <3>2. at + i - 1 \in at .. Len(q)
      BY <1>1, <1>2
    <3>3. QED BY <3>1, <3>2
  <2>3. QED BY <2>1, <2>2
<1>8. \A i \in 1 .. Len(q) : i \in 1 .. at - 1 <=> s.index[q[i]] < s.index[n]
  <2> SUFFICES ASSUME NEW i \in 1 .. Len(q)
               PROVE  i \in 1 .. at - 1 <=> s.index[q[i]] < s.index[n]
    OBVIOUS
  <2>1. s.index[q[i]] \in Nat /\ s.index[n] \in Nat
    BY <1>0, <1>1, <1>2
  <2>2. CASE i < at
    BY <1>2, <1>3, <2>2
  <2>3. CASE i = at
    BY <1>2, <2>1, <2>3
  <2>4. CASE at < i
    BY <1>2, <1>3, <2>1, <2>4
  <2>5. QED BY <1>2, <2>2, <2>3, <2>4
<1>9. Range(below) = {x \in Stacked(s) : s.index[x] < s.index[n]}
  BY <1>1, <1>2, <1>6, <1>8
<1>10. Range(above) = {x \in Stacked(s) : s.index[n] <= s.index[x]}
  <2>1. \A i \in 1 .. Len(q) : i \in at .. Len(q) <=> s.index[n] <= s.index[q[i]]
    <3> SUFFICES ASSUME NEW i \in 1 .. Len(q)
                 PROVE  i \in at .. Len(q) <=> s.index[n] <= s.index[q[i]]
      OBVIOUS
    <3>1. s.index[q[i]] \in Nat /\ s.index[n] \in Nat
      BY <1>0, <1>1, <1>2
    <3>2. i \in at .. Len(q) <=> ~(i \in 1 .. at - 1)
      BY <1>1, <1>2
    <3>3. QED BY <1>8, <3>1, <3>2
  <2>2. QED BY <1>1, <1>2, <1>7, <2>1
<1>11. ASSUME NEW i \in DOMAIN below, NEW j \in DOMAIN below, i < j
       PROVE  s.index[below[i]] < s.index[below[j]]
  <2> HIDE DEF below
  <2>1. i \in 1 .. Len(q) /\ j \in 1 .. Len(q) /\ below[i] = q[i] /\ below[j] = q[j]
    BY <1>1, <1>2, <1>4
  <2>2. QED BY <1>3, <1>11, <2>1
<1>12. QED BY <1>4, <1>9, <1>10, <1>11 DEF at

\* What was entered with a node or after it, and is still on the stack.
Cut(s, n) == {x \in Stacked(s) : s.index[n] <= s.index[x]}

\* What leaves the stack with a root is its component, all that is reached but not done.
LEMMA CutIsComponent ==
  ASSUME NEW E, NEW s, SearchStands(s, E), s.frames # <<>>, NEW n, n = Last(s.frames).node,
         Last(s.frames).rest = {}, s.low[n] = s.index[n],
         NEW C, C = Cut(s, n)
  PROVE  Component(E, n) = C /\ Closed(E, Done(s) \cup C)
<1>0. s \in Search /\ Numbered(s) /\ Explored(s, E) /\ LowStands(s, E) /\ PathsStand(s, E)
  BY DEF SearchStands
<1>1. /\ C = {x \in Stacked(s) : s.index[n] <= s.index[x]}
      /\ s.index \in [Nodes -> Nat] /\ s.low \in [Nodes -> Nat]
      /\ Seen(s) \subseteq Nodes /\ Framed(s) \subseteq Stacked(s) /\ Stacked(s) \subseteq Seen(s)
  BY <1>0 DEF Search, Seen, Numbered, Cut
<1>2. /\ n \in Framed(s) /\ Rest(s, n) = {}
      /\ \A g \in Framed(s) : g # n => s.index[g] < s.index[n]
  BY <1>0, TopFrame
<1>3. n \in Nodes /\ n \in Stacked(s) /\ n \in C
  BY <1>1, <1>2
<1>4. \A g \in Framed(s) : s.index[g] <= s.index[n] /\ (g \in C => g = n)
  <2> SUFFICES ASSUME NEW g \in Framed(s)
               PROVE  s.index[g] <= s.index[n] /\ (g \in C => g = n)
    OBVIOUS
  <2>1. s.index[g] \in Nat /\ s.index[n] \in Nat
    BY <1>1, <1>3
  <2>2. QED BY <1>1, <1>2, <2>1
<1>5. ASSUME NEW x \in C PROVE Rest(s, x) = {}
  <2>1. CASE x = n
    BY <1>2, <2>1
  <2>2. CASE x # n
    <3>1. x \notin Framed(s)
      BY <1>4, <2>2
    <3>2. \A f \in Range(s.frames) : f.node # x
      BY <3>1 DEF Framed
    <3>3. QED BY <3>2 DEF Rest
  <2>3. QED BY <2>1, <2>2
<1>6. ASSUME NEW x \in C, NEW m \in Targets(E, x) PROVE m \in Done(s) \cup C
  <2>1. x \in Stacked(s) /\ x \in Seen(s) /\ s.index[n] <= s.index[x]
    BY <1>1
  <2>2. m \in Targets(E, x) \ Rest(s, x)
    BY <1>5
  <2>3. m \in Seen(s)
    BY <1>0, <2>1, <2>2 DEF Explored
  <2>4. CASE m \in Stacked(s)
    <3>1. s.low[x] <= s.index[m]
      BY <1>0, <2>1, <2>2, <2>4 DEF LowStands
    <3>2. Innermost(s, n, x)
      BY <1>4, <2>1 DEF Innermost
    <3>3. s.low[n] <= s.low[x]
      BY <1>0, <1>2, <2>1, <3>2 DEF LowStands
    <3>4. s.index[n] \in Nat /\ s.low[x] \in Nat /\ s.index[m] \in Nat
      BY <1>1, <1>3, <2>1, <2>3
    <3>5. QED BY <1>1, <2>4, <3>1, <3>3, <3>4
  <2>5. QED BY <2>3, <2>4 DEF Done
<1>7. Closed(E, Done(s))
  BY <1>0 DEF Explored
<1>8. Closed(E, Done(s) \cup C)
  BY <1>6, <1>7 DEF Closed
<1>9. Done(s) \cup C \in SUBSET Nodes /\ Done(s) \in SUBSET Nodes /\ n \notin Done(s)
  BY <1>1, <1>3 DEF Done
<1>10. ASSUME NEW x \in C PROVE Reaches(E, n, x) /\ Reaches(E, x, n)
  <2>1. Reaches(E, n, x)
    BY <1>0, <1>1, <1>2 DEF PathsStand
  <2>2. PICK g \in Framed(s) : s.index[g] <= s.index[x] /\ Reaches(E, x, g)
    BY <1>0, <1>1 DEF PathsStand
  <2>3. g \in Done(s) \cup C
    BY <1>8, <1>9, <2>2, ClosedKeeps
  <2>4. g \notin Done(s)
    BY <1>1 DEF Done
  <2>5. QED BY <1>4, <2>1, <2>2, <2>3, <2>4
<1>11. ASSUME NEW m \in Nodes, Reaches(E, n, m), Reaches(E, m, n) PROVE m \in C
  <2>1. m \in Done(s) \cup C
    BY <1>3, <1>8, <1>9, <1>11, ClosedKeeps
  <2>2. m \notin Done(s)
    BY <1>7, <1>9, <1>11, ClosedKeeps
  <2>3. QED BY <2>1, <2>2
<1>12. Component(E, n) = C
  <2>1. Component(E, n) = {m \in Nodes : Reaches(E, n, m) /\ Reaches(E, m, n)}
    BY <1>3, ComponentIs
  <2>2. C \subseteq Nodes
    BY <1>1
  <2>3. QED BY <1>10, <1>11, <2>1, <2>2
<1>13. QED BY <1>8, <1>12

\* What is a cut is reported when it is a cycle, and the rest of the search stands.
LEMMA Cuts ==
  ASSUME NEW E, E \subseteq Nodes \X Nodes, NEW s, SearchStands(s, E), s.frames # <<>>,
         NEW n, n = Last(s.frames).node, Last(s.frames).rest = {}, s.low[n] = s.index[n],
         NEW C, C = Cut(s, n),
         NEW t \in Search, t.index = s.index, t.low = s.low, t.frames = Front(s.frames),
         Stacked(t) = Stacked(s) \ C,
         \A i, j \in DOMAIN t.stack : i < j => t.index[t.stack[i]] < t.index[t.stack[j]],
         C # {n} \/ <<n, n>> \in E => t.components = Append(s.components, C),
         C = {n} /\ <<n, n>> \notin E => t.components = s.components
  PROVE  SearchStands(t, E)
<1>0. /\ s \in Search /\ Numbered(s) /\ Explored(s, E)
      /\ LowStands(s, E) /\ PathsStand(s, E) /\ Reports(s, E)
  BY DEF SearchStands
<1>1. /\ C = {x \in Stacked(s) : s.index[n] <= s.index[x]}
      /\ s.index \in [Nodes -> Nat] /\ s.low \in [Nodes -> Nat]
      /\ Seen(s) \subseteq Nodes /\ Framed(s) \subseteq Stacked(s) /\ Stacked(s) \subseteq Seen(s)
  BY <1>0 DEF Search, Seen, Numbered, Cut
<1>2. /\ n \in Framed(s) /\ Framed(t) = Framed(s) \ {n} /\ Range(t.frames) \subseteq Range(s.frames)
      /\ \A x : x # n => Rest(t, x) = Rest(s, x)
      /\ \A g \in Framed(s) : g # n => s.index[g] < s.index[n]
      /\ \A i, j \in DOMAIN t.frames : i < j => t.index[t.frames[i].node] < t.index[t.frames[j].node]
  BY <1>0, FrameLeft
<1>3. Rest(s, n) = {}
  BY <1>0, TopFrame
<1>4. \A x : Rest(s, x) \subseteq Rest(t, x)
  BY <1>2, <1>3
<1>5. n \in Nodes /\ n \in Stacked(s) /\ \A x \in Stacked(s) : s.index[x] \in Nat /\ s.index[n] \in Nat
  BY <1>1, <1>2
<1>5a. Stacked(t) = {x \in Stacked(s) : s.index[x] < s.index[n]}
  BY <1>1, <1>5
<1>6. /\ Seen(t) = Seen(s) /\ Done(t) = Done(s) \cup C /\ n \in C
      /\ Done(s) \cap C = {} /\ Done(s) \in SUBSET Nodes /\ Stacked(t) \subseteq Stacked(s)
  <2>1. Seen(t) = Seen(s)
    BY DEF Seen
  <2>2. \A x \in Stacked(s) : x \in C <=> x \notin Stacked(t)
    BY <1>1, <1>5
  <2>3. Done(t) = Done(s) \cup C
    BY <1>1, <2>1, <2>2 DEF Done
  <2>4. C \cap Done(s) = {} /\ Done(s) \in SUBSET Nodes
    BY <1>1 DEF Done
  <2>5. QED BY <1>1, <1>5, <2>1, <2>3, <2>4
<1>7. Component(E, n) = C /\ Closed(E, Done(s) \cup C)
  BY CutIsComponent
<1>8. Closed(E, Done(s))
  BY <1>0 DEF Explored
<1>9. Numbered(t)
  <2>1. Framed(t) \subseteq Stacked(t)
    BY <1>1, <1>2, <1>5a
  <2>2. QED BY <1>0, <1>1, <1>2, <1>6, <2>1 DEF Numbered
<1>10. Explored(t, E)
  <2>1. ASSUME NEW x \in Seen(s) PROVE Targets(E, x) \ Rest(t, x) \subseteq Seen(s)
    BY <1>0, <1>4 DEF Explored
  <2>2. Closed(E, Done(t))
    BY <1>6, <1>7
  <2>3. QED BY <1>0, <1>2, <1>6, <2>1, <2>2 DEF Explored
<1>11. LowStands(t, E)
  <2>1. \A x \in Stacked(t) : t.low[x] <= t.index[x]
    BY <1>0, <1>6 DEF LowStands
  <2>2. ASSUME NEW x \in Stacked(t)
        PROVE  \E m \in Stacked(t) : t.index[m] = t.low[x] /\ Reaches(E, x, m)
    <3>1. PICK m \in Stacked(s) : s.index[m] = s.low[x] /\ Reaches(E, x, m)
      BY <1>0 DEF LowStands
    <3>2. s.low[x] <= s.index[x] /\ s.index[x] < s.index[n] /\ x \in Stacked(s)
      BY <1>0, <1>5a DEF LowStands
    <3>3. s.index[m] < s.index[n]
      BY <1>5, <3>1, <3>2
    <3>4. QED BY <1>5a, <3>1, <3>3
  <2>3. ASSUME NEW x \in Stacked(t), NEW m \in Targets(E, x) \ Rest(t, x), m \in Stacked(t)
        PROVE  t.low[x] <= t.index[m]
    BY <1>0, <1>4, <1>6, <2>3 DEF LowStands
  <2>4. ASSUME NEW g \in Framed(t), NEW x \in Stacked(t), Innermost(t, g, x)
        PROVE  t.low[g] <= t.low[x]
    <3>1. x \in Stacked(s) /\ s.index[x] < s.index[n] /\ s.index[x] \in Nat /\ s.index[n] \in Nat
      BY <1>5, <1>5a
    <3>2. Innermost(s, g, x)
      BY <1>2, <2>4, <3>1 DEF Innermost
    <3>3. QED BY <1>0, <1>2, <3>1, <3>2 DEF LowStands
  <2>5. QED BY <2>1, <2>2, <2>3, <2>4 DEF LowStands
<1>12. PathsStand(t, E)
  <2>1. ASSUME NEW x \in Stacked(t)
        PROVE  \E g \in Framed(t) : t.index[g] <= t.index[x] /\ Reaches(E, x, g)
    <3>1. PICK g \in Framed(s) : s.index[g] <= s.index[x] /\ Reaches(E, x, g)
      BY <1>0, <1>6 DEF PathsStand
    <3>2. x \in Stacked(s) /\ s.index[x] < s.index[n] /\ s.index[x] \in Nat /\ s.index[n] \in Nat
      BY <1>5, <1>5a
    <3>3. g # n
      BY <3>1, <3>2
    <3>4. QED BY <1>2, <3>1, <3>3
  <2>2. QED BY <1>0, <1>2, <1>6, <2>1 DEF PathsStand
<1>13. Reports(t, E)
  <2> DEFINE Cycles(D) == {Component(E, k) : k \in {m \in D : m \in Reach(E, m)}}
  <2>1. CASE C # {n} \/ <<n, n>> \in E
    <3>1. t.components = Append(s.components, C)
      BY <2>1
    <3>2. n \in Reach(E, n)
      <4>1. CASE <<n, n>> \in E
        <5>1. n \in Targets(E, n)
          BY <1>5, <4>1 DEF Targets
        <5>2. QED BY <5>1, TargetsAreReached
      <4>2. CASE C # {n}
        <5>1. PICK x \in C : x # n
          BY <1>6, <4>2
        <5>2. x \in Reach(E, n) /\ n \in Reach(E, x)
          BY <1>7, <5>1 DEF Component
        <5>3. QED BY <5>2, ReachGoesOn
      <4>3. QED BY <2>1, <4>1, <4>2
    <3>3. ASSUME NEW m \in C PROVE m \in Reach(E, m) /\ Component(E, m) = C
      <4>1. Component(E, m) = C
        BY <1>5, <1>7, ComponentIs
      <4>2. CASE m = n
        BY <3>2, <4>1, <4>2
      <4>3. CASE m # n
        <5>1. m \in Reach(E, n) /\ n \in Reach(E, m)
          BY <1>7, <4>3 DEF Component
        <5>2. QED BY <4>1, <5>1, ReachGoesOn
      <4>4. QED BY <4>2, <4>3
    <3>4. Cycles(Done(t)) = Cycles(Done(s)) \cup {C}
      <4>1. {m \in Done(t) : m \in Reach(E, m)} = {m \in Done(s) : m \in Reach(E, m)} \cup C
        BY <1>6, <3>3
      <4>2. {Component(E, k) : k \in C} = {C}
        BY <1>6, <3>3
      <4>3. QED BY <4>1, <4>2
    <3>5. s.components \in Seq(SUBSET Nodes) /\ C \in SUBSET Nodes
      BY <1>0, <1>1 DEF Search
    <3>6. Range(t.components) = Range(s.components) \cup {C}
      <4>1. Range(Append(s.components, C)) = Range(s.components) \cup {C}
        BY <3>5, RangeOfAppend
      <4>2. QED BY <3>1, <4>1
    <3>7. Range(s.components) = Cycles(Done(s))
      BY <1>0 DEF Reports
    <3>8. /\ Len(s.components) \in Nat /\ DOMAIN s.components = 1 .. Len(s.components)
          /\ DOMAIN t.components = 1 .. Len(s.components) + 1
          /\ t.components[Len(s.components) + 1] = C
          /\ \A k \in 1 .. Len(s.components) : t.components[k] = s.components[k]
      BY <3>1, <3>5, AppendProperties, LenProperties
    <3>9. ASSUME NEW i \in DOMAIN t.components, NEW j \in DOMAIN t.components, i < j,
                 NEW x \in t.components[i]
          PROVE  Reach(E, x) \cap t.components[j] = {}
      <4>1. i \in DOMAIN s.components /\ x \in s.components[i]
        BY <3>8, <3>9
      <4>2. CASE j \in DOMAIN s.components
        BY <1>0, <3>8, <3>9, <4>1, <4>2 DEF Reports
      <4>3. CASE j = Len(s.components) + 1
        <5>1. s.components[i] \in Cycles(Done(s))
          BY <3>7, <4>1 DEF Range
        <5>2. PICK k \in Done(s) : s.components[i] = Component(E, k)
          BY <5>1
        <5>3. k \in Nodes /\ Reaches(E, k, x)
          BY <1>6, <4>1, <5>2, ComponentIs
        <5>4. x \in Done(s)
          BY <1>6, <1>8, <5>3, ClosedKeeps
        <5>5. ASSUME NEW y \in Reach(E, x) PROVE y \in Done(s)
          <6>1. Reaches(E, x, y)
            BY DEF Reaches
          <6>2. QED BY <1>6, <1>8, <5>4, <6>1, ClosedKeeps
        <5>6. QED BY <1>6, <3>8, <4>3, <5>5
      <4>4. QED BY <3>8, <4>2, <4>3
    <3>10. QED BY <3>4, <3>6, <3>7, <3>9 DEF Reports
  <2>2. CASE C = {n} /\ <<n, n>> \notin E
    <3>1. n \notin Reach(E, n)
      BY <1>5, <1>7, <2>2, CycleHasTargets
    <3>2. Cycles(Done(t)) = Cycles(Done(s))
      BY <1>6, <2>2, <3>1
    <3>3. t.components = s.components
      BY <2>2
    <3>4. QED BY <1>0, <3>2, <3>3 DEF Reports
  <2>3. QED BY <2>1, <2>2
<1>14. QED BY <1>9, <1>10, <1>11, <1>12, <1>13 DEF SearchStands

\* t is s with a node more, that has a frame of its own.
EntersTo(s, n, t) ==
  /\ t \in Search /\ t.components = s.components /\ t.stack = Append(s.stack, n)
  /\ t.index = [s.index EXCEPT ![n] = Cardinality(Seen(s)) + 1]
  /\ t.low = [s.low EXCEPT ![n] = Cardinality(Seen(s)) + 1]
  /\ t.frames = Append(s.frames, [node |-> n, rest |-> Targets(Calls, n)])
  /\ Range(t.frames) = Range(s.frames) \cup {[node |-> n, rest |-> Targets(Calls, n)]}
  /\ Framed(t) = Framed(s) \cup {n} /\ Targets(Calls, n) \subseteq Rest(t, n)
  /\ \A x : Rest(s, x) \subseteq Rest(t, x)

LEMMA EnteredIs ==
  ASSUME NEW s \in Search, NEW n \in Nodes
  PROVE  EntersTo(s, n, Entered(s, n))
<1> DEFINE t == Entered(s, n)
<1> DEFINE frame == [node |-> n, rest |-> Targets(Calls, n)]
           top   == Cardinality(Seen(s)) + 1
<1>1. /\ s.index \in [Nodes -> Nat] /\ s.low \in [Nodes -> Nat] /\ s.stack \in Seq(Nodes)
      /\ s.frames \in Seq(Frame) /\ s.components \in Seq(SUBSET Nodes)
  BY DEF Search
<1>2. Seen(s) \subseteq Nodes
  BY DEF Seen
<1>3. top \in Nat
  BY <1>2, NodesAreFinite
<1>4. frame \in Frame
  BY DEF Frame, Targets
<1> HIDE DEF top, frame
<1> DEFINE frames == Append(s.frames, frame)
           stack  == Append(s.stack, n)
           index  == [s.index EXCEPT ![n] = top]
           low    == [s.low EXCEPT ![n] = top]
<1>5. t = [s EXCEPT !.index = index, !.low = low, !.stack = stack, !.frames = frames]
  BY DEF Entered, top, frame
<1>5a. /\ index = [s.index EXCEPT ![n] = top] /\ low = [s.low EXCEPT ![n] = top]
       /\ stack = Append(s.stack, n) /\ frames = Append(s.frames, frame)
  OBVIOUS
<1> HIDE DEF frames, stack, index, low
<1>5b. /\ t.index = index /\ t.low = low /\ t.stack = stack /\ t.frames = frames
       /\ t.components = s.components
  BY <1>5 DEF Search
<1>6. /\ [s.index EXCEPT ![n] = top] \in [Nodes -> Nat] /\ [s.low EXCEPT ![n] = top] \in [Nodes -> Nat]
      /\ Append(s.stack, n) \in Seq(Nodes) /\ Append(s.frames, frame) \in Seq(Frame)
      /\ Range(Append(s.frames, frame)) = Range(s.frames) \cup {frame}
  BY <1>1, <1>3, <1>4, AppendProperties, RangeOfAppend
<1>7. t \in Search
  BY <1>1, <1>5, <1>5a, <1>6 DEF Search
<1>8. t.frames = Append(s.frames, frame) /\ Range(t.frames) = Range(s.frames) \cup {frame}
  BY <1>5a, <1>5b, <1>6
<1>9. frame.node = n /\ frame.rest = Targets(Calls, n)
  BY DEF frame
<1>10. Framed(t) = Framed(s) \cup {n} /\ Targets(Calls, n) \subseteq Rest(t, n)
  BY <1>8, <1>9 DEF Framed, Rest
<1>11. \A x : Rest(s, x) \subseteq Rest(t, x)
  BY <1>8 DEF Rest
<1>12. QED BY <1>5a, <1>5b, <1>7, <1>8, <1>10, <1>11 DEF top, frame, EntersTo

\* Only what the last frame still has to look at gets less.
LEMMA Moves ==
  ASSUME NEW s \in Search, s.frames # <<>>, Last(s.frames).rest # {}
  PROVE  LET m    == CursorMoves(s)
             n    == Last(s.frames).node
             next == First(Last(s.frames).rest)
         IN /\ m \in Search /\ m.components = s.components /\ m.stack = s.stack
            /\ m.index = s.index /\ m.low = s.low
            /\ n \in Framed(s) /\ next \in Last(s.frames).rest /\ Framed(m) = Framed(s)
            /\ DOMAIN m.frames = DOMAIN s.frames
            /\ \A i \in DOMAIN s.frames : m.frames[i].node = s.frames[i].node
            /\ \A f \in Range(m.frames) : \E g \in Range(s.frames) : f.node = g.node /\ f.rest \subseteq g.rest
            /\ \A x : Rest(s, x) \subseteq Rest(m, x) \cup (IF x = n THEN {next} ELSE {})
<1> DEFINE m    == CursorMoves(s)
           n    == Last(s.frames).node
           next == First(Last(s.frames).rest)
           l    == Len(s.frames)
<1>1. /\ s.index \in [Nodes -> Nat] /\ s.low \in [Nodes -> Nat] /\ s.stack \in Seq(Nodes)
      /\ s.frames \in Seq(Frame) /\ s.components \in Seq(SUBSET Nodes)
  BY DEF Search
<1>2. /\ l \in Nat \ {0} /\ Last(s.frames) = s.frames[l] /\ DOMAIN s.frames = 1 .. l
      /\ Last(s.frames) \in Frame /\ \A i \in 1 .. l : s.frames[i] \in Frame
  BY <1>1, FrontAndLast, ElementOfSeq
<1>3. next \in Last(s.frames).rest /\ Last(s.frames).rest \subseteq Nodes
  BY <1>2, FirstIsIn DEF Frame
<1> HIDE DEF l
<1> DEFINE top == [node |-> n, rest |-> Last(s.frames).rest \ {next}]
           moved == [s.frames EXCEPT ![l] = top]
<1>4. m = [index |-> s.index, low |-> s.low, stack |-> s.stack, frames |-> moved,
           components |-> s.components]
  <2>0. ASSUME NEW f \in Frame, NEW R PROVE [f EXCEPT !.rest = R] = [node |-> f.node, rest |-> R]
    BY DEF Frame
  <2>1. [s.frames[l] EXCEPT !.rest = @ \ {First(@)}] = top
    BY <1>2, <2>0
  <2>2. m = [s EXCEPT !.frames[l].rest = @ \ {First(@)}]
    BY DEF CursorMoves, l
  <2>3. m = [s EXCEPT !.frames = [s.frames EXCEPT ![l] = [s.frames[l] EXCEPT !.rest = @ \ {First(@)}]]]
    BY <2>2
  <2>4. m = [s EXCEPT !.frames = moved]
    BY <2>1, <2>3
  <2>5. QED BY <2>4 DEF Search
<1>5. top \in Frame
  BY <1>2, <1>3 DEF Frame
<1>6. /\ moved \in Seq(Frame) /\ DOMAIN moved = 1 .. l /\ moved[l] = top
      /\ \A i \in 1 .. l : i # l => moved[i] = s.frames[i]
  BY <1>1, <1>2, <1>5, ExceptSeq DEF l
<1>7. m \in Search /\ m.frames = moved
  BY <1>1, <1>4, <1>6 DEF Search
<1>8. top.node = n /\ top.rest = Last(s.frames).rest \ {next}
  OBVIOUS
<1> HIDE DEF moved, top
<1>9. DOMAIN m.frames = DOMAIN s.frames /\ \A i \in DOMAIN s.frames : m.frames[i].node = s.frames[i].node
  BY <1>2, <1>6, <1>7, <1>8
<1>10. /\ Range(s.frames) = {s.frames[i] : i \in 1 .. l}
       /\ Range(m.frames) = {m.frames[i] : i \in 1 .. l}
  BY <1>2, <1>6, <1>7 DEF Range
<1>11. Framed(m) = Framed(s) /\ n \in Framed(s)
  BY <1>2, <1>9, <1>10 DEF Framed
<1>12. ASSUME NEW f \in Range(m.frames)
       PROVE  \E g \in Range(s.frames) : f.node = g.node /\ f.rest \subseteq g.rest
  <2>1. PICK i \in 1 .. l : f = m.frames[i]
    BY <1>10
  <2>2. f.node = s.frames[i].node /\ f.rest \subseteq s.frames[i].rest
    BY <1>2, <1>6, <1>7, <1>8, <2>1
  <2>3. QED BY <1>10, <2>2
<1>13. ASSUME NEW x, NEW y \in Rest(s, x), ~(x = n /\ y = next) PROVE y \in Rest(m, x)
  <2>1. PICK f \in Range(s.frames) : f.node = x /\ y \in f.rest
    BY DEF Rest
  <2>2. PICK i \in 1 .. l : f = s.frames[i]
    BY <1>10
  <2>3. m.frames[i].node = x /\ y \in m.frames[i].rest
    BY <1>2, <1>6, <1>7, <1>8, <1>13, <2>1, <2>2
  <2>4. m.frames[i] \in Range(m.frames)
    BY <1>10
  <2>5. QED BY <2>3, <2>4 DEF Rest
<1>14. ASSUME NEW x PROVE Rest(s, x) \subseteq Rest(m, x) \cup (IF x = n THEN {next} ELSE {})
  BY <1>13
<1>15. m.components = s.components /\ m.stack = s.stack /\ m.index = s.index /\ m.low = s.low
  BY <1>4
<1>16. QED BY <1>3, <1>7, <1>9, <1>11, <1>12, <1>14, <1>15

\* The frame of an entered node comes after all frames.
LEMMA EnteredIsLast ==
  ASSUME NEW s \in Search, Numbered(s), NEW m \in Search, m.index = s.index,
         DOMAIN m.frames = DOMAIN s.frames, \A i \in DOMAIN s.frames : m.frames[i].node = s.frames[i].node,
         NEW n \in Nodes, n \notin Seen(s), NEW t, t = Entered(m, n)
  PROVE  \A i, j \in DOMAIN t.frames : i < j => t.index[t.frames[i].node] < t.index[t.frames[j].node]
<1>1. /\ s.index \in [Nodes -> Nat] /\ s.frames \in Seq(Frame) /\ m.frames \in Seq(Frame)
      /\ Seen(m) = Seen(s) /\ Seen(s) \subseteq Nodes
  BY DEF Search, Seen
<1> DEFINE top   == Cardinality(Seen(s)) + 1
           frame == [node |-> n, rest |-> Targets(Calls, n)]
           l     == Len(m.frames)
<1>2. t.index = [s.index EXCEPT ![n] = top] /\ t.frames = Append(m.frames, frame)
  <2>1. /\ t.index = [m.index EXCEPT ![n] = Cardinality(Seen(m)) + 1]
        /\ t.frames = Append(m.frames, [node |-> n, rest |-> Targets(Calls, n)])
    BY EnteredIs DEF EntersTo
  <2>2. QED BY <1>1, <2>1
<1>3. top \in Nat /\ frame \in Frame /\ frame.node = n
  BY <1>1, NodesAreFinite DEF Frame, Targets
<1>4. /\ l \in Nat /\ DOMAIN m.frames = 1 .. l /\ DOMAIN t.frames = 1 .. l + 1
      /\ t.frames[l + 1] = frame /\ \A i \in 1 .. l : t.frames[i] = m.frames[i]
  BY <1>1, <1>2, <1>3, AppendProperties, LenProperties
<1>5. ASSUME NEW i \in 1 .. l PROVE s.frames[i].node \in Seen(s)
  <2>1. s.frames[i] \in Range(s.frames)
    BY <1>4 DEF Range
  <2>2. s.frames[i].node \in Framed(s)
    BY <2>1 DEF Framed
  <2>3. QED BY <2>2 DEF Numbered
<1> HIDE DEF top, frame, l
<1>6. ASSUME NEW x \in Seen(s) PROVE t.index[x] = s.index[x] /\ s.index[x] < top
  <2>1. x \in Nodes /\ x # n /\ s.index[x] \in Nat
    BY <1>1
  <2>2. s.index[x] <= Cardinality(Seen(s))
    BY <2>1 DEF Numbered
  <2>3. Cardinality(Seen(s)) \in Nat
    BY <1>1, NodesAreFinite
  <2>4. QED BY <1>1, <1>2, <2>1, <2>2, <2>3 DEF top
<1>7. t.index[n] = top
  BY <1>1, <1>2
<1>8. ASSUME NEW i \in 1 .. l + 1, NEW j \in 1 .. l + 1, i < j
      PROVE  t.index[t.frames[i].node] < t.index[t.frames[j].node]
  <2>1. i \in 1 .. l /\ t.frames[i].node = s.frames[i].node
    BY <1>4, <1>8
  <2>2. CASE j \in 1 .. l
    <3>1. s.index[s.frames[i].node] < s.index[s.frames[j].node]
      BY <1>4, <1>8, <2>1, <2>2 DEF Numbered
    <3>2. QED BY <1>4, <1>5, <1>6, <2>1, <2>2, <3>1
  <2>3. CASE j = l + 1
    BY <1>3, <1>4, <1>5, <1>6, <1>7, <2>1, <2>3
  <2>4. QED BY <1>4, <2>2, <2>3
<1>9. QED BY <1>4, <1>8

LEMMA StartStands ==
  ASSUME NEW E, E = Calls, NEW s, SearchStands(s, E), s.frames = <<>>, NEW n \in Nodes, n \notin Seen(s)
  PROVE  SearchStands(Entered(s, n), E)
<1>1. s \in Search /\ Numbered(s) /\ Explored(s, E)
  BY DEF SearchStands
<1>2. Range(s.frames) = {} /\ Framed(s) = {}
  BY DEF Range, Framed
<1>3. PICK t : t = Entered(s, n)
  OBVIOUS
<1>4. /\ t \in Search /\ t.components = s.components /\ t.stack = Append(s.stack, n)
      /\ t.index = [s.index EXCEPT ![n] = Cardinality(Seen(s)) + 1]
      /\ t.low = [s.low EXCEPT ![n] = Cardinality(Seen(s)) + 1]
      /\ Range(t.frames) = Range(s.frames) \cup {[node |-> n, rest |-> Targets(E, n)]}
      /\ Framed(t) = Framed(s) \cup {n} /\ Targets(E, n) \subseteq Rest(t, n)
      /\ \A x : Rest(s, x) \subseteq Rest(t, x)
  <2>1. EntersTo(s, n, t)
    BY <1>1, <1>3, EnteredIs
  <2>2. QED BY <2>1 DEF EntersTo
<1>5. \A i, j \in DOMAIN t.frames : i < j => t.index[t.frames[i].node] < t.index[t.frames[j].node]
  BY <1>1, <1>3, EnteredIsLast
<1>6. \A frame \in Range(t.frames) : frame.rest \subseteq Targets(E, frame.node)
  BY <1>2, <1>4
<1>7. \A x : Rest(s, x) \subseteq Rest(t, x) \cup {n}
  BY <1>4
<1>8. SearchStands(t, E)
  BY <1>2, <1>4, <1>5, <1>6, <1>7, Enters
<1>9. QED BY <1>3, <1>8

LEMMA LookStands ==
  ASSUME NEW E, E = Calls, NEW s, SearchStands(s, E), s.frames # <<>>, Last(s.frames).rest # {},
         NEW next, next = First(Last(s.frames).rest), NEW n, n = Last(s.frames).node,
         NEW t, t = IF s.index[next] = Unseen THEN Entered(CursorMoves(s), next)
                    ELSE LoweredBy(CursorMoves(s), n, next)
  PROVE  SearchStands(t, E)
<1>0. s \in Search /\ Numbered(s) /\ Explored(s, E) /\ PathsStand(s, E)
  BY DEF SearchStands
<1>1. PICK m : m = CursorMoves(s)
  OBVIOUS
<1>2. /\ m \in Search /\ m.components = s.components /\ m.stack = s.stack
      /\ m.index = s.index /\ m.low = s.low
      /\ n \in Framed(s) /\ next \in Last(s.frames).rest /\ Framed(m) = Framed(s)
      /\ DOMAIN m.frames = DOMAIN s.frames
      /\ \A i \in DOMAIN s.frames : m.frames[i].node = s.frames[i].node
      /\ \A f \in Range(m.frames) : \E g \in Range(s.frames) : f.node = g.node /\ f.rest \subseteq g.rest
      /\ \A x : Rest(s, x) \subseteq Rest(m, x) \cup (IF x = n THEN {next} ELSE {})
  BY <1>0, <1>1, Moves
<1>3. /\ Last(s.frames) \in Range(s.frames) /\ \A g \in Framed(s) : g # n => s.index[g] < s.index[n]
  BY <1>0, TopFrame
<1>4. next \in Targets(E, n) /\ next \in Nodes
  BY <1>0, <1>2, <1>3 DEF Explored, Targets
<1>5. \A f \in Range(m.frames) : f.rest \subseteq Targets(E, f.node)
  BY <1>0, <1>2 DEF Explored
<1>6. s.index \in [Nodes -> Nat] /\ Framed(s) \subseteq Stacked(s) /\ Stacked(s) \subseteq Seen(s) /\ Seen(s) \subseteq Nodes
  BY <1>0 DEF Search, Numbered, Seen
<1>7. CASE s.index[next] = Unseen
  <2>1. t = Entered(m, next) /\ next \notin Seen(s) /\ Seen(m) = Seen(s)
    BY <1>1, <1>2, <1>7 DEF Seen
  <2>2. /\ t \in Search /\ t.components = s.components /\ t.stack = Append(s.stack, next)
        /\ t.index = [s.index EXCEPT ![next] = Cardinality(Seen(s)) + 1]
        /\ t.low = [s.low EXCEPT ![next] = Cardinality(Seen(s)) + 1]
        /\ Range(t.frames) = Range(m.frames) \cup {[node |-> next, rest |-> Targets(E, next)]}
        /\ Framed(t) = Framed(m) \cup {next} /\ Targets(E, next) \subseteq Rest(t, next)
        /\ \A x : Rest(m, x) \subseteq Rest(t, x)
    <3>1. EntersTo(m, next, t)
      BY <1>2, <1>4, <2>1, EnteredIs
    <3>2. QED BY <1>2, <2>1, <3>1 DEF EntersTo
  <2>3. \A i, j \in DOMAIN t.frames : i < j => t.index[t.frames[i].node] < t.index[t.frames[j].node]
    BY <1>0, <1>2, <1>4, <2>1, EnteredIsLast
  <2>4. \A frame \in Range(t.frames) : frame.rest \subseteq Targets(E, frame.node)
    BY <1>5, <2>2
  <2>5. ASSUME NEW x PROVE Rest(s, x) \subseteq Rest(t, x) \cup {next}
    <3>1. Rest(s, x) \subseteq Rest(m, x) \cup {next}
      BY <1>2
    <3>2. QED BY <2>2, <3>1
  <2>6. ASSUME NEW g \in Framed(s) PROVE Reaches(E, g, next)
    <3>1. g \in Nodes /\ n \in Nodes /\ n \in Stacked(s)
      BY <1>2, <1>6
    <3>2. s.index[g] <= s.index[n]
      BY <1>3, <1>6, <3>1
    <3>3. Reaches(E, g, n)
      BY <1>0, <3>1, <3>2 DEF PathsStand
    <3>4. Reaches(E, n, next)
      BY <1>4, TargetsAreReached DEF Reaches
    <3>5. QED BY <3>3, <3>4, ReachesOn
  <2>7. Framed(t) = Framed(s) \cup {next}
    BY <1>2, <2>2
  <2>8. QED BY <1>4, <2>1, <2>2, <2>3, <2>4, <2>5, <2>6, <2>7, Enters
<1>8. CASE s.index[next] # Unseen
  <2>1. t = LoweredBy(m, n, next) /\ next \in Seen(s)
    BY <1>1, <1>4, <1>8 DEF Seen
  <2>2. n \in Nodes
    BY <1>2, <1>6
  <2>3. /\ t.index = s.index /\ t.stack = s.stack /\ t.components = s.components /\ t.frames = m.frames
        /\ t.low = IF next \in Stacked(s) THEN [s.low EXCEPT ![n] = Least(@, s.index[next])] ELSE s.low
    <3>1. CASE next \in Stacked(s)
      <4>1. t = [m EXCEPT !.low[n] = Least(@, s.index[next])]
        BY <1>2, <2>1, <3>1 DEF LoweredBy, Lowered, OnStack, Stacked
      <4>2. QED BY <1>2, <3>1, <4>1 DEF Search
    <3>2. CASE next \notin Stacked(s)
      <4>1. t = m
        BY <1>2, <2>1, <3>2 DEF LoweredBy, OnStack, Stacked
      <4>2. QED BY <1>2, <3>2, <4>1
    <3>3. QED BY <3>1, <3>2
  <2>4. t \in Search
    <3>1. CASE next \in Stacked(s)
      <4>1. t = [m EXCEPT !.low[n] = Least(@, s.index[next])]
        BY <1>2, <2>1, <3>1 DEF LoweredBy, Lowered, OnStack, Stacked
      <4>2. m.low[n] \in Nat /\ s.index[next] \in Nat
        BY <1>2, <1>4, <1>6, <2>2 DEF Search
      <4>3. Least(m.low[n], s.index[next]) \in Nat
        BY <4>2 DEF Least
      <4>4. m.low \in [Nodes -> Nat]
        BY <1>2 DEF Search
      <4>5. [m.low EXCEPT ![n] = Least(m.low[n], s.index[next])] \in [Nodes -> Nat]
        BY <4>3, <4>4
      <4>6. t = [m EXCEPT !.low = [m.low EXCEPT ![n] = Least(m.low[n], s.index[next])]]
        BY <4>1
      <4>7. QED BY <1>2, <4>5, <4>6 DEF Search
    <3>2. CASE next \notin Stacked(s)
      BY <1>2, <2>1, <3>2 DEF LoweredBy, OnStack, Stacked
    <3>3. QED BY <3>1, <3>2
  <2>5. \A i, j \in DOMAIN t.frames : i < j => t.index[t.frames[i].node] < t.index[t.frames[j].node]
    BY <1>0, <1>2, <2>3 DEF Numbered
  <2>6. \A f \in Range(t.frames) : f.rest \subseteq Targets(E, f.node)
    BY <1>5, <2>3
  <2>7. Framed(t) = Framed(s) /\ \A x : Rest(t, x) = Rest(m, x)
    BY <1>2, <2>3 DEF Framed, Rest
  <2>8. \A x : Rest(s, x) \subseteq Rest(t, x) \cup (IF x = n THEN {next} ELSE {})
    BY <1>2, <2>7
  <2>9. QED BY <1>2, <1>4, <2>1, <2>3, <2>4, <2>5, <2>6, <2>7, <2>8, Lowers
<1>9. QED BY <1>7, <1>8

\* What a root reports is its component.
LEMMA RootStands ==
  ASSUME NEW E, E = Calls, E \subseteq Nodes \X Nodes,
         NEW s, SearchStands(s, E), s.frames # <<>>, Last(s.frames).rest = {},
         NEW n, n = Last(s.frames).node, s.low[n] = s.index[n],
         NEW passed \in Search, passed.frames = Front(s.frames), passed.index = s.index,
         passed.low = s.low, passed.stack = s.stack, passed.components = s.components
  PROVE  SearchStands(Reported(passed, n), E)
<1>0. s \in Search /\ Numbered(s)
  BY DEF SearchStands
<1>1. /\ s.index \in [Nodes -> Nat] /\ s.low \in [Nodes -> Nat] /\ s.stack \in Seq(Nodes)
      /\ s.frames \in Seq(Frame) /\ s.components \in Seq(SUBSET Nodes)
      /\ Framed(s) \subseteq Stacked(s) /\ Stacked(s) \subseteq Nodes
  BY <1>0 DEF Search, Numbered, Seen
<1>2. /\ n \in Framed(s) /\ Framed(passed) = Framed(s) \ {n}
      /\ \A i, j \in DOMAIN passed.frames :
           i < j => passed.index[passed.frames[i].node] < passed.index[passed.frames[j].node]
  BY <1>0, FrameLeft
<1>3. PICK t : t = Reported(passed, n)
  OBVIOUS
<1>4. PICK C : C = Cut(s, n)
  OBVIOUS
<1> DEFINE at    == CHOOSE i \in DOMAIN passed.stack : passed.stack[i] = n
           below == SubSeq(passed.stack, 1, at - 1)
           above == Range(SubSeq(passed.stack, at, Len(passed.stack)))
           told  == IF above # {n} \/ <<n, n>> \in E THEN Append(passed.components, above)
                    ELSE passed.components
<1>5. Numbered(passed) /\ Stacked(passed) = Stacked(s)
  <2>1. Seen(passed) = Seen(s) /\ Stacked(passed) = Stacked(s)
    BY DEF Seen, Stacked
  <2>2. QED BY <1>0, <1>2, <2>1 DEF Numbered
<1>6. n \in Stacked(passed)
  BY <1>1, <1>2, <1>5
<1>7. /\ below \in Seq(Nodes) /\ Range(below) = {x \in Stacked(passed) : passed.index[x] < passed.index[n]}
      /\ \A i, j \in DOMAIN below : i < j => passed.index[below[i]] < passed.index[below[j]]
      /\ above = {x \in Stacked(passed) : passed.index[n] <= passed.index[x]}
  BY <1>5, <1>6, StackCut
<1>8. t = [passed EXCEPT !.stack = below, !.components = told]
  BY <1>3 DEF Reported
<1>9. /\ above # {n} \/ <<n, n>> \in E => told = Append(passed.components, above)
      /\ above = {n} /\ <<n, n>> \notin E => told = passed.components
  OBVIOUS
<1> HIDE DEF told, below, above
<1>10. above = C
  BY <1>4, <1>5, <1>7 DEF Cut
<1>11. told \in Seq(SUBSET Nodes)
  <2>1. C \in SUBSET Nodes
    BY <1>1, <1>4 DEF Cut
  <2>2. Append(s.components, C) \in Seq(SUBSET Nodes)
    BY <1>1, <2>1, AppendProperties
  <2>3. QED BY <1>1, <1>9, <1>10, <2>2
<1>12. t \in Search
  BY <1>7, <1>8, <1>11 DEF Search
<1>13. /\ t.stack = below /\ t.components = told /\ t.index = s.index /\ t.low = s.low
       /\ t.frames = Front(s.frames)
  BY <1>8 DEF Search
<1>14. Stacked(t) = Stacked(s) \ C
  <2>1. \A x \in Stacked(s) : s.index[x] \in Nat /\ s.index[n] \in Nat
    BY <1>1, <1>2
  <2>2. Stacked(t) = {x \in Stacked(s) : s.index[x] < s.index[n]}
    BY <1>5, <1>7, <1>13 DEF Stacked
  <2>3. QED BY <1>4, <2>1, <2>2 DEF Cut
<1>15. \A i, j \in DOMAIN t.stack : i < j => t.index[t.stack[i]] < t.index[t.stack[j]]
  BY <1>7, <1>13
<1>16. /\ C # {n} \/ <<n, n>> \in E => t.components = Append(s.components, C)
       /\ C = {n} /\ <<n, n>> \notin E => t.components = s.components
  BY <1>9, <1>10, <1>13
<1>17. SearchStands(t, E)
  BY <1>4, <1>12, <1>13, <1>14, <1>15, <1>16, Cuts
<1>18. QED BY <1>3, <1>17

\* What Leave makes of the state before it looks for a root.
Passed(s, n) ==
  LET left == [s EXCEPT !.frames = Front(s.frames)]
  IN IF left.frames = <<>> THEN left ELSE Lowered(left, Last(left.frames).node, left.low[n])

LEMMA LeftIs ==
  ASSUME NEW s \in Search, Numbered(s), s.frames # <<>>, NEW n, n = Last(s.frames).node
  PROVE  PassesTo(s, n, Passed(s, n))
<1>a. PICK left : left = [s EXCEPT !.frames = Front(s.frames)]
  OBVIOUS
<1>b. PICK t : t = IF left.frames = <<>> THEN left ELSE Lowered(left, Last(left.frames).node, left.low[n])
  OBVIOUS
<1>1. /\ s.low \in [Nodes -> Nat] /\ s.frames \in Seq(Frame) /\ Framed(s) \subseteq Nodes
  BY DEF Search, Numbered, Seen
<1>2. /\ left \in Search /\ left.frames = Front(s.frames) /\ left.index = s.index
      /\ left.low = s.low /\ left.stack = s.stack /\ left.components = s.components
  <2>1. Front(s.frames) \in Seq(Frame)
    BY <1>1, FrontAndLast
  <2>2. QED BY <1>a, <2>1 DEF Search
<1>3. n \in Framed(s) /\ Framed(left) = Framed(s) \ {n}
  BY <1>2, FrameLeft
<1>4. PICK p : p = Last(left.frames).node
  OBVIOUS
<1>5. ASSUME left.frames = <<>> PROVE PassesTo(s, n, t)
  BY <1>2, <1>5, <1>b DEF PassesTo
<1>6. ASSUME left.frames # <<>> PROVE PassesTo(s, n, t)
  <2>1. Last(left.frames) \in Range(left.frames)
    <3>1. left.frames \in Seq(Frame)
      BY <1>2 DEF Search
    <3>2. QED BY <1>6, <3>1, FrontAndLast
  <2>2. p \in Nodes
    BY <1>1, <1>3, <1>4, <2>1 DEF Framed
  <2>3. s.low[p] \in Nat /\ s.low[n] \in Nat
    BY <1>1, <1>3, <2>2
  <2>4. [s.low EXCEPT ![p] = Least(s.low[p], s.low[n])] \in [Nodes -> Nat]
    BY <1>1, <2>3 DEF Least
  <2>5. t = [left EXCEPT !.low = [s.low EXCEPT ![p] = Least(s.low[p], s.low[n])]]
    BY <1>2, <1>4, <1>6, <1>b DEF Lowered
  <2>6. QED BY <1>2, <1>4, <1>6, <2>4, <2>5 DEF Search, PassesTo
<1>7. t = Passed(s, n)
  BY <1>a, <1>b DEF Passed
<1>8. QED BY <1>5, <1>6, <1>7

\* The low link that a root passes on lowers nothing.
LEMMA RootsPassNothing ==
  ASSUME NEW E, NEW s, SearchStands(s, E), s.frames # <<>>, NEW n, n = Last(s.frames).node,
         s.low[n] = s.index[n], NEW t, PassesTo(s, n, t)
  PROVE  t.low = s.low
<1>0. s \in Search /\ Numbered(s) /\ LowStands(s, E)
  BY DEF SearchStands
<1>1. /\ s.index \in [Nodes -> Nat] /\ s.low \in [Nodes -> Nat]
      /\ Framed(s) \subseteq Stacked(s) /\ Stacked(s) \subseteq Nodes
  BY <1>0 DEF Search, Numbered, Seen
<1>2. PICK p : p = Last(Front(s.frames)).node
  OBVIOUS
<1>3. /\ t \in Search /\ t.index = s.index /\ t.frames = Front(s.frames)
      /\ t.frames = <<>> => t.low = s.low
      /\ t.frames # <<>> => t.low = [s.low EXCEPT ![p] = Least(s.low[p], s.low[n])]
  BY <1>2 DEF PassesTo
<1>4. /\ n \in Framed(s) /\ Framed(t) = Framed(s) \ {n}
      /\ \A g \in Framed(s) : g # n => s.index[g] < s.index[n]
  BY <1>0, <1>3, FrameLeft
<1>5. CASE t.frames # <<>>
  <2>1. p \in Framed(t)
    <3>1. t.frames \in Seq(Frame)
      BY <1>3 DEF Search
    <3>2. Last(t.frames) \in Range(t.frames)
      BY <1>5, <3>1, FrontAndLast
    <3>3. p = Last(t.frames).node
      BY <1>2, <1>3
    <3>4. QED BY <3>2, <3>3 DEF Framed
  <2>2. p \in Framed(s) /\ p # n /\ p \in Nodes /\ p \in Stacked(s) /\ n \in Nodes
    BY <1>1, <1>4, <2>1
  <2>3. s.low[p] <= s.index[p] /\ s.index[p] < s.index[n]
    BY <1>0, <1>4, <2>2 DEF LowStands
  <2>4. s.low[p] \in Nat /\ s.index[p] \in Nat /\ s.index[n] \in Nat
    BY <1>1, <2>2
  <2>5. Least(s.low[p], s.low[n]) = s.low[p]
    BY <2>3, <2>4 DEF Least
  <2>6. t.low = [s.low EXCEPT ![p] = s.low[p]]
    BY <1>3, <1>5, <2>5
  <2>7. QED BY <1>1, <2>6
<1>6. QED BY <1>3, <1>5

LEMMA LeaveStands ==
  ASSUME NEW E, E = Calls, E \subseteq Nodes \X Nodes,
         NEW s, SearchStands(s, E), s.frames # <<>>, Last(s.frames).rest = {},
         NEW n, n = Last(s.frames).node, NEW passed, PassesTo(s, n, passed)
  PROVE  SearchStands(IF passed.low[n] = passed.index[n] THEN Reported(passed, n) ELSE passed, E)
<1>1. /\ passed \in Search /\ passed.index = s.index /\ passed.stack = s.stack
      /\ passed.components = s.components /\ passed.frames = Front(s.frames)
  BY DEF PassesTo
<1>2. CASE s.low[n] = s.index[n]
  <2>1. passed.low = s.low
    BY <1>2, RootsPassNothing
  <2>2. SearchStands(Reported(passed, n), E)
    BY <1>1, <1>2, <2>1, RootStands
  <2>3. QED BY <1>1, <1>2, <2>1, <2>2
<1>3. CASE s.low[n] # s.index[n]
  <2>1. SearchStands(passed, E)
    BY <1>3, Passes
  <2>2. passed.low[n] # passed.index[n]
    <3>1. passed.low[n] = s.low[n]
      <4>1. s \in Search /\ Numbered(s) /\ Framed(s) \subseteq Nodes
        BY DEF SearchStands, Numbered, Seen
      <4>2. n \in Framed(s) /\ Framed(passed) = Framed(s) \ {n}
        BY <1>1, <4>1, FrameLeft
      <4>3. CASE passed.frames # <<>>
        <5>1. PICK p : p = Last(passed.frames).node
          OBVIOUS
        <5>2. passed.frames \in Seq(Frame)
          BY <1>1 DEF Search
        <5>3. Last(passed.frames) \in Range(passed.frames)
          BY <4>3, <5>2, FrontAndLast
        <5>4. p \in Framed(passed)
          BY <5>1, <5>3 DEF Framed
        <5>5. passed.low = [s.low EXCEPT ![p] = Least(s.low[p], s.low[n])] /\ s.low \in [Nodes -> Nat]
          BY <1>1, <4>1, <4>3, <5>1 DEF PassesTo, Search
        <5>6. QED BY <4>1, <4>2, <5>4, <5>5
      <4>4. CASE passed.frames = <<>>
        BY <4>4 DEF PassesTo
      <4>5. QED BY <4>3, <4>4
    <3>2. QED BY <1>1, <1>3, <3>1
  <2>3. QED BY <2>1, <2>2
<1>4. QED BY <1>2, <1>3

-----------------------------------------------------------------------------
(* Theorem 2: the cycles reported are the components, in an order that says something *)

SearchInv == repository \in Repositories /\ SearchStands(search, Calls)

LEMMA CallsAreEdges == repository \in Repositories => Calls \subseteq Nodes \X Nodes
  BY GraphsAssumption DEF Calls

LEMMA SearchInit == Init => SearchInv
<1> SUFFICES ASSUME Init PROVE SearchInv
  OBVIOUS
<1>1. PICK s : s = search
  OBVIOUS
<1>2. /\ s.index = [n \in Nodes |-> 0] /\ s.low = [n \in Nodes |-> 0]
      /\ s.stack = <<>> /\ s.frames = <<>> /\ s.components = <<>>
  BY <1>1 DEF Init, NoSearch, Unseen
<1>3. s \in Search
  <2>1. <<>> \in Seq(Nodes) /\ <<>> \in Seq(Frame) /\ <<>> \in Seq(SUBSET Nodes)
    BY EmptySeq
  <2>2. [n \in Nodes |-> 0] \in [Nodes -> Nat]
    OBVIOUS
  <2>3. QED BY <1>1, <2>1, <2>2 DEF Init, NoSearch, Unseen, Search
<1>4. /\ Seen(s) = {} /\ Stacked(s) = {} /\ Done(s) = {} /\ Framed(s) = {}
      /\ Range(s.frames) = {} /\ Range(s.components) = {}
  BY <1>2 DEF Seen, Stacked, Done, Framed, Range, Unseen
<1>5. Cardinality(Seen(s)) = 0
  BY <1>4, FS_EmptySet
<1>6. DOMAIN s.stack = {} /\ DOMAIN s.frames = {} /\ DOMAIN s.components = {}
  BY <1>2
<1>7. Numbered(s)
  BY <1>2, <1>4, <1>5, <1>6 DEF Numbered
<1>8. Explored(s, Calls) /\ LowStands(s, Calls) /\ PathsStand(s, Calls)
  BY <1>4 DEF Explored, LowStands, PathsStand, Closed
<1>9. Reports(s, Calls)
  BY <1>4, <1>6 DEF Reports
<1>10. QED BY <1>1, <1>3, <1>7, <1>8, <1>9 DEF SearchInv, SearchStands, Init

LEMMA SearchNext == SearchInv /\ [Next]_vars => SearchInv'
<1> SUFFICES ASSUME SearchInv, [Next]_vars PROVE SearchInv'
  OBVIOUS
<1>1. repository' = repository
  BY DEF Next, StartSearch, Look, Leave, Ask, Meet, vars
<1>2. PICK E : E = Calls /\ E \subseteq Nodes \X Nodes
  BY CallsAreEdges DEF SearchInv
<1>3. Calls' = E
  BY <1>1, <1>2 DEF Calls, Declared
<1>4. PICK s : s = search
  OBVIOUS
<1>5. SearchStands(s, E)
  BY <1>2, <1>4 DEF SearchInv
<1>6. SearchStands(search', E)
  <2>1. CASE StartSearch
    <3>1. PICK n : n = First(Participants \ Seen(s))
      OBVIOUS
    <3>2. s.frames = <<>> /\ Participants \ Seen(s) # {} /\ search' = Entered(s, n)
      BY <1>4, <2>1, <3>1 DEF StartSearch
    <3>3. Participants \ Seen(s) \subseteq Nodes
      BY DEF Participants
    <3>4. n \in Nodes /\ n \notin Seen(s)
      BY <3>1, <3>2, <3>3, FirstIsIn
    <3>5. SearchStands(Entered(s, n), E)
      BY <1>2, <1>5, <3>2, <3>4, StartStands
    <3>6. QED BY <3>2, <3>5
  <2>2. CASE Look
    <3>1. PICK n, next : n = Last(s.frames).node /\ next = First(Last(s.frames).rest)
      OBVIOUS
    <3>2. PICK t : t = IF s.index[next] = Unseen THEN Entered(CursorMoves(s), next)
                       ELSE LoweredBy(CursorMoves(s), n, next)
      OBVIOUS
    <3>3. s.frames # <<>> /\ Last(s.frames).rest # {} /\ search' = t
      BY <1>4, <2>2, <3>1, <3>2 DEF Look
    <3>4. SearchStands(t, E)
      BY <1>2, <1>5, <3>1, <3>2, <3>3, LookStands
    <3>5. QED BY <3>3, <3>4
  <2>3. CASE Leave
    <3>1. PICK n : n = Last(s.frames).node
      OBVIOUS
    <3>2. PICK passed : passed = Passed(s, n)
      OBVIOUS
    <3>3. /\ s.frames # <<>> /\ Last(s.frames).rest = {}
          /\ search' = IF passed.low[n] = passed.index[n] THEN Reported(passed, n) ELSE passed
      BY <1>4, <2>3, <3>1, <3>2 DEF Leave, Passed
    <3>4. s \in Search /\ Numbered(s)
      BY <1>5 DEF SearchStands
    <3>5. PassesTo(s, n, passed)
      BY <3>1, <3>2, <3>3, <3>4, LeftIs
    <3>6. SearchStands(IF passed.low[n] = passed.index[n] THEN Reported(passed, n) ELSE passed, E)
      BY <1>2, <1>5, <3>1, <3>3, <3>5, LeaveStands
    <3>7. QED BY <3>3, <3>6
  <2>4. CASE Ask \/ Meet \/ UNCHANGED vars
    <3>1. search' = s
      BY <1>4, <2>4 DEF Ask, Meet, vars
    <3>2. QED BY <1>5, <3>1
  <2>5. QED BY <2>1, <2>2, <2>3, <2>4 DEF Next
<1>7. QED BY <1>1, <1>3, <1>6 DEF SearchInv

\* With no frame left, nothing is on the stack, and all that calls or is called is done.
LEMMA SearchEnds == SearchInv => CyclesAreTheComponents
<1> SUFFICES ASSUME SearchInv, search.frames = <<>>, Participants \subseteq Seen(search)
             PROVE  /\ Range(search.components) =
                         {Component(Calls, n) : n \in {m \in Nodes : m \in Reach(Calls, m)}}
                    /\ \A i, j \in DOMAIN search.components : i < j =>
                         \A n \in search.components[i] : Reach(Calls, n) \cap search.components[j] = {}
  BY DEF CyclesAreTheComponents
<1>1. Numbered(search) /\ PathsStand(search, Calls) /\ Reports(search, Calls)
  BY DEF SearchInv, SearchStands
<1>2. Framed(search) = {}
  BY DEF Framed, Range
<1>3. Stacked(search) = {}
  BY <1>1, <1>2 DEF PathsStand
<1>4. Done(search) = Seen(search) /\ Seen(search) \subseteq Nodes
  BY <1>3 DEF Done, Seen
<1>5. ASSUME NEW m \in Nodes, m \in Reach(Calls, m) PROVE m \in Done(search)
  <2>1. Targets(Calls, m) # {}
    BY <1>5, CycleHasTargets
  <2>2. PICK k \in Nodes : <<m, k>> \in Calls
    BY <2>1 DEF Targets
  <2>3. m \in Participants
    BY <2>2 DEF Participants
  <2>4. QED BY <1>4, <2>3
<1>6. {m \in Nodes : m \in Reach(Calls, m)} = {m \in Done(search) : m \in Reach(Calls, m)}
  BY <1>4, <1>5
<1>7. QED BY <1>1, <1>6 DEF Reports

\* What Tarjan's algorithm with frames reports, when it has answered, are the strongly
\* connected components that are cycles, each after everything it reaches.
THEOREM CyclesAreFound == Spec => []CyclesAreTheComponents
<1>1. Init => SearchInv
  BY SearchInit
<1>2. SearchInv /\ [Next]_vars => SearchInv'
  BY SearchNext
<1>3. SearchInv => CyclesAreTheComponents
  BY SearchEnds
<1>4. QED BY <1>1, <1>2, <1>3, PTL DEF Spec
=============================================================================
