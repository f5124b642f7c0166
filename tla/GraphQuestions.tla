---------------------------- MODULE GraphQuestions ----------------------------
(***************************************************************************)
(* The whole-graph questions the API answers, as the loops that answer     *)
(* them: packages/health/src/graph-algorithms.ts (Tarjan's components with *)
(* frames instead of recursion, and the depth from the entry points),      *)
(* packages/impact/src/dependents-closure.ts with the analyser around it,  *)
(* and reachableFrom of packages/explorer/src/listing.ts.                  *)
(*                                                                         *)
(* A node is its rank in the order of identifiers, the order every list of *)
(* the graph API comes in, so a list of neighbours is the set of them,     *)
(* taken least first.  One step is one turn of a loop.  Several edges      *)
(* between two nodes are one: each walk passes over a neighbour it has     *)
(* seen, and the adjacency of the health index holds distinct pairs.       *)
(***************************************************************************)
EXTENDS Naturals, Sequences, FiniteSets, SequencesExt

CONSTANTS N,                 \* how many nodes
          Repositories       \* graphs: [edges |-> ..., kind |-> ...]

Nodes == 1 .. N
Kinds == {"declaration", "leaf", "route"}      \* a leaf refers but is not followed

\* Nothing refers to a route (the endpoint matrix of packages/graph/src/constraints.ts).
ASSUME GraphsAssumption ==
  /\ N \in Nat \ {0}
  /\ \A r \in Repositories :
       /\ r.edges \subseteq Nodes \X Nodes /\ r.kind \in [Nodes -> Kinds]
       /\ \A e \in r.edges : r.kind[e[2]] # "route"

VARIABLES repository, question,
          search,            \* Tarjan's state
          walk               \* a breadth-first walk's

vars == <<repository, question, search, walk>>

-----------------------------------------------------------------------------
(* What the questions are asked of *)

Declared(n) == repository.kind[n] = "declaration"

\* The call adjacency of the health index: calls are between declarations.
Calls == {e \in repository.edges : Declared(e[1]) /\ Declared(e[2])}

First(S)      == CHOOSE n \in S : \A m \in S : n <= m
Targets(E, n) == {m \in Nodes : <<n, m>> \in E}
Sources(E, n) == {m \in Nodes : <<m, n>> \in E}

\* orderedParticipants, and those of them nothing calls.
Participants == {n \in Nodes : \E e \in Calls : n \in {e[1], e[2]}}
Roots        == {n \in Participants : Sources(Calls, n) = {}}

-----------------------------------------------------------------------------
(* stronglyConnectedComponents *)

Unseen == 0
Seen(s) == {n \in Nodes : s.index[n] # Unseen}
OnStack(s, n) == n \in Range(s.stack)
Least(a, b) == IF a < b THEN a ELSE b

\* A node gets the next index and a frame with its neighbours still to look at.
Entered(s, n) ==
  LET i == Cardinality(Seen(s)) + 1
  IN [s EXCEPT !.index[n] = i, !.low[n] = i, !.stack = Append(@, n),
               !.frames = Append(@, [node |-> n, rest |-> Targets(Calls, n)])]

Lowered(s, n, to) == [s EXCEPT !.low[n] = Least(@, to)]

\* Seeded fault: an edge into a component already reported counts as one back.
LoweredByAny(s, n, m) == Lowered(s, n, s.index[m])

\* Only what is still on the stack can be in the same component.
LoweredBy(s, n, m) == IF OnStack(s, m) THEN Lowered(s, n, s.index[m]) ELSE s

\* The part of the stack from n on leaves it; alone, it is a cycle if it calls itself.
Reported(s, n) ==
  LET at        == CHOOSE i \in DOMAIN s.stack : s.stack[i] = n
      component == Range(SubSeq(s.stack, at, Len(s.stack)))
  IN [s EXCEPT !.stack = SubSeq(@, 1, at - 1),
               !.components = IF component # {n} \/ <<n, n>> \in Calls
                                THEN Append(@, component) ELSE @]

\* Seeded fault: the cursor of the frame stays where it is.
CursorStays(s) == s

CursorMoves(s) == [s EXCEPT !.frames[Len(s.frames)].rest = @ \ {First(@)}]

StartSearch ==
  /\ question = "cycles" /\ search.frames = <<>>
  /\ Participants \ Seen(search) # {}
  /\ search' = Entered(search, First(Participants \ Seen(search)))
  /\ UNCHANGED <<repository, question, walk>>

Look ==
  /\ search.frames # <<>>
  /\ LET frame == Last(search.frames)
         next  == First(frame.rest)
         moved == CursorMoves(search)
     IN /\ frame.rest # {}
        /\ search' = IF search.index[next] = Unseen THEN Entered(moved, next)
                     ELSE LoweredBy(moved, frame.node, next)
  /\ UNCHANGED <<repository, question, walk>>

\* The frame is done: its low link goes to its parent, and a root of a component
\* reports it.
Leave ==
  /\ search.frames # <<>> /\ Last(search.frames).rest = {}
  /\ LET n      == Last(search.frames).node
         left   == [search EXCEPT !.frames = Front(@)]
         passed == IF left.frames = <<>> THEN left
                   ELSE Lowered(left, Last(left.frames).node, left.low[n])
     IN search' = IF passed.low[n] = passed.index[n] THEN Reported(passed, n) ELSE passed
  /\ UNCHANGED <<repository, question, walk>>

-----------------------------------------------------------------------------
(* The breadth-first walks *)

\* Impact goes against the edges; dependencies and depth go along them.
Neighbours(n) ==
  IF question = "impact" THEN Sources(repository.edges, n)
  ELSE IF question = "depth" THEN Targets(Calls, n) ELSE Targets(repository.edges, n)

\* isExpandable; the other two walks follow whatever they reach.
Followed(n) == question = "impact" => Declared(n)

\* Seeded fault: the node found last is followed first.
QueuedFirst(queue, entry) == <<entry>> \o queue

Queued(queue, entry) == Append(queue, entry)

\* The next of the queue is asked for its neighbours.
Ask ==
  /\ walk.rest = {} /\ walk.queue # <<>>
  /\ walk' = [walk EXCEPT !.now = Head(walk.queue), !.queue = Tail(@), !.asked = @ + 1,
                          !.rest = Neighbours(Head(walk.queue).id)]
  /\ UNCHANGED <<repository, question, search>>

\* What is new is found one step further, and queued if it is followed; a route is
\* noted with what it reaches, each time one is met.
Meet ==
  /\ walk.rest # {}
  /\ LET next  == First(walk.rest)
         entry == [id |-> next, depth |-> walk.now.depth + 1]
         moved == [walk EXCEPT !.rest = @ \ {next}]
     IN walk' = IF repository.kind[next] = "route"
                  THEN [moved EXCEPT !.routes = @ \cup {<<next, walk.now.id>>}]
                ELSE IF next \in walk.visited THEN moved
                ELSE [moved EXCEPT !.visited = @ \cup {next}, !.found = Append(@, entry),
                                   !.queue = IF Followed(next) THEN Queued(@, entry) ELSE @]
  /\ UNCHANGED <<repository, question, search>>

-----------------------------------------------------------------------------
NoSearch == [index |-> [n \in Nodes |-> Unseen], low |-> [n \in Nodes |-> Unseen],
             stack |-> <<>>, frames |-> <<>>, components |-> <<>>]
NoEntry  == [id |-> Unseen, depth |-> 0]

\* All starts are queued, in the order of a list of them.
WalkFrom(starts) ==
  [queue |-> [i \in DOMAIN starts |-> [id |-> starts[i], depth |-> 0]],
   now |-> NoEntry, rest |-> {}, visited |-> Range(starts),
   found |-> <<>>, routes |-> {}, asked |-> 0]

\* A set in the order of the graph API.
Listed(S) == {list \in [1 .. Cardinality(S) -> S] :
                /\ Range(list) = S
                /\ \A i, j \in 1 .. Cardinality(S) : i < j => list[i] < list[j]}

\* analyze() returns null unless the target is a declaration.
Init ==
  /\ repository \in Repositories
  /\ search = NoSearch
  /\ \/ question = "cycles" /\ walk = WalkFrom(<<>>)
     \/ question = "depth"  /\ \E list \in Listed(Roots) : walk = WalkFrom(list)
     \/ question = "impact" /\ \E n \in Nodes : Declared(n) /\ walk = WalkFrom(<<n>>)
     \/ question = "dependencies" /\ \E n \in Nodes : walk = WalkFrom(<<n>>)

Next == StartSearch \/ Look \/ Leave \/ Ask \/ Meet

Spec == Init /\ [][Next]_vars /\ WF_vars(Next)
-----------------------------------------------------------------------------
(* Properties *)

\* What can be reached from n in one step or more: what is in every set that has the
\* targets of n and of all its members.
Closed(E, S) == \A n \in S : Targets(E, n) \subseteq S
Reach(E, n)  == {m \in Nodes : \A S \in SUBSET Nodes :
                                 Targets(E, n) \subseteq S /\ Closed(E, S) => m \in S}

Component(E, n) == {n} \cup {m \in Reach(E, n) : n \in Reach(E, m)}

\* The cycles reported are the strongly connected components, no more and no fewer,
\* and each comes after everything it reaches, so that the order carries information.
CyclesAreTheComponents ==
  question = "cycles" /\ search.frames = <<>> /\ Participants \subseteq Seen(search) =>
    /\ Range(search.components) =
         {Component(Calls, n) : n \in {m \in Nodes : m \in Reach(Calls, m)}}
    /\ \A i, j \in DOMAIN search.components : i < j =>
         \A n \in search.components[i] : Reach(Calls, n) \cap search.components[j] = {}

Ids(entries)    == {entry.id : entry \in Range(entries)}
Starts          == walk.visited \ Ids(walk.found)
FoundAt(n, k)   == [id |-> n, depth |-> k] \in Range(walk.found)
IsRoute(n)      == repository.kind[n] = "route"

\* The ways from a start, over what is followed, to its neighbour k steps away.
Trails(k) ==
  {p \in [1 .. k -> Nodes] :
     /\ \E s \in Starts : p[1] \in Neighbours(s)
     /\ \A i \in 2 .. k : Followed(p[i - 1]) /\ p[i] \in Neighbours(p[i - 1])}
Ends(k) == {p[k] : p \in Trails(k)}

\* A walk finds each node it can reach once and at its shortest distance, nearest first;
\* an impact follows dependents only through what can break in its turn, and knows every
\* route into what it followed.  One query is spent on each node followed.
WalksFindEveryNodeOnce ==
  question # "cycles" /\ walk.queue = <<>> /\ walk.rest = {} =>
    LET followed == {n \in walk.visited : Followed(n)}
    IN /\ \A k \in 1 .. N :
            {n \in Nodes : FoundAt(n, k)} =
               {n \in Ends(k) : ~IsRoute(n)} \ (Starts \cup UNION {Ends(j) : j \in 1 .. k - 1})
       /\ Cardinality(Ids(walk.found)) = Len(walk.found)
       /\ \A i, j \in DOMAIN walk.found : i < j => walk.found[i].depth <= walk.found[j].depth
       /\ walk.asked = Cardinality(followed)
       /\ walk.routes = {p \in Nodes \X followed : p[1] \in Neighbours(p[2]) /\ IsRoute(p[1])}

\* Every question is answered, whatever cycles the graph has.
EveryQuestionIsAnswered == 
  <>[](search.frames = <<>> /\ walk.queue = <<>> /\ walk.rest = {})
=============================================================================
