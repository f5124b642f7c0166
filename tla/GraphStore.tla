----------------------------- MODULE GraphStore -----------------------------
(***************************************************************************)
(* A scan hands the graph it built to GraphStore of packages/graph, which  *)
(* opens the database and replaces what is in it in one transaction.       *)
(*                                                                         *)
(* SQLite is external: the keys of the schema are checked at the end of    *)
(* every statement (foreign_keys = ON, nothing deferred), a statement that *)
(* violates one fails and undoes the transaction, and so does the death of *)
(* the process or a full disk.  A row is [key, refs, of] with the keys it  *)
(* refers to and, in place of other columns, the number of the scan.        *)
(***************************************************************************)
EXTENDS GraphBuilder

CONSTANTS
  Inputs,            \* [universal, analyses] of the scans there may be
  Stored,            \* bound: those of scans that live to write, and of second scans
  Databases,         \* where a scan may write: "new", or of an earlier version "empty" or "written"
  MaxBuilds,         \* bound: graphs built
  MaxWrites,         \* bound: transactions begun
  MaxInterruptions   \* bound: processes killed, disks full

VARIABLES
  schema,            \* of the database: None, "current" or "other", an earlier version
  saved,             \* the rows of each table, as the file holds them
  tables,            \* and as the transaction sees them
  storing,           \* a scan's graph: [phase, input, graph, todo, why]
  counts             \* [builds, writes, interruptions] so far

vars == <<schema, saved, tables, storing, counts>>

-----------------------------------------------------------------------------
(* The schema *)

Tables ==
  {"repository", "revisions", "nodes", "regions", "region_languages", "region_ecosystems",
   "node_locations", "node_roles", "file_revisions", "edges", "unresolved_references"}

\* ON DELETE CASCADE from nodes.
Cascading == {"node_locations", "node_roles"}

Empty == [t \in Tables |-> {}]
Keys(ts, t) == {r.key : r \in ts[t]}
Upheld(ts) == \A t \in Tables : \A r \in ts[t] : \A f \in r.refs : f[2] \in Keys(ts, f[1])

Delete(table, spared) == [does |-> "delete", table |-> table, spared |-> spared]

\* Seeded fault: the languages of a region are not deleted before it.
WithoutRegionLanguages ==
  <<Delete("edges", {}), Delete("unresolved_references", {}), Delete("region_ecosystems", {}),
    Delete("regions", {}), Delete("node_roles", {}), Delete("node_locations", {}),
    Delete("file_revisions", {}), Delete("nodes", {"File"}), Delete("nodes", {}),
    Delete("revisions", {}), Delete("repository", {})>>

TruncateStatements ==
  <<Delete("edges", {}), Delete("unresolved_references", {}), Delete("region_languages", {}),
    Delete("region_ecosystems", {}), Delete("regions", {}), Delete("node_roles", {}),
    Delete("node_locations", {}), Delete("file_revisions", {}), Delete("nodes", {"File"}),
    Delete("nodes", {}), Delete("revisions", {}), Delete("repository", {})>>

\* Statement s on the tables; the rows of a table that are not spared go, and others with them.
After(ts, s) ==
  IF s.does = "insert" THEN [ts EXCEPT ![s.table] = @ \cup {s.row}]
  ELSE LET left == {r \in ts[s.table] : r.kind \in s.spared}
           gone == {<<s.table, r.key>> : r \in ts[s.table] \ left}
       IN  [t \in Tables |-> IF t = s.table THEN left
                             ELSE IF t \in Cascading THEN {r \in ts[t] : r.refs \cap gone = {}}
                             ELSE ts[t]]

Violates(ts, s) ==
  \/ s.does = "insert" /\ s.row.key \in Keys(ts, s.table)
  \/ ~Upheld(After(ts, s))

-----------------------------------------------------------------------------
(* #replaceAll *)

FilesFirst(nodes) ==
  LET IsFile(n) == n.kind = "File"
      IsOther(n) == n.kind # "File"
  IN  Selected(nodes, IsFile) \o Selected(nodes, IsOther)

Insert(table, key, kind, refs, scanned) ==
  <<[does |-> "insert", table |-> table,
     row |-> [key |-> key, kind |-> kind, refs |-> refs, of |-> scanned]]>>

Revision == <<"revisions", 1>>
ToNodes(ids) == {<<"nodes", id>> : id \in ids \ {None}}

NodeRows(n, scanned) ==
  Insert("nodes", n.id, n.kind, {Revision} \cup ToNodes({n.file, n.home}), scanned)
  \o FlattenSeq([i \in 1 .. n.places |->
                   Insert("node_locations", <<n.id, i>>, "", ToNodes({n.id}), scanned)])

FileRow(n, scanned) ==
  IF n.kind # "File" THEN <<>>
  ELSE Insert("file_revisions", n.id, "", {Revision} \cup ToNodes({n.id}), scanned)

EdgeRow(e, scanned) ==
  Insert("edges", e.id, "", {Revision} \cup ToNodes({e.source, e.target, e.home}), scanned)

ReferenceRow(r, scanned) ==
  Insert("unresolved_references", r.id, "", {Revision} \cup ToNodes({r.source, r.home}), scanned)

RoleRow(r, scanned) == Insert("node_roles", <<r.node, r.role>>, "", ToNodes({r.node}), scanned)

\* #writeRegions, of one of them.
RegionRows(r, scanned) ==
  LET Of(table, l) == Insert(table, <<r.path, l>>, "", {<<"regions", r.path>>}, scanned)
  IN  Insert("regions", r.path, "", {Revision}, scanned)
      \o Each(r.languages, LAMBDA l : Of("region_languages", l))
      \o Each(r.ecosystems, LAMBDA l : Of("region_ecosystems", l))

Replacement(g, scanned) ==
  TruncateStatements
  \o Insert("revisions", 1, "", {}, scanned)
  \o Insert("repository", 1, "", {}, scanned)
  \o Each(FilesFirst(g.nodes), LAMBDA n : NodeRows(n, scanned))
  \o Each(g.nodes, LAMBDA n : FileRow(n, scanned))
  \o Each(g.edges, LAMBDA e : EdgeRow(e, scanned))
  \o Each(g.unresolved, LAMBDA r : ReferenceRow(r, scanned))
  \o Each(g.roles, LAMBDA r : RoleRow(r, scanned))
  \o Each(g.regions, LAMBDA r : RegionRows(r, scanned))

-----------------------------------------------------------------------------
(* A scan *)

Idle == [phase |-> "idle", input |-> None, graph |-> None, todo |-> <<>>, why |-> None]
Ended(why) == [storing EXCEPT !.phase = "ended", !.todo = <<>>, !.why = why]

Written == [key |-> 1, kind |-> "", refs |-> {}, of |-> 0]

\* There is none, or one of an earlier version: with a graph or, its first write having failed,
\* with nothing.
Init ==
  /\ \E d \in Databases :
       /\ schema = IF d = "new" THEN None ELSE "other"
       /\ saved = IF d # "written" THEN Empty
                  ELSE [t \in Tables |-> IF t \in {"revisions", "repository"} THEN {Written} ELSE {}]
  /\ tables = saved
  /\ storing = Idle
  /\ counts = [builds |-> 0, writes |-> 0, interruptions |-> 0]

\* GraphBuilder.build: a graph that is not valid is never handed on.
Builds(input) ==
  /\ storing.phase \in {"idle", "ended"}
  /\ counts.builds < MaxBuilds
  /\ counts.builds = 0 \/ input \in Stored
  /\ \E g \in {Build(input.universal, input.analyses)} :
       \E valid \in {ValidateGraph(g)} :
         storing' = [phase |-> IF valid THEN "built" ELSE "ended", input |-> input, graph |-> g,
                  todo |-> <<>>, why |-> IF valid THEN None ELSE "invalid"]
  /\ counts' = [counts EXCEPT !.builds = @ + 1]
  /\ UNCHANGED <<schema, saved, tables>>

\* GraphStore.open: the schema is created, or compared by the version of the one row there is.
Opens ==
  /\ storing.phase = "built" /\ storing.input \in Stored
  /\ counts.writes < MaxWrites
  /\ counts' = [counts EXCEPT !.writes = @ + 1]
  /\ IF schema = "other" /\ saved["repository"] # {}
     THEN storing' = Ended("version") /\ UNCHANGED schema
     ELSE /\ schema' = IF schema = None THEN "current" ELSE schema
          /\ storing' = [storing EXCEPT !.phase = "open"]
  /\ UNCHANGED <<saved, tables>>

\* GraphStore.write.
Begins ==
  /\ storing.phase = "open"
  /\ storing' = [storing EXCEPT !.phase = "writing", !.todo = Replacement(storing.graph, counts.builds)]
  /\ UNCHANGED <<schema, saved, tables, counts>>

\* Seeded fault: every statement is a transaction of its own.
ExecutesAlone ==
  /\ storing.phase = "writing" /\ storing.todo # <<>>
  /\ LET s == Head(storing.todo)
     IN  IF Violates(tables, s)
         THEN storing' = Ended("constraint") /\ UNCHANGED <<saved, tables>>
         ELSE /\ storing' = [storing EXCEPT !.todo = Tail(@)]
              /\ tables' = After(tables, s)
              /\ saved' = tables'
  /\ UNCHANGED <<schema, counts>>

\* The next statement; an earlier schema has no column for what the nodes hold.
Executes ==
  /\ storing.phase = "writing" /\ storing.todo # <<>>
  /\ LET s == Head(storing.todo)
         fails == IF schema = "other" /\ s.does = "insert" /\ s.table = "nodes" THEN "schema"
                  ELSE IF Violates(tables, s) THEN "constraint" ELSE None
     IN  IF fails = None
         THEN storing' = [storing EXCEPT !.todo = Tail(@)] /\ tables' = After(tables, s)
         ELSE storing' = Ended(fails) /\ tables' = saved
  /\ UNCHANGED <<schema, saved, counts>>

Commits ==
  /\ storing.phase = "writing" /\ storing.todo = <<>>
  /\ saved' = tables
  /\ storing' = Ended(None)
  /\ UNCHANGED <<schema, tables, counts>>

Interrupted ==
  /\ storing.phase \in {"open", "writing"}
  /\ counts.interruptions < MaxInterruptions
  /\ counts' = [counts EXCEPT !.interruptions = @ + 1]
  /\ tables' = saved
  /\ storing' = Ended("interrupted")
  /\ UNCHANGED <<schema, saved>>

Next ==
  \/ \E input \in Inputs : Builds(input)
  \/ Opens
  \/ Begins
  \/ Executes
  \/ Commits
  \/ Interrupted

Spec == Init /\ [][Next]_vars

-----------------------------------------------------------------------------
(* What the graph says of what was found *)

U         == storing.input.universal
Analyses  == storing.input.analyses
Found(field) == ToSet(Gathered(Analyses, field))
IsBuilt   == storing.phase = "built" \/ storing.why = "invalid"
EdgesOf(g) == ToSet(g.edges)
NodesOf(g) == ToSet(g.nodes)
RowsOf(g)  == ToSet(g.unresolved)

\* An absent edge is an absent fact: every call and relationship, every handler and every read
\* of an analyser is an edge from where it was found, to each of its targets, or a row that says
\* why it is none.
NothingFoundGoesUnsaid ==
  IsBuilt =>
    LET Told(type, source, at) ==
          \/ \E e \in EdgesOf(storing.graph) : e.type = type /\ e.source = source /\ Last(e.id) = at
          \/ \E r \in RowsOf(storing.graph) : r.type = type /\ r.source = source /\ Last(r.id) = at
        related == Gathered(Analyses, "relationships")
    IN  /\ \A c \in Found("calls") \cup Found("externalCalls") \cup Found("unbound") :
             Told("CALLS", c.source, c.at)
        /\ \A i \in DOMAIN related :
             LET r == related[i]
             IN  \E e \in EdgesOf(storing.graph) :
                   /\ e.type = r.type /\ e.source = r.source /\ e.target = TargetIdentity(r)
                   /\ Last(e.id) = r.at
        /\ \A r \in Found("unresolved") : Told(r.type, r.source, r.at)
        /\ \A v \in Found("reads") : Told("READS", v.source, v.at)
        /\ \A r \in Found("routes") :
             IF IsAbsolute(r.path)
             THEN r.handlers # <<>> => Told("HANDLED_BY", RouteId(r.method, r.path), r.at)
             ELSE Told("HANDLED_BY", r.source, r.at)

\* Analysers read files of their own, so what each of them found is accepted together if it is
\* accepted alone: one of them never costs the graph of another.
AnalysersDoNotCollide ==
  IsBuilt =>
    LET Accepted(analyses) == \A g \in {Build(U, analyses)} : ValidateGraph(g)
    IN  Accepted(<<>>) /\ (\A i \in DOMAIN Analyses : Accepted(<<Analyses[i]>>))
        => storing.why # "invalid"

Unnamed(n) == [n EXCEPT !.name = <<>>]

\* Empty segments inside a path are nothing to the identifier of a route, but are compared when a
\* request is linked to it.
SpelledAlike ==
  \A r, s \in Found("routes") :
    RouteId(r.method, r.path) = RouteId(s.method, s.path) => Normalise(r.path) = Normalise(s.path)

\* It is the same graph in whichever order the analysers ran, but for the name of a route and, where
\* routes of one identifier are spelled differently, the requests that continue to it.
OrderOfAnalysersIsImmaterial ==
  IsBuilt =>
    LET Regardless(e) == e.type = "CONTINUES_TO" => SpelledAlike
    IN  \A g \in {Build(U, Reverse(Analyses))} :
          /\ {Unnamed(n) : n \in NodesOf(g)} = {Unnamed(n) : n \in NodesOf(storing.graph)}
          /\ {e \in EdgesOf(g) : Regardless(e)} = {e \in EdgesOf(storing.graph) : Regardless(e)}
          /\ Ids(g.unresolved) = Ids(storing.graph.unresolved)

-----------------------------------------------------------------------------
(* What the database holds *)

\* A graph that was validated violates no key of the schema: no scan fails in its last step.
AcceptedGraphsAreStored == storing.why # "constraint"

\* What is in the file is one whole graph: it changes only from all rows of one scan to all rows
\* of the next, whatever fails in between.
ReplacedAsAWhole ==
  [][saved' # saved =>
       LET statements == Replacement(storing.graph, counts.builds)
           Inserts(t) == {i \in DOMAIN statements : statements[i].does = "insert" /\ statements[i].table = t}
       IN  saved' = [t \in Tables |-> {statements[i].row : i \in Inserts(t)}]]_vars

-----------------------------------------------------------------------------
(* What comments of the source say of it *)

\* graph-builder.ts: the edges follow the rule that a fact recorded twice is one fact.
OneFactIsOneEdge == IsBuilt => Distinct(storing.graph.edges)
=============================================================================
