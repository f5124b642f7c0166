---------------------------- MODULE GraphBuilder ----------------------------
(***************************************************************************)
(* The graph builder of packages/graph: the universal facts of a           *)
(* repository and what the language analysers found become the rows of one *)
(* graph, which is validated as a whole.                                   *)
(*                                                                         *)
(* An identifier is a sequence of strings, its parts in their order; a     *)
(* name is one too, <<>> where the code has null.  A path of a route or a  *)
(* request is the sequence of its segments, the first one empty when it    *)
(* begins with a slash and the last one empty when it ends with one.       *)
(* Methods are written in upper case, a request comes without its query,   *)
(* and of a node the attributes no rule reads are left out.  Maps keyed by *)
(* identifier are emptied in the order of insertion: the code sorts them.  *)
(*                                                                         *)
(* A node is [id, kind, file, home, confidence, name, places] with the     *)
(* file of its provenance as home and the number of its locations; an edge *)
(* [id, type, source, target, home]; an unresolved reference [id, type,    *)
(* source, home].                                                          *)
(***************************************************************************)
EXTENDS ArtifactReaders

CONSTANTS
  Unaddressable,     \* names of variables no identifier can carry
  Parameters         \* segments of a path that are parameters or look like the value of one

Gathered(analyses, field) == FlattenSeq([i \in DOMAIN analyses |-> analyses[i][field]])
Ids(rows) == {rows[i].id : i \in DOMAIN rows}
ById(row) == row.id

-----------------------------------------------------------------------------
(* Identity and trust *)

FileId(path)             == <<"file", path>>
SymbolId(path, chain)    == <<"sym", path>> \o chain
ManifestId(path)         == <<"manifest", path>>
DependencyId(eco, name)  == <<"dep", eco>> \o name
TechnologyId(t)          == <<"tech", t.region, t.id>>
VariableId(name)         == <<"env">> \o name
ElementId(path, e)       == <<"art", path, e.kind>> \o e.section \o <<":">> \o e.name
RouteId(method, path) ==
  LET Filled(segment) == segment # "" IN <<"route", method>> \o Selected(path, Filled)

IsAbsolute(path) == Len(path) > 1 /\ Head(path) = ""

\* An external is a kind, and a name where one is known; a built-in is known by the reference.
External(kind, name) == <<"ext", kind>> \o name
ExternalId(target, reference) ==
  CASE target.origin = "package" ->
         External(IF target.ecosystem = None THEN "npm" ELSE target.ecosystem, target.name)
    [] target.origin = "standard-library" /\ target.ecosystem = "npm" ->
         External("node", IF target.name # <<>> /\ Head(target.name) = "node:"
                          THEN Tail(target.name) ELSE target.name)
    [] target.origin = "standard-library" -> External("stdlib", target.name)
    [] target.origin = "language-builtin" -> External("builtin", reference)
    [] OTHER                              -> External("outside-analysis", <<>>)

ConfidenceOrder == <<"CERTAIN", "RESOLVED", "INFERRED", "AMBIGUOUS">>
Rank(confidence) == CHOOSE i \in 1 .. 4 : ConfidenceOrder[i] = confidence
Strongest(confidences) == CHOOSE c \in confidences : \A d \in confidences : Rank(c) <= Rank(d)

Node(id, kind, file, home, confidence, name, places) ==
  [id |-> id, kind |-> kind, file |-> file, home |-> home,
   confidence |-> confidence, name |-> name, places |-> places]

Row(id, type, source, home) == [id |-> id, type |-> type, source |-> source, home |-> home]

EdgeOf(id, type, source, target, home) ==
  [id |-> id, type |-> type, source |-> source, target |-> target, home |-> home]

\* The identity of an edge names the place of the reference.
Edge(type, source, target, name, home, at) ==
  EdgeOf(<<type, source, target, name, home, at>>, type, source, target, home)

\* Seeded faults: a node that several references introduce is in the file of the first; is one
\* node for each.
PooledInTheFirstFile(rows) ==
  LET Of(first) ==
        <<[first EXCEPT !.confidence = Strongest({r.confidence : r \in {x \in ToSet(rows) : x.id = first.id}})]>>
  IN  Each(FirstOfEach(rows, ById), Of)

Unpooled(rows) == rows

\* It is as certain as the best of them, and in no file when they are in several.
Pooled(rows) ==
  LET Of(first) ==
        LET Same(r) == r.id = first.id
            all     == Selected(rows, Same)
            alone   == \A r \in ToSet(all) : r.file = first.file
        IN  <<[first EXCEPT !.confidence = Strongest({r.confidence : r \in ToSet(all)}),
                            !.file = IF alone THEN @ ELSE None,
                            !.home = IF alone THEN @ ELSE None,
                            !.places = @ * Len(all)]>>
  IN  Each(FirstOfEach(rows, ById), Of)

-----------------------------------------------------------------------------
(* What needs no analyser *)

FileNode(path) == <<Node(FileId(path), "File", None, FileId(path), "CERTAIN", <<path>>, 0)>>

ManifestNodes(m) ==
  LET Dependency(name) ==
        <<Node(DependencyId(m.ecosystem, name), "Dependency", None, FileId(m.path), "INFERRED", name, 0)>>
  IN  <<Node(ManifestId(m.path), "Manifest", FileId(m.path), FileId(m.path), "CERTAIN", <<m.path>>, 0)>>
      \o Each(m.dependencies, Dependency)

TechnologyNode(t) ==
  LET proof == IF t.evidence = <<>> THEN None ELSE FileId(Head(t.evidence))
  IN  <<Node(TechnologyId(t), "Technology", proof, proof, t.confidence, t.name, 0)>>

DependencyEdges(m) ==
  LET On(name) ==
        LET source == ManifestId(m.path)
            target == DependencyId(m.ecosystem, name)
        IN  <<EdgeOf(<<"DEPENDS_ON", source, target>>, "DEPENDS_ON", source, target, FileId(m.path))>>
  IN  Each(m.dependencies, On)

-----------------------------------------------------------------------------
(* translateArtifacts *)

\* Of the elements of one kind and name only the first is kept.
KeptElements(a) == LET NameKey(e) == <<e.kind, e.name>> IN FirstOfEach(a.elements, NameKey)

Called(a, name) ==
  LET Named(e) == e.name = name
      called   == Selected(KeptElements(a), Named)
  IN  IF called = <<>> THEN None ELSE ElementId(a.path, Head(called))

OfKind(a, kind, name) ==
  LET Is(e) == e.kind = kind /\ e.name = name
      named == Selected(KeptElements(a), Is)
  IN  IF named = <<>> THEN None ELSE ElementId(a.path, Head(named))

ArtifactEdge(type, from, source, target, a) ==
  <<EdgeOf(<<type, from, target>>, type, source, target, FileId(a.path))>>

ElementNodes(a) ==
  LET Of(e) == <<Node(ElementId(a.path, e), "ArtifactElement", FileId(a.path), FileId(a.path),
                      "CERTAIN", e.name, 0)>>
  IN  Each(KeptElements(a), Of)

ContainsEdges(a) ==
  LET Of(e) == ArtifactEdge("CONTAINS", FileId(a.path), FileId(a.path), ElementId(a.path, e), a)
  IN  Each(KeptElements(a), Of)

\* A prerequisite is an element of the same kind, or else any of its name, but never the one
\* that needs it.
Prerequisite(a, e, need) ==
  LET target == IF OfKind(a, e.kind, need) # None THEN OfKind(a, e.kind, need) ELSE Called(a, need)
  IN  IF target = OfKind(a, e.kind, e.name) THEN None ELSE target

PrerequisiteEdges(a) ==
  LET Of(e) ==
        LET from == OfKind(a, e.kind, e.name)
            On(need) == IF Prerequisite(a, e, need) = None THEN <<>>
                        ELSE ArtifactEdge("DEPENDS_ON", from, from, Prerequisite(a, e, need), a)
        IN  Each(e.requires, On)
  IN  Each(a.elements, Of)

PrerequisitesMissing(a) ==
  LET Of(e) ==
        LET from == OfKind(a, e.kind, e.name)
            On(need) == IF Prerequisite(a, e, need) # None THEN <<>>
                        ELSE <<Row(<<"DEPENDS_ON", from, need>>, "DEPENDS_ON", from, FileId(a.path))>>
        IN  Each(e.requires, On)
  IN  Each(a.elements, Of)

\* Where a reference comes from, and the file it means: the first of its candidates there is.
Source(a, r) ==
  IF r.element = None \/ Called(a, r.element) = None THEN FileId(a.path) ELSE Called(a, r.element)

Resolved(u, r) ==
  LET Exists(p) == p \in ToSet(u.files)
      found     == Selected(r.candidates, Exists)
  IN  IF found = <<>> THEN None ELSE FileId(Head(found))

Configured(u, a, r) ==
  LET Proven(t) == a.path \in ToSet(t.evidence) /\ t.name = r.text
      proven    == Selected(u.technologies, Proven)
  IN  IF proven = <<>> THEN None ELSE TechnologyId(Last(proven))

ReferenceType(a, r) ==
  CASE r.kind = "command"                                -> "RUNS"
    [] r.kind = "link" /\ a.kind = "documentation"       -> "DOCUMENTS"
    [] OTHER                                             -> "REFERENCES"

ReferenceEdges(u, a) ==
  LET From(r) == IF ReferenceType(a, r) = "DOCUMENTS" THEN FileId(a.path) ELSE Source(a, r)
      Of(r) ==
        CASE r.kind = "technology" ->
               IF Configured(u, a, r) = None THEN <<>>
               ELSE ArtifactEdge("CONFIGURES", FileId(a.path), FileId(a.path), Configured(u, a, r), a)
          [] r.kind = "environment" ->
               IF r.text \in Unaddressable THEN <<>>
               ELSE ArtifactEdge("USES_ENV", Source(a, r), Source(a, r), VariableId(r.text), a)
          [] OTHER ->
               IF Resolved(u, r) = None THEN <<>>
               ELSE ArtifactEdge(ReferenceType(a, r), Source(a, r), From(r), Resolved(u, r), a)
  IN  Each(a.references, Of)

\* The row of a path that no file matches is identified as a reference whatever its type.
ReferencesMissing(u, a) ==
  LET Of(r) ==
        CASE r.kind = "technology" -> <<>>
          [] r.kind = "environment" ->
               IF r.text \in Unaddressable
               THEN <<Row(<<"USES_ENV", FileId(a.path), r.text>>, "USES_ENV", FileId(a.path), FileId(a.path))>>
               ELSE <<>>
          [] OTHER ->
               IF Resolved(u, r) # None THEN <<>>
               ELSE <<Row(<<"REFERENCES", FileId(a.path), r.text, r.line>>,
                          IF r.kind = "command" THEN "RUNS" ELSE "REFERENCES", Source(a, r), FileId(a.path))>>
  IN  Each(a.references, Of)

\* The variables an artefact supplies, those an analyser found being there already.
SuppliedVariables(u, read) ==
  LET Of(a) ==
        LET Variable(r) ==
              IF r.kind = "environment" /\ r.text \notin Unaddressable \cup read
              THEN <<Node(VariableId(r.text), "EnvironmentVariable", None, FileId(a.path), "CERTAIN", r.text, 0)>>
              ELSE <<>>
        IN  Each(a.references, Variable)
  IN  FirstOfEach(Each(u.artifacts, Of), ById)

ArtifactEdges(u) ==
  LET Of(a) == ContainsEdges(a) \o PrerequisiteEdges(a) \o ReferenceEdges(u, a)
  IN  FirstOfEach(Each(u.artifacts, Of), ById)

ArtifactsMissing(u) ==
  LET Of(a) == PrerequisitesMissing(a) \o ReferencesMissing(u, a) IN Each(u.artifacts, Of)

-----------------------------------------------------------------------------
(* Declarations, relationships and calls *)

DeclarationId(d) == SymbolId(d.file, d.chain)

DeclarationNode(d) ==
  <<Node(DeclarationId(d), d.kind, FileId(d.file), FileId(d.file), "CERTAIN", d.chain, Len(d.at))>>

\* The closest declaration around it that there is, else its file.
DeclaringNodeIdOf(d, declared) ==
  LET around == {n \in 1 .. Len(d.chain) - 1 : SymbolId(d.file, SubSeq(d.chain, 1, n)) \in declared}
  IN  IF around = {} THEN FileId(d.file)
      ELSE SymbolId(d.file, SubSeq(d.chain, 1, CHOOSE n \in around : \A m \in around : m <= n))

DeclaresEdges(declarations) ==
  LET declared == {DeclarationId(d) : d \in ToSet(declarations)}
      Of(d) == <<Edge("DECLARES", DeclaringNodeIdOf(d, declared), DeclarationId(d), <<>>,
                      FileId(d.file), Head(d.at))>>
  IN  Each(declarations, Of)

\* A target is the node id it names, or an external [origin, ecosystem, name].
TargetIdentity(r) == IF r.external THEN ExternalId(r.target, r.name) ELSE r.target

RelationshipEdge(r) ==
  <<Edge(r.type, r.source, TargetIdentity(r), r.name, r.home, r.at)>>

CallEdge(c) == <<Edge("CALLS", c.source, c.target, c.name, c.home, c.at)>>
ExternalCallEdge(c) ==
  <<Edge("CALLS", c.source, ExternalId(c.target, c.name), c.name, c.home, c.at)>>

\* The externals that relationships and calls lead to.
RegisterExternals(relationships, externalCalls) ==
  LET Introduced(id, confidence) == <<Node(id, "External", None, None, confidence, Tail(id), 0)>>
      OfRelationship(r) == IF r.external THEN Introduced(TargetIdentity(r), r.confidence) ELSE <<>>
      OfCall(c) == Introduced(ExternalId(c.target, c.name), c.confidence)
  IN  Pooled(Each(relationships, OfRelationship) \o Each(externalCalls, OfCall))

UnresolvedRow(r) ==
  <<Row(<<r.type, r.source, r.name, r.reason, r.home, r.at>>, r.type, r.source, r.home)>>

\* Seeded fault: a call that was not bound is left out.
DropsUnboundCalls(c) == <<>>

UnresolvedCall(c) == <<Row(<<"CALLS", c.source, c.name, c.home, c.at>>, "CALLS", c.source, c.home)>>

-----------------------------------------------------------------------------
(* translateAnnotations *)

\* A route [method, path, handlers, confidence, home, at] and its handlers [target, name], None
\* where no declaration was linked.
RouteNode(r) ==
  IF ~IsAbsolute(r.path) THEN <<>>
  ELSE <<Node(RouteId(r.method, r.path), "Route", r.home, r.home, r.confidence,
              <<r.method>> \o r.path, 1)>>

HandledBy(r) ==
  LET Linked(h) == h.target # None
      Target(h) == h.target
      Of(h) == <<Edge("HANDLED_BY", RouteId(r.method, r.path), h.target, h.name, r.home, r.at)>>
  IN  IF IsAbsolute(r.path) THEN Each(FirstOfEach(Selected(r.handlers, Linked), Target), Of) ELSE <<>>

HandlersMissing(r) ==
  LET id == RouteId(r.method, r.path)
      Of(h) == IF h.target # None THEN <<>>
               ELSE <<Row(<<"HANDLED_BY", id, h.name, r.at>>, "HANDLED_BY", id, r.home)>>
  IN  IF IsAbsolute(r.path) THEN Each(r.handlers, Of)
      ELSE <<Row(<<"HANDLED_BY", r.home, <<r.method>> \o r.path, r.at>>, "HANDLED_BY", r.source, r.home)>>

\* A read [name, source, confidence, home, at] of a variable.
VariableNode(v) ==
  IF v.name \in Unaddressable THEN <<>>
  ELSE <<Node(VariableId(v.name), "EnvironmentVariable", None, None, v.confidence, v.name, 1)>>

Reads(v) ==
  IF v.name \in Unaddressable THEN <<>>
  ELSE <<Edge("READS", v.source, VariableId(v.name), v.name, v.home, v.at)>>

ReadsMissing(v) ==
  IF v.name \notin Unaddressable THEN <<>>
  ELSE <<Row(<<"READS", v.home, v.name, v.at>>, "READS", v.source, v.home)>>

\* Roles [node, role], each once.
DistinctRoles(roles) == LET Itself(r) == r IN FirstOfEach(roles, Itself)

-----------------------------------------------------------------------------
(* linkClientCallsToRoutes: a request [method, path, source, home, at] *)

Normalise(path) ==
  LET Filled(segment) == segment # ""
      trimmed == IF path = <<"", "">> THEN path ELSE SubSeq(path, 1, SelectLastInSeq(path, Filled))
  IN  [i \in DOMAIN trimmed |-> IF trimmed[i] \in Parameters THEN "*" ELSE trimmed[i]]

LinkClientCallsToRoutes(requests, routes) ==
  LET Of(q) ==
        LET Serves(n) == /\ Normalise(Tail(n.name)) = Normalise(q.path)
                         /\ q.method = None \/ Head(n.name) \in {q.method, "ALL"}
            To(n) == <<Edge("CONTINUES_TO", q.source, n.id, q.path, q.home, q.at)>>
        IN  IF IsAbsolute(q.path) THEN Each(Selected(routes, Serves), To) ELSE <<>>
  IN  FirstOfEach(Each(requests, Of), ById)

-----------------------------------------------------------------------------
(* GraphBuilder.build *)

DedupeUnresolved(rows) == FirstOfEach(rows, ById)

Build(u, analyses) ==
  LET declarations  == Gathered(analyses, "declarations")
      relationships == Gathered(analyses, "relationships")
      externalCalls == Gathered(analyses, "externalCalls")
      routes        == Gathered(analyses, "routes")
      reads         == Gathered(analyses, "reads")
      routeNodes    == Pooled(Each(routes, RouteNode))
  IN [nodes |-> Each(u.files, FileNode)
                \o FirstOfEach(Each(u.manifests, ManifestNodes), ById)
                \o Each(u.technologies, TechnologyNode)
                \o Each(u.artifacts, ElementNodes)
                \o SuppliedVariables(u, {v.name : v \in ToSet(reads)})
                \o Each(declarations, DeclarationNode)
                \o RegisterExternals(relationships, externalCalls)
                \o routeNodes
                \o Pooled(Each(reads, VariableNode)),
      edges |-> Each(u.manifests, DependencyEdges)
                \o ArtifactEdges(u)
                \o DeclaresEdges(declarations)
                \o Each(relationships, RelationshipEdge)
                \o Each(routes, HandledBy)
                \o Each(reads, Reads)
                \o Each(Gathered(analyses, "calls"), CallEdge)
                \o Each(externalCalls, ExternalCallEdge)
                \o LinkClientCallsToRoutes(Gathered(analyses, "requests"), routeNodes),
      unresolved |-> DedupeUnresolved(
                       Each(Gathered(analyses, "unresolved"), UnresolvedRow)
                       \o ArtifactsMissing(u)
                       \o Each(routes, HandlersMissing)
                       \o Each(reads, ReadsMissing)
                       \o Each(Gathered(analyses, "unbound"), UnresolvedCall)),
      roles   |-> DistinctRoles(Gathered(analyses, "roles")),
      regions |-> u.regions]

-----------------------------------------------------------------------------
(* validateGraph *)

Declarations ==
  {"Class", "Interface", "TypeAlias", "Enum", "EnumMember", "Function", "Method", "Property",
   "Accessor", "Constructor", "Variable", "Namespace"}

Rule(sources, targets) == [sources |-> sources, targets |-> targets]
Values == {"Function", "Variable", "External"}

EndpointRules ==
  [DECLARES |-> Rule({"File"} \cup (Declarations \ {"TypeAlias", "EnumMember", "Property"}), Declarations),
   IMPORTS  |-> Rule({"File"}, {"File", "External"} \cup Declarations),
   EXPORTS  |-> Rule({"File"}, {"File", "External"} \cup Declarations),
   IMPLEMENTS   |-> Rule({"Class", "Enum"}, {"Interface", "TypeAlias"} \cup Values),
   CALLS        |-> Rule({"File"} \cup Declarations, {"External"} \cup Declarations),
   DEPENDS_ON   |-> Rule({"Manifest", "ArtifactElement"}, {"Dependency", "ArtifactElement"}),
   HANDLED_BY   |-> Rule({"Route"}, Declarations),
   CONTINUES_TO |-> Rule({"File"} \cup Declarations, {"Route"}),
   READS        |-> Rule({"File"} \cup Declarations, {"EnvironmentVariable"}),
   REFERENCES_TYPE |-> Rule(Declarations, {"Class", "Interface", "TypeAlias", "Enum", "EnumMember",
                                           "Namespace"} \cup Values),
   CONTAINS   |-> Rule({"File", "ArtifactElement"}, {"ArtifactElement"}),
   REFERENCES |-> Rule({"File", "ArtifactElement"}, {"File"}),
   RUNS       |-> Rule({"File", "ArtifactElement"}, {"File"}),
   CONFIGURES |-> Rule({"File"}, {"Technology"}),
   DOCUMENTS  |-> Rule({"File"}, {"File"}),
   USES_ENV   |-> Rule({"File", "ArtifactElement"}, {"EnvironmentVariable"})]
  @@ "EXTENDS" :> Rule({"Class", "Interface"}, {"Class", "Interface", "TypeAlias"} \cup Values)

Distinct(rows) == Cardinality(Ids(rows)) = Len(rows)

ValidateGraph(g) ==
  LET ids  == Ids(g.nodes)
      Kind == [id \in ids |-> {n.kind : n \in {x \in ToSet(g.nodes) : x.id = id}}]
      Valid(e) == /\ {e.source, e.target, e.home} \subseteq ids
                  /\ Kind[e.source] \subseteq EndpointRules[e.type].sources
                  /\ Kind[e.target] \subseteq EndpointRules[e.type].targets
  IN  /\ Distinct(g.nodes)
      /\ \A n \in ToSet(g.nodes) : n.file \in ids \cup {None}
      /\ Distinct(g.edges)
      /\ \A e \in ToSet(g.edges) : Valid(e)
      /\ \A r \in ToSet(g.unresolved) : r.source \in ids
      /\ \A r \in ToSet(g.roles) : r.node \in ids
=============================================================================
