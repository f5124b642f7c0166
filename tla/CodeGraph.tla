------------------------------ MODULE CodeGraph ------------------------------
(***************************************************************************)
(* From source to database: what the resolvers found and their call loops  *)
(* bound is handed to the graph builder as one contribution, and the graph *)
(* to the store.  Scans whose analysers' facts are given instead (Inputs) go on   *)
(* from there; no resolver runs beside them.                               *)
(***************************************************************************)
EXTENDS CallBinding, TLC

CONSTANTS
  Handed,            \* bound: the programs whose facts are handed on, besides those of TypeScript
  Unaddressable, Parameters,                                   \* see GraphBuilder
  Inputs, Stored, Databases, MaxBuilds, MaxWrites, MaxInterruptions   \* see GraphStore

VARIABLES schema, saved, tables, storing, counts                  \* see GraphStore

G == INSTANCE GraphStore

graphVars == <<schema, saved, tables, storing, counts>>
allVars   == <<vars, graphVars>>

-----------------------------------------------------------------------------
(* What a resolver contributes *)

NodeKind ==
  "class" :> "Class" @@ "interface" :> "Interface" @@ "enum" :> "Enum" @@ "method" :> "Method"
  @@ "function" :> "Function" @@ "property" :> "Property" @@ "constructor" :> "Constructor"
  @@ "type-alias" :> "TypeAlias" @@ "variable" :> "Variable" @@ "namespace" :> "Namespace"

\* The path of a file as one text.
PathOf(file) == ToString(file)

NodeIdOf(id) == G!SymbolId(PathOf(id.file), id.chain)

\* Where a call is written: in a declaration, or at the top of a file.
Caller(s) == IF s.owner = None THEN G!FileId(PathOf(s.file)) ELSE NodeIdOf(s.owner)

\* The references of TypeScript; those of the others, imports and heritage, are left out.
Made(r) ==
  LET home == G!FileId(PathOf(r.made.file))
  IN  [type |-> r.made.type, source |-> IF r.made.from = None THEN home ELSE NodeIdOf(r.made.from),
       name |-> IF r.made.name = None THEN <<>> ELSE <<r.made.name>>, home |-> home, at |-> r.made.at]

TargetNode(target) ==
  CASE target.kind = "file"        -> G!FileId(PathOf(target.file))
    [] target.kind = "declaration" -> NodeIdOf(target.id)
    [] target.kind = "external"    -> [origin |-> target.origin, ecosystem |-> "npm", name |-> target.name]

Relationship(r) ==
  IF r.target = None THEN <<>>
  ELSE <<Made(r) @@ [target |-> TargetNode(r.target), external |-> r.target.kind = "external",
                     confidence |-> r.confidence]>>

UnresolvedReference(r) == IF r.target # None THEN <<>> ELSE <<Made(r) @@ [reason |-> r.reason]>>

\* How certain it is that a call leaves the repository.
ExternalConfidence(s) ==
  IF language = "go" \/ (language = "typescript" /\ TypeScript(program, references)!CheckerBind(s) # None)
  THEN "RESOLVED" ELSE "INFERRED"

\* The places of a declaration; only TypeScript's has several.
PlacesOf(i) == IF language = "typescript" THEN program.decls[i].at ELSE <<i>>

\* The facts of a program, each call at a place of its own, by what became of it.  One package
\* stands for all that calls leave the repository for.
Contribution ==
  LET Placed(i) == [source |-> Caller(program.sites[i]), at |-> i,
                    home |-> G!FileId(PathOf(program.sites[i].file)),
                    name |-> <<program.sites[i].root, program.sites[i].member>>]
      Call(i) ==
        IF bound[i].why # "bound" THEN <<>>
        ELSE <<Placed(i) @@ [target |-> NodeIdOf(bound[i].to)]>>
      ExternalCall(i) ==
        IF bound[i].why # "external" THEN <<>>
        ELSE <<Placed(i) @@ [target |-> [origin |-> "package", ecosystem |-> language, name |-> <<>>],
                             confidence |-> ExternalConfidence(program.sites[i])]>>
      Unbound(i) == IF bound[i].why \in {"bound", "external"} THEN <<>> ELSE <<Placed(i)>>
      Declaration(i) == <<[file |-> PathOf(program.decls[i].id.file), chain |-> program.decls[i].id.chain,
                           kind |-> NodeKind[program.decls[i].kind], at |-> PlacesOf(i)]>>
      positions == [i \in DOMAIN bound |-> i]
  IN  [declarations  |-> G!Each([i \in DOMAIN program.decls |-> i], Declaration),
       calls         |-> G!Each(positions, Call),
       externalCalls |-> G!Each(positions, ExternalCall),
       unbound       |-> G!Each(positions, Unbound),
       relationships |-> G!Each(references, Relationship),
       unresolved    |-> G!Each(references, UnresolvedReference),
       routes |-> <<>>, reads |-> <<>>,
       requests |-> <<>>, roles |-> <<>>]

Universal ==
  [files |-> [i \in DOMAIN program.files |-> PathOf(program.files[i])], manifests |-> <<>>, technologies |-> <<>>, artifacts |-> <<>>,
   regions |-> <<>>]

-----------------------------------------------------------------------------
(* What a scan finds *)

\* Lists, of what is in files of the repository: universal facts cover every file, those of an
\* analyser some of them.  A region is a directory, in which languages and ecosystems were counted.
OfAScan(u, analyses) ==
  LET IsList(s)  == s \in Seq(ToSet(s))
      IsFile(p)   == p \in ToSet(u.files)
      Homes      == {G!FileId(p) : p \in ToSet(u.files)}
      Differ(s)  == \A i, j \in DOMAIN s : i # j => s[i] # s[j]
  IN  /\ \A field \in {"files", "manifests", "technologies", "artifacts", "regions"} : IsList(u[field])
      /\ \A m \in ToSet(u.manifests) : IsFile(m.path) /\ IsList(m.dependencies)
      /\ \A t \in ToSet(u.technologies) : t.evidence # <<>> => IsFile(Head(t.evidence))
      /\ \A a \in ToSet(u.artifacts) :
           /\ IsFile(a.path) /\ IsList(a.elements) /\ IsList(a.references)
           /\ \A e \in ToSet(a.elements) : IsList(e.requires)
      /\ Differ([i \in DOMAIN u.regions |-> u.regions[i].path])
      /\ \A r \in ToSet(u.regions) :
           IsList(r.languages) /\ Differ(r.languages) /\ IsList(r.ecosystems) /\ Differ(r.ecosystems)
      /\ IsList(analyses)
      /\ \A one \in ToSet(analyses) :
           /\ \A field \in {"declarations", "relationships", "calls", "externalCalls", "unbound",
                            "unresolved", "routes", "reads", "requests", "roles"} : IsList(one[field])
           /\ \A d \in ToSet(one.declarations) : IsFile(d.file) /\ d.kind \in G!Declarations /\ IsList(d.at)
           /\ \A r \in ToSet(one.routes) : r.home \in Homes /\ IsList(r.path) /\ IsList(r.handlers)
           /\ \A field \in {"reads", "unresolved", "unbound"} : \A x \in ToSet(one[field]) : x.home \in Homes
           /\ \A r \in ToSet(one.roles) : r = [node |-> r.node, role |-> r.role]

ASSUME InputsAssumption ==
  None \notin {"constraint", "invalid"} /\ \A input \in Inputs \cup Stored : OfAScan(input.universal, input.analyses)

-----------------------------------------------------------------------------
(* The composition *)

\* The facts are given: there is nothing to resolve.
FactsGiven == [files |-> <<>>, decls |-> <<>>, sites |-> <<>>]

CInit ==
  /\ G!Init
  /\ \/ schema = None /\ BindingInit             \* whose graph is built, but not written here
     \/ program = FactsGiven /\ language = None /\ references = <<>> /\ bound = <<>> /\ walk = None

Binds == BindingNext /\ UNCHANGED graphVars

\* The program's own scan, once every call is settled.
BuildsProgram ==
  /\ counts.builds = 0 /\ Finished /\ (program \in Handed \/ language = "typescript")
  /\ \E contribution \in {Contribution} :
       G!Builds([universal |-> Universal, analyses |-> <<contribution>>])
  /\ UNCHANGED vars

Scans ==
  /\ program = FactsGiven
  /\ G!Next
  /\ UNCHANGED vars

CNext == Binds \/ BuildsProgram \/ Scans

CSpec == CInit /\ [][CNext]_allVars

-----------------------------------------------------------------------------
(* What TypeScript's sources write *)

\* Whatever is written at a place is a reference made there.  An assignment whose declaration
\* has been linked is made by the link, and class expressions are not visited.
WritingIsFound ==
  LET Found(x, name) == \E r \in ToSet(references) : <<r.made.file, r.made.at, r.made.name>> = <<x.file, x.at, name>>
      Visited(m) == /\ <<m.file, m.declared>> \notin program.expressions
                    /\ TypeScript(program, references)!DeclarationAt(m.file, m.declared) # None
  IN  /\ \A i \in ToSet(program.imports) :
           Found(i, None) /\ \A b \in ToSet(i.bindings) : Found([file |-> i.file, at |-> b.at], b.local)
      /\ \A e \in ToSet(program.exports) : Found(e, e.name)
      /\ \A m \in ToSet(program.mentions) : Visited(m) => Found(m, m.name)

\* What a file declares and exports is a target of its exports, but for a dotted namespace.
ExportsAreFound ==
  \A w \in ToSet(program.written) :
    (w.exported /\ w.container = <<>> /\ Len(w.names) = 1) =>
      \E r \in ToSet(references) :
        /\ r.made.type = "EXPORTS" /\ r.made.file = w.file
        /\ r.target = TypeScript(program, references)!ToDeclaration(IR!SiteId(w))

\* A clause between declarations of kinds the endpoint rules do not relate.
HasNoRow(r) ==
  LET Allowed(id, kinds) == \A d \in ToSet(program.decls) : d.id = id => NodeKind[d.kind] \in kinds
      rule == G!EndpointRules[r.made.type]
  IN  /\ r.made.type \in {"EXTENDS", "IMPLEMENTS"} /\ r.target # None
      /\ r.target.kind = "declaration"
      /\ ~ (Allowed(r.made.from, rule.sources) /\ Allowed(r.target.id, rule.targets))

-----------------------------------------------------------------------------
(* What should be true from end to end *)

\* An absent edge is an absent fact: what a resolver or an analyser found, every call site
\* included, is an edge from where it was found or a row that says why it is none; and so is
\* every import, binding, export and clause that TypeScript's sources write.
NothingFoundGoesUnsaid ==
  /\ G!NothingFoundGoesUnsaid
  /\ language = "typescript" /\ G!IsBuilt => WritingIsFound /\ ExportsAreFound

\* A contribution is never refused for what a resolver bound a call to, nor for what another
\* analyser found: facts that are accepted alone are accepted together.  Only heritage is refused
\* where TypeScript allows it: a class that another one implements, and what is extended under a
\* name whose merged declaration counts as something else.
ContributionsAreAccepted ==
  /\ program # FactsGiven => storing.why # "invalid" \/ \E r \in ToSet(references) : HasNoRow(r)
  /\ G!AnalysersDoNotCollide

\* It is the same graph in whichever order the analysers ran, but for how a route is spelled.
OrderOfAnalysersIsImmaterial == G!OrderOfAnalysersIsImmaterial

\* A graph that was validated violates no key of the schema: no scan fails in its last step.
AcceptedGraphsAreStored == G!AcceptedGraphsAreStored

\* The file goes from one whole graph to the next, whatever fails in between.
ReplacedAsAWhole == G!ReplacedAsAWhole

\* graph-builder.ts: the edges follow the rule that a fact recorded twice is one fact.
OneFactIsOneEdge == G!OneFactIsOneEdge
=============================================================================
