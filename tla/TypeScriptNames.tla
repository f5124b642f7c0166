---------------------------- MODULE TypeScriptNames ----------------------------
(***************************************************************************)
(* How packages/call-graph binds one call site: first the declaration the  *)
(* compiler would invoke, then the name rules.                             *)
(*                                                                         *)
(* sites  [file, owner, new, this, root, member, declared]                 *)
(*        declared: the nodes [file, at, origin, scope]                    *)
(*        from the declaration the compiler answers with outwards, empty   *)
(*        if it threw or knew of none; scope: a callable, whose parameters *)
(*        and locals are not the callable itself                           *)
(* references is what the resolver has found before.                       *)
(***************************************************************************)
EXTENDS TypeScriptReferences

CONSTANT references

-----------------------------------------------------------------------------
(* CheckerBinder *)

\* The innermost recorded declaration that is reached before the callable around the first node.
Identify(nodes) ==
  LET Found(k)  == DeclarationAt(nodes[k].file, nodes[k].at)
      Leaves(k) == k > 1 /\ nodes[k].scope
      IsEnd(k)  == Leaves(k) \/ Found(k) # None
      end == First(SelectSeq([k \in DOMAIN nodes |-> k], IsEnd))
  IN  IF end = None \/ Leaves(end) THEN None ELSE Found(end)

\* None where the compiler has no answer, and the name rules are tried.
CheckerBind(s) ==
  LET BoundTo(id) == IF id = None THEN None ELSE Bound(id)
      Leaving(origin) ==
        CASE origin = "language-builtin" -> Unresolved("callee-is-language-builtin")
          [] origin = "outside-analysis" -> Unresolved("callee-outside-analysis")
          [] OTHER                       -> External
      declaration == First(s.declared)
  IN  IF declaration = None THEN None
      ELSE IF declaration.file # None THEN BoundTo(Identify(s.declared))
      ELSE Leaving(declaration.origin)

-----------------------------------------------------------------------------
(* buildBindingIndex *)

MemberOwnerKinds == {"class", "interface", "enum", "namespace"}

Member(owner, name) == IfDeclared(Within(owner, name))

\* What a name of a file was last recorded as.
RecordedAs(type, file, name, kind) ==
  LET Is(r) == /\ r.made.type = type /\ r.made.file = file /\ r.made.name = name
               /\ r.target # None /\ r.target.kind = kind
      last == Final(SelectSeq(references, Is))
  IN  IF last = None THEN None ELSE last.target

ImportedDeclaration(file, name) ==
  LET Of(target) == IF target = None THEN None ELSE target.id
  IN  Of(RecordedAs("IMPORTS", file, name, "declaration"))

ImportedModule(file, name) ==
  LET Of(target) == IF target = None THEN None ELSE target.file
  IN  Of(RecordedAs("IMPORTS", file, name, "file"))

ModuleExport(file, name) ==
  LET Of(target) == IF target = None THEN None ELSE target.id
  IN  Of(RecordedAs("EXPORTS", file, name, "declaration"))

IsExternalSpecifier(specifier) == specifier = <<>> \/ Head(specifier) \notin {".", "..", ""}

\* By the specifier, whatever the compiler found behind it, or by what it found.
IsImportedExternal(file, name) ==
  \/ \E i \in Range(program.imports) :
       /\ i.file = file /\ \E b \in Range(i.bindings) : b.local = name
       /\ IsExternalSpecifier(i.specifier) /\ ClassifyUnresolvedSpecifier(i.specifier) # None
  \/ RecordedAs("IMPORTS", file, name, "external") # None

ChainOf(s) == IF s.owner = None THEN <<>> ELSE s.owner.chain

\* The declaration a name refers to, looked for from the call outwards.
LookupScoped(file, chain, name) ==
  LET At(depth) == IfDeclared(Id(file, Append(SubSeq(chain, 1, depth), name)))
  IN  First(Known([k \in 1 .. Len(chain) + 1 |-> At(Len(chain) + 1 - k)]))

-----------------------------------------------------------------------------
(* CallGraphResolver *)

ResolveRoot(s) ==
  IF s.root = None THEN None
  ELSE OrElse(LookupScoped(s.file, ChainOf(s), s.root), ImportedDeclaration(s.file, s.root))

\* The class whose construction initialises a variable, of several the last.
ConstructedIn(holder) ==
  LET IsOwner(class) == class # None /\ OfKind(class, MemberOwnerKinds)
      Initialises(s) == s.new /\ s.owner = holder
      sites   == SelectSeq(program.sites, Initialises)
      classes == [k \in DOMAIN sites |-> ResolveRoot(sites[k])]
  IN  IF OfKind(holder, {"variable"}) THEN Final(SelectSeq(classes, IsOwner)) ELSE None

\* Below, root is what the root of a callee resolves to, and external whether it is imported
\* from outside.
UnboundReason(external) == IF external THEN External ELSE Unresolved("root-not-bound")

BindConstruction(root, external) ==
  IF root = None THEN UnboundReason(external)
  ELSE Bound(OrElse(Member(root, "constructor"), root))

BindBareName(s, root, external) ==
  IF s.root = None THEN Unresolved("callee-not-addressable")
  ELSE IF root # None THEN Bound(root)
  ELSE UnboundReason(external)

\* Only what is declared in something has a container.
BindThisMember(s) ==
  IF Len(ChainOf(s)) < 2 THEN Unresolved("no-enclosing-container")
  ELSE BoundOr(Member(Id(s.file, Outer(ChainOf(s))), s.member), "member-not-found")

\* A variable has the members of the class that it was constructed from.
BindMemberOf(owner, class, member) ==
  IF class = None /\ ~OfKind(owner, MemberOwnerKinds) THEN Unresolved("root-type-unknown")
  ELSE BoundOr(Member(OrElse(class, owner), member), "member-not-found")

\* A name imported from outside is that, though a variable of the file may hold it.
BindRootedMember(s, root, external) ==
  LET InModule(module) ==
        IF module = None THEN UnboundReason(external)
        ELSE BoundOr(ModuleExport(module, s.member), "member-not-found")
  IN  IF external THEN External
      ELSE IF root # None THEN BindMemberOf(root, ConstructedIn(root), s.member)
      ELSE InModule(ImportedModule(s.file, s.root))

BindByName(s, root, external) ==
  IF s.new THEN BindConstruction(root, external)
  ELSE IF s.member = None THEN BindBareName(s, root, external)
  ELSE IF s.this THEN BindThisMember(s)
  ELSE IF s.root = None THEN Unresolved("callee-not-addressable")
  ELSE BindRootedMember(s, root, external)

Plan(s) ==
  OrElse(CheckerBind(s),
         BindByName(s, ResolveRoot(s), s.root # None /\ IsImportedExternal(s.file, s.root)))
=============================================================================
