----------------------------- MODULE JavaNames -----------------------------
(***************************************************************************)
(* Java's types and members: packages/java/src/type-index.ts and           *)
(* resolve.ts.  The program has                                            *)
(*   package  file -> dotted name,  imports [file, name, wildcard, static] *)
(*   supers   [type, name], types [owner, name] (the references of a       *)
(*            declaration), returns [method, name]                         *)
(*   locals   [owner, name, declared, made, factory], factory None or      *)
(*            [root, member], and sites [file, owner, root, member, new].  *)
(*                                                                         *)
(* Every name of a type that is looked up is one identifier: the extractor *)
(* takes the leftmost one, so no dotted name reaches lookupType.  Its rule *)
(* for qualified names is left out with it.                                *)
(***************************************************************************)
EXTENDS Programs

JavaLang == {"String"}      \* stands for the list of isJavaLangType

-----------------------------------------------------------------------------
(* buildTypeIndex, buildFileScope *)

Package(file) == program.package[file]

TypeIds(Holds(_)) ==
  LET IsType(d) == d.kind \in Types /\ Holds(d.id)
      types == SelectSeq(program.decls, IsType)
  IN  [i \in DOMAIN types |-> types[i].id]

Qualified(name) ==
  LET Named(id) == Package(id.file) \o id.chain = name IN TypeIds(Named)

\* A nested type is in its package under its own last segment, too.
InPackage(package, name) ==
  LET There(id) == Package(id.file) = package /\ Final(id.chain) = name IN TypeIds(There)

Imports(file, wildcard, static) ==
  LET Of(i) == i.file = file /\ i.wildcard = wildcard /\ i.static = static
  IN  SelectSeq(program.imports, Of)

\* The single-type, or single-member, import of a simple name; later ones overwrite.
Import(file, name, static) ==
  LET Of(i) == Final(i.name) = name IN Final(SelectSeq(Imports(file, FALSE, static), Of))

-----------------------------------------------------------------------------
(* lookupType *)

FromWildcards(file, name) ==
  LET imports == Imports(file, TRUE, FALSE)
  IN  Chained([i \in DOMAIN imports |-> InPackage(imports[i].name, name)])

Imported(import) == IF import = None THEN <<>> ELSE Qualified(import.name)

\* The only one there is: of several, it is not known which.
Only(types) == IF Len(types) = 1 THEN types[1] ELSE None

\* What an import names, then what the own package holds, then what the wildcards hold.
Lookup(file, name) ==
  IF name = None THEN None
  ELSE OrElse(Only(Imported(Import(file, name, FALSE))),
              OrElse(Only(InPackage(Package(file), name)), Only(FromWildcards(file, name))))

-----------------------------------------------------------------------------
(* Types and their members *)

EnclosingType(owner) ==
  LET Holds(n) == OfKind(Id(owner.file, SubSeq(owner.chain, 1, n)), Types)
      depths   == IF owner = None THEN {} ELSE {n \in DOMAIN owner.chain : Holds(n)}
  IN  IF depths = {} THEN None
      ELSE Id(owner.file, SubSeq(owner.chain, 1, CHOOSE n \in depths : \A m \in depths : m <= n))

Member(type, name) == IfDeclared(Within(type, name))
Constructor(type)  == Member(type, Final(type.chain))

\* Supertypes that were proven: an ambiguous one ends the search.
Supers(type) ==
  LET Super(i) == Lookup(type.file, program.supers[i].name)
      proven   == {i \in DOMAIN program.supers : program.supers[i].type = type /\ Super(i) # None}
  IN  [k \in 1 .. Cardinality(proven) |-> Super(Nth(proven, k))]

\* The first of the types a field's declaration names that this repository declares.
FieldType(field) ==
  LET Of(t) == t.owner = field /\ OfKind(field, {"property"})
      types == SelectSeq(program.types, Of)
  IN  First(Known([i \in DOMAIN types |-> Lookup(field.file, types[i].name)]))

Local(owner, name) ==
  LET Of(l) == l.owner = owner /\ l.name = name IN First(SelectSeq(program.locals, Of))

ReturnType(method) ==
  LET Of(r) == r.method = method
      last == Final(SelectSeq(program.returns, Of))
  IN  IF last = None THEN None ELSE last.name

-----------------------------------------------------------------------------
(* externalCalleeOf *)

LeavesByName(file, name) == Import(file, name, FALSE) # None \/ name \in JavaLang

LeavesRepository(s) ==
  LET static == Import(s.file, s.root, TRUE)
      local  == Local(s.owner, s.root)
      typed  == IF local = None THEN None ELSE OrElse(local.declared, local.made)
  IN  IF s.member = None THEN static # None /\ Qualified(Outer(static.name)) = <<>>
      ELSE LeavesByName(s.file, OrElse(typed, s.root))

\* It is asked once bindCall has given up, and only then.
OrLeaves(s, plan) ==
  IF plan.type = None /\ plan.outcome.to = None /\ s.root # None /\ LeavesRepository(s)
  THEN External ELSE plan

-----------------------------------------------------------------------------
(* bindCall: the parts of it by what the call looks like *)

\* super(...) and this(...)
Delegates(s) ==
  LET type    == EnclosingType(s.owner)
      Makes(t) == Constructor(t) # None
      super   == First(SelectSeq(Supers(type), Makes))
  IN  IF type = None THEN Unresolved("root-type-unknown")
      ELSE IF s.root = "this" THEN BoundOr(Constructor(type), "member-not-found")
      ELSE BoundOr(IF super = None THEN None ELSE Constructor(super), "member-not-found")

Constructs(s) ==
  LET type == Lookup(s.file, s.root)
  IN  IF type = None THEN Unresolved("root-not-bound") ELSE Bound(OrElse(Constructor(type), type))

StaticallyImported(s) ==
  LET import == Import(s.file, s.root, TRUE)
      owner  == IF import = None THEN None ELSE First(Qualified(Outer(import.name)))
  IN  BoundOr(IF owner = None THEN None ELSE Member(owner, s.root), "root-not-bound")

OnLocal(s) ==
  LET local == IF s.owner = None THEN None ELSE Local(s.owner, s.root)
      typed == OrElse(Lookup(s.file, local.declared), Lookup(s.file, local.made))
      maker == Lookup(s.file, local.factory.root)
  IN  IF local = None THEN Unresolved("root-type-unknown")
      ELSE IF typed # None THEN Walk(typed, s.member, "call")
      ELSE IF local.factory = None \/ maker = None THEN Unresolved("root-type-unknown")
      ELSE Walk(maker, local.factory.member, "factory")

OnReceiver(s) ==
  LET type  == EnclosingType(s.owner)
      named == Lookup(s.file, s.root)
      field == IF type = None THEN None ELSE Member(type, s.root)
  IN  IF named # None THEN Walk(named, s.member, "call")
      ELSE IF type # None /\ s.root = "this" THEN Walk(type, s.member, "call")
      ELSE IF field = None THEN OnLocal(s)
      ELSE IF FieldType(field) = None THEN Unresolved("member-not-found")
      ELSE Walk(FieldType(field), s.member, "call")

BindCall(s) ==
  LET type == EnclosingType(s.owner)
  IN  IF s.root = None THEN Unresolved("callee-not-addressable")
      ELSE IF s.member # None THEN OnReceiver(s)
      ELSE IF s.root \in {"this", "super"} THEN Delegates(s)
      ELSE IF s.new THEN Constructs(s)
      ELSE IF type # None THEN Walk(type, s.root, "bare")
      ELSE StaticallyImported(s)

Plan(s) == OrLeaves(s, BindCall(s))

-----------------------------------------------------------------------------
(* After a walk: the type a factory returns is looked up where the call is *)

Found(s, for, id) ==
  LET returned == Lookup(s.file, ReturnType(id))
  IN  IF for # "factory" THEN Bound(id)
      ELSE IF returned = None THEN OrLeaves(s, Unresolved("root-type-unknown"))
      ELSE Walk(returned, s.member, "call")

Missed(s, for) ==
  OrLeaves(s, CASE for = "call"  -> Unresolved("member-not-found")
                [] for = "bare"  -> StaticallyImported(s)
                [] OTHER         -> Unresolved("root-type-unknown"))
=============================================================================
