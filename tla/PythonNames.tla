---------------------------- MODULE PythonNames ----------------------------
(***************************************************************************)
(* Python's modules and names: packages/python/src/module-index.ts and     *)
(* resolve.ts.  A file is [dir, stem, stub].  The program has              *)
(*   imports  [file, dots, module, kind, local, name], one for every name  *)
(*            a statement binds, of kind "namespace" or "named"            *)
(*   bases    [type, name], locals [owner, name, root, member] and         *)
(*   sites    [file, owner, root, member].                                 *)
(***************************************************************************)
EXTENDS Programs

-----------------------------------------------------------------------------
(* buildModuleIndex *)

NonEmpty(name) == IF name = <<>> THEN None ELSE name

\* Every directory named src is a root, and so is the repository; the longest above a file is
\* cut off its path, and what is left of the path is the module.
ModuleOf(f) ==
  LET roots   == {0} \cup {n \in DOMAIN f.dir : f.dir[n] = "src"}
      package == SubSeq(f.dir, Max(roots) + 1, Len(f.dir))
  IN  NonEmpty(package \o IF f.stem = "__init__" THEN <<>> ELSE <<f.stem>>)

\* The first file of the name, and any implementation before a stub.
FileFor(module) ==
  LET Named(f) == module # None /\ ModuleOf(f) = module
      Real(f) == ~f.stub
      named   == SelectSeq(program.files, Named)
  IN  First(SelectSeq(named, Real) \o named)

IsPackage(module) ==
  \E f \in Range(program.files) : f.stem = "__init__" /\ ~f.stub /\ ModuleOf(f) = module

Upwards(package, levels, suffix) ==
  IF levels > Len(package) THEN None
  ELSE NonEmpty(SubSeq(package, 1, Len(package) - levels) \o suffix)

\* Seeded fault: the __init__ of a package is treated like a module in it.
RelativeToParent(module, dots, suffix) ==
  Upwards(Outer(module), dots - 1, suffix)

\* One dot is the package itself, every further one the package around it.
Relative(module, dots, suffix) ==
  Upwards(IF IsPackage(module) THEN module ELSE Outer(module), dots - 1, suffix)

-----------------------------------------------------------------------------
(* What the imports of a file bind *)

\* resolveModuleSpecifier
Target(i) ==
  FileFor(IF i.dots = 0 THEN i.module
          ELSE IF ModuleOf(i.file) = None THEN None
          ELSE Relative(ModuleOf(i.file), i.dots, i.module))

\* What a file, if there is one, declares at module level.
TopLevel(file, name) == IF file = None THEN None ELSE IfDeclared(Id(file, <<name>>))

\* The last import that binds a local name to a declaration, or to a module, of the repository.
ImportedName(file, local) ==
  LET Binds(i) == i.file = file /\ i.local = local /\ i.kind = "named"
      imports  == SelectSeq(program.imports, Binds)
  IN  Final(Known([n \in DOMAIN imports |-> TopLevel(Target(imports[n]), imports[n].name)]))

ImportedModule(file, local) ==
  LET Binds(i) == i.file = file /\ i.local = local /\ i.kind = "namespace"
      imports  == SelectSeq(program.imports, Binds)
  IN  Final(Known([n \in DOMAIN imports |-> Target(imports[n])]))

LeavesRepository(file, local) ==
  \E n \in DOMAIN program.imports :
    LET i == program.imports[n]
    IN  i.file = file /\ i.local = local /\ i.dots = 0 /\ Target(i) = None

InScope(file, name) == OrElse(TopLevel(file, name), ImportedName(file, name))

-----------------------------------------------------------------------------
(* Classes *)

\* Bases that were proven, in the order they are listed.
Supers(type) ==
  LET Base(i) == InScope(type.file, program.bases[i].name)
      proven  == {i \in DOMAIN program.bases : program.bases[i].type = type /\ Base(i) # None}
  IN  [k \in 1 .. Cardinality(proven) |-> Base(Nth(proven, k))]

Member(type, name) == IfDeclared(Within(type, name))

IfClass(id) == IF OfKind(id, {"class"}) THEN id ELSE None

\* The class a local of the function was first constructed from.
Instance(owner, local) ==
  LET Of(l)  == l.owner = owner /\ l.name = local
      locals == SelectSeq(program.locals, Of)
      Constructed(l) == IF l.member = None THEN InScope(owner.file, l.root)
                        ELSE TopLevel(ImportedModule(owner.file, l.root), l.member)
  IN  First(Known([n \in DOMAIN locals |-> IfClass(Constructed(locals[n]))]))

\* Klass.method(): the first method of that class name and name in the whole repository.
StaticMember(class, name) ==
  LET Keyed(d) == d.id.chain = Append(class.chain, name)
      d == First(SelectSeq(program.decls, Keyed))
  IN  IF d = None THEN None ELSE d.id

-----------------------------------------------------------------------------
(* The call loop and bindCall *)

Addressed(s) ==
  LET module == ImportedModule(s.file, s.root)
      scoped == InScope(s.file, s.root)
      class  == IfClass(scoped)
      owner  == IF s.owner = None THEN <<>> ELSE Outer(s.owner.chain)
      made   == IF s.owner = None THEN None ELSE Instance(s.owner, s.root)
      OnSelf == IF owner = <<>> THEN Unresolved("root-type-unknown")
                ELSE Walk(Id(s.file, owner), s.member, "call")
  IN  IF s.member = None THEN BoundOr(scoped, "root-not-bound")
      ELSE IF s.root \in {"self", "cls"} THEN OnSelf
      ELSE IF module # None THEN BoundOr(TopLevel(module, s.member), "member-not-found")
      ELSE IF class # None THEN BoundOr(StaticMember(class, s.member), "member-not-found")
      ELSE IF made # None THEN Walk(made, s.member, "call")
      ELSE Unresolved("root-type-unknown")

Plan(s) ==
  IF s.root = None THEN Unresolved("callee-not-addressable")
  ELSE IF LeavesRepository(s.file, s.root) THEN External
  ELSE Addressed(s)

Found(s, for, id) == Bound(id)
Missed(s, for)    == Unresolved("member-not-found")
=============================================================================
