------------------------------ MODULE GoNames ------------------------------
(***************************************************************************)
(* Go's packages and names: packages/go/src/package-index.ts, the tables   *)
(* go-analyzer.ts makes, and resolve.ts.  A file is [dir, stem].  The      *)
(* program has                                                             *)
(*   modules  [path, dir] of every go.mod, imports [file, alias, path]     *)
(*   embeds   [type, type name], types [owner, names] and results          *)
(*            [owner, names], where a type is named [name, qualifier]      *)
(*   methods  [method, variable, name], locals [owner, name, declared,     *)
(*            made, factory] and sites [file, owner, root, member].        *)
(***************************************************************************)
EXTENDS Programs

-----------------------------------------------------------------------------
(* directoryFor, exported *)

\* The longest module path in front of an import path decides, whatever it leads to.
ModuleFor(path) ==
  LET Holds(m) == Begins(m.path, path)
      holding  == SelectSeq(program.modules, Holds)
      Longest(m) == \A i \in DOMAIN holding : Len(holding[i].path) <= Len(m.path)
  IN  First(SelectSeq(holding, Longest))

DirectoryIn(module, path) ==
  LET rest   == SubSeq(path, Len(module.path) + 1, Len(path))
      dir    == module.dir \o rest
      Exists == \E i \in DOMAIN program.files : program.files[i].dir = dir
  IN  IF module # None /\ (rest = <<>> \/ Exists) THEN dir ELSE None

Directory(path) == IF path = None THEN None ELSE DirectoryIn(ModuleFor(path), path)

\* Whatever a directory, if there is one, declares under a name, members and fields included.
Exported(dir, name) ==
  LET Named(d) == dir # None /\ d.id.file.dir = dir /\ Final(d.id.chain) = name
      named == SelectSeq(program.decls, Named)
  IN  [i \in DOMAIN named |-> named[i].id]

Alias(file, name) ==
  LET Of(i) == i.file = file /\ i.alias = name
      last == Final(SelectSeq(program.imports, Of))
  IN  IF last = None THEN None ELSE last.path

-----------------------------------------------------------------------------
(* lookupTypeName, memberOf, and the tables resolveGo makes of them *)

FirstType(dir, name) ==
  LET IsType(id) == OfKind(id, {"class", "interface"})
  IN  First(SelectSeq(Exported(dir, name), IsType))

QualifiedDirectory(file, qualifier) ==
  IF qualifier = None THEN file.dir ELSE Directory(Alias(file, qualifier))

\* A type as a file names it: [name, qualifier], or None.
Lookup(file, named) ==
  IF named = None THEN None
  ELSE FirstType(QualifiedDirectory(file, named.qualifier), named.name)

\* In the type's own file first, then in the other files of its package.
Member(type, name) ==
  LET OfType(id) == id.chain = Append(type.chain, name)
  IN  OrElse(IfDeclared(Within(type, name)),
             First(SelectSeq(Exported(type.file.dir, name), OfType)))

\* Embedded types that were proven.
Supers(type) ==
  LET Embedded(i) == Lookup(type.file, program.embeds[i].named)
      proven == {i \in DOMAIN program.embeds : program.embeds[i].type = type /\ Embedded(i) # None}
  IN  [k \in 1 .. Cardinality(proven) |-> Embedded(Nth(proven, k))]

FieldType(field) ==
  LET Of(t) == t.owner = field /\ OfKind(field, {"property"})
      types == SelectSeq(program.types, Of)
  IN  First(Known([i \in DOMAIN types |-> Lookup(field.file, types[i].named)]))

\* The receiver of a method, if its type is declared in the package.
Receiver(owner) ==
  LET Of(m) == m.method = owner /\ FirstType(owner.file.dir, m.name) # None
      Typed(m) == [variable |-> m.variable, type |-> FirstType(owner.file.dir, m.name)]
      methods  == SelectSeq(program.methods, Of)
  IN  Final([i \in DOMAIN methods |-> Typed(methods[i])])

-----------------------------------------------------------------------------
(* localTypeOf *)

Factory(file, factory) ==
  IF factory.member = None THEN First(Exported(file.dir, factory.root))
  ELSE First(Exported(QualifiedDirectory(file, factory.root), factory.member))

\* A result type is looked up in the package of the factory.
Result(function) ==
  LET Of(r) == r.owner = function
      last  == Final(SelectSeq(program.results, Of))
  IN  IF last = None THEN None ELSE FirstType(function.file.dir, last.named.name)

LocalType(s) ==
  LET Of(l) == l.owner = s.owner /\ l.name = s.root
      local == First(SelectSeq(program.locals, Of))
      made  == IF local.factory = None THEN None ELSE Result(Factory(s.file, local.factory))
  IN  IF local = None THEN None
      ELSE OrElse(Lookup(s.file, local.declared), OrElse(Lookup(s.file, local.made), made))

-----------------------------------------------------------------------------
(* The call loop and bindCall *)

FieldOfReceiver(receiver, name) ==
  IF receiver = None THEN None ELSE FieldType(Member(receiver.type, name))

WalkIfKnown(type, s) ==
  IF type = None THEN Unresolved("root-type-unknown") ELSE Walk(type, s.member, "call")

Selects(s) ==
  LET receiver == Receiver(s.owner)
      InPackage(dir) == IF dir = None THEN External
                        ELSE BoundOr(First(Exported(dir, s.member)), "member-not-found")
  IN  IF Alias(s.file, s.root) # None THEN InPackage(Directory(Alias(s.file, s.root)))
      ELSE IF receiver # None /\ receiver.variable = s.root THEN Walk(receiver.type, s.member, "call")
      ELSE WalkIfKnown(OrElse(FieldOfReceiver(receiver, s.root), LocalType(s)), s)

Plan(s) ==
  IF s.root = None THEN Unresolved("callee-not-addressable")
  ELSE IF s.member = None THEN BoundOr(First(Exported(s.file.dir, s.root)), "root-not-bound")
  ELSE Selects(s)

Found(s, for, id) == Bound(id)
Missed(s, for)    == Unresolved("member-not-found")
=============================================================================
