------------------------- MODULE TypeScriptReferences -------------------------
(***************************************************************************)
(* What the type checker's answers become: packages/resolver.              *)
(*                                                                         *)
(* The compiler is external.  Where a program is looked at it answers      *)
(*   a module  with None or the place of its file                          *)
(*   a name    with [status, declares]: "failed" if it threw, "none" for   *)
(*             no symbol, else "symbol" and the places that declare it,    *)
(*             aliases followed                                            *)
(* and a place is [file, at, parameter, origin, name]: a position in an    *)
(* analysed file, which may be that of a type parameter, or file None and  *)
(* what its path says of it.  The first token of a file is at 1.           *)
(*                                                                         *)
(* A program (see Extracted) has                                           *)
(*   imports   [file, at, required, specifier, module, symbol, bindings]   *)
(*             with bindings [kind, name, local, at, answer]; symbol: the  *)
(*             file of a required module is one to the checker             *)
(*   mentions  [file, declared, type, name, at, answer]: the clauses and   *)
(*             annotations of what is declared at a place                  *)
(* A specifier is a sequence of segments.                                  *)
(***************************************************************************)
EXTENDS Programs

-----------------------------------------------------------------------------
(* DeclarationIndex and external-classification.ts *)

\* The declaration recorded at a position, of two the later one.
DeclarationAt(file, at) ==
  LET There(d) == d.id.file = file /\ at \in Range(d.at)
      last == Final(SelectSeq(program.decls, There))
  IN  IF last = None THEN None ELSE last.id

External_(origin, name) == [kind |-> "external", origin |-> origin, name |-> name]
ToFile(file)            == [kind |-> "file", file |-> file]
ToDeclaration(id)       == [kind |-> "declaration", id |-> id]

\* A scope stands before the name of its package; the rest is a path in it.
PackageName(specifier) ==
  CASE specifier = <<>> \/ Head(specifier) \in {".", "..", ""} -> <<>>
    [] Head(specifier) = "@"  -> IF Len(specifier) < 3 THEN <<>> ELSE SubSeq(specifier, 1, 3)
    [] OTHER                  -> <<Head(specifier)>>

Resolution(target, confidence) == [target |-> target, confidence |-> confidence]

ClassifyUnresolvedSpecifier(specifier) ==
  IF specifier # <<>> /\ Head(specifier) = "node:"
  THEN Resolution(External_("standard-library", specifier), "CERTAIN")
  ELSE IF PackageName(specifier) = <<>> THEN None
  ELSE Resolution(External_("package", PackageName(specifier)), "INFERRED")

ResolveModule(specifier, module) ==
  CASE module = None -> ClassifyUnresolvedSpecifier(specifier)
    [] module # None /\ module.file # None -> Resolution(ToFile(module.file), "RESOLVED")
    [] OTHER -> Resolution(External_(module.origin, module.name), "RESOLVED")

-----------------------------------------------------------------------------
(* resolveSymbol *)

DeclarationTarget(id) == IF id = None THEN None ELSE ToDeclaration(id)

TargetOf(place) ==
  IF place.file = None THEN External_(place.origin, place.name)
  ELSE DeclarationTarget(DeclarationAt(place.file, place.at))

\* Each of them once, in the order of the places that declare them.
Targets(answer) == Unrepeated(Known([i \in DOMAIN answer.declares |-> TargetOf(answer.declares[i])]))

\* Why a name without a target has none.
WhyNot(answer) ==
  CASE answer.status = "failed" -> "checker-failed"
    [] answer.status = "none"   -> "no-symbol"
    [] answer.status = "symbol" /\ answer.declares = <<>> -> "no-declaration"
    [] OTHER -> IF \A p \in Range(answer.declares) : p.parameter
                THEN "type-parameter" ELSE "declaration-not-in-ir"

-----------------------------------------------------------------------------
(* ResolutionCollector: what is recorded of a reference *)

\* A reference [type, file, from, name, at] is made in a file, by a declaration or by itself.
Reference(type, file, from, name, at) ==
  [type |-> type, file |-> file, from |-> from, name |-> name, at |-> at]

Relates(reference, target, confidence) ==
  <<[made |-> reference, target |-> target, confidence |-> confidence, reason |-> None]>>
IsUnresolved(reference, reason) ==
  <<[made |-> reference, target |-> None, confidence |-> None, reason |-> reason]>>

RelatesEach(reference, targets, confidence) ==
  Chained([i \in DOMAIN targets |-> Relates(reference, targets[i], confidence)])

Resolves(reference, answer, targets) ==
  CASE targets = <<>>    -> IsUnresolved(reference, WhyNot(answer))
    [] Len(targets) = 1 -> RelatesEach(reference, targets, "RESOLVED")
    [] OTHER            -> RelatesEach(reference, targets, "AMBIGUOUS")

AddSymbolResolution(reference, answer) == Resolves(reference, answer, Targets(answer))

AddModule(reference, module) ==
  IF module = None THEN IsUnresolved(reference, "module-not-resolved")
  ELSE Relates(reference, module.target, module.confidence)

-----------------------------------------------------------------------------
(* import-resolver.ts *)

\* A name imported from outside that nothing declares stands for its module.
RecordBinding(reference, b, module) ==
  IF WhyNot(b.answer) = "no-declaration" /\ module # None /\ module.target.kind = "external"
  THEN AddModule(reference, module)
  ELSE AddSymbolResolution(reference, b.answer)

\* What is destructured is looked up on the module, so there has to be a file of it.
RecordDestructured(reference, b, i) ==
  IF i.module = None \/ ~i.symbol THEN IsUnresolved(reference, "module-not-resolved")
  ELSE AddSymbolResolution(reference, b.answer)

ResolveImport(i) ==
  LET module == ResolveModule(i.specifier, i.module)
      Made(name, at) == Reference("IMPORTS", i.file, None, name, at)
      Of(b) ==
        CASE b.kind = "namespace"              -> AddModule(Made(b.local, b.at), module)
          [] b.kind # "namespace" /\ i.required -> RecordDestructured(Made(b.local, b.at), b, i)
          [] OTHER                              -> RecordBinding(Made(b.local, b.at), b, module)
  IN  AddModule(Made(None, i.at), module)
      \o Chained([k \in DOMAIN i.bindings |-> Of(i.bindings[k])])

-----------------------------------------------------------------------------
(* export-resolver.ts *)

RecordLinked(e) ==
  Relates(Reference("EXPORTS", e.file, None, e.name, e.at), ToDeclaration(e.declaration), "CERTAIN")

\* A CommonJS value that is linked has been recorded, and a literal declares nothing.
RecordCommonJs(e, reference) ==
  LET IsLinked(x) == <<x.file, x.at, x.name>> = <<e.file, e.at, e.name>>
  IN  IF SelectSeq(program.linked, IsLinked) # <<>> THEN <<>>
      ELSE IF e.value.kind = "literal" THEN IsUnresolved(reference, "value-is-not-a-declaration")
      ELSE AddSymbolResolution(reference, e.answer)

ResolveExport(e) ==
  LET reference == Reference("EXPORTS", e.file, None, e.name, e.at)
  IN  CASE e.form = "forward"  -> AddModule(reference, ResolveModule(e.specifier, e.module))
        [] e.form = "commonjs" -> RecordCommonJs(e, reference)
        [] e.form = "name"     -> AddSymbolResolution(reference, e.answer)

-----------------------------------------------------------------------------
(* heritage-resolver.ts and type-reference-resolver.ts, as resolveDeclarations calls them *)

\* Only what a statement declares is visited, and a clause or annotation belongs to whatever is
\* recorded there.
ResolveMention(m) ==
  LET from == DeclarationAt(m.file, m.declared)
  IN  IF from = None \/ <<m.file, m.declared>> \in program.expressions THEN <<>>
      ELSE AddSymbolResolution(Reference(m.type, m.file, from, m.name, m.at), m.answer)

\* Resolver.resolve: relationships and unresolved references together, each in its order.
References ==
  LET Import(i)  == ResolveImport(program.imports[i])
      Linked(i)  == RecordLinked(program.linked[i])
      Export(i)  == ResolveExport(program.exports[i])
      Mention(i) == ResolveMention(program.mentions[i])
  IN  Chained([i \in DOMAIN program.imports |-> Import(i)])
      \o Chained([i \in DOMAIN program.linked |-> Linked(i)])
      \o Chained([i \in DOMAIN program.exports |-> Export(i)])
      \o Chained([i \in DOMAIN program.mentions |-> Mention(i)])
=============================================================================
