---------------------------- MODULE PythonImports ----------------------------
(***************************************************************************)
(* What the import statements of a Python file become: readImport of       *)
(* packages/python/src/extract.ts and the import loop of resolve.ts.       *)
(*                                                                         *)
(* A statement is [file, at, from, names] where from is None or the module *)
(* of `from m import ...` and a name is [name, alias].  A module is a      *)
(* sequence of words; modules maps those of the repository to their files  *)
(* and to what they declare.  Wildcards are left out.                      *)
(***************************************************************************)
EXTENDS GraphBuilder

CONSTANT StandardLibrary      \* the top-level modules of Python's own library

\* One import for each module that `import` names, and one for all names of a `from`; all at
\* the place of the statement.
ReadImport(s) ==
  LET Module(n) == <<[file |-> s.file, at |-> s.at, specifier |-> n.name, bindings |-> <<>>]>>
  IN  IF s.from = None THEN Each(s.names, Module)
      ELSE <<[file |-> s.file, at |-> s.at, specifier |-> s.from, bindings |-> s.names]>>

\* classifyPythonSpecifier: the top-level name is all that is recorded.
ClassifyPythonSpecifier(specifier) ==
  [origin |-> IF Head(specifier) \in StandardLibrary THEN "standard-library" ELSE "package",
   ecosystem |-> "python", name |-> <<Head(specifier)>>]

Imports(i, name, target, external, confidence) ==
  <<[type |-> "IMPORTS", source |-> FileId(i.file), target |-> target, external |-> external,
     name |-> name, confidence |-> confidence, home |-> FileId(i.file), at |-> i.at]>>

Declares(modules, i, n) == n.name \in modules[i.specifier].declared

ImportRelationships(modules, i) ==
  LET Binding(n) ==
        IF Declares(modules, i, n)
        THEN Imports(i, <<n.alias>>, SymbolId(modules[i.specifier].file, <<n.name>>), FALSE, "RESOLVED")
        ELSE <<>>
  IN  IF i.specifier \notin DOMAIN modules
      THEN Imports(i, <<>>, ClassifyPythonSpecifier(i.specifier), TRUE, "INFERRED")
      ELSE Imports(i, <<>>, FileId(modules[i.specifier].file), FALSE, "RESOLVED")
           \o Each(i.bindings, Binding)

ImportsUnresolved(modules, i) ==
  LET Binding(n) ==
        IF Declares(modules, i, n) THEN <<>>
        ELSE <<[type |-> "IMPORTS", source |-> FileId(i.file), name |-> <<n.alias>>,
                reason |-> "no-declaration", home |-> FileId(i.file), at |-> i.at]>>
  IN  IF i.specifier \in DOMAIN modules THEN Each(i.bindings, Binding) ELSE <<>>

PythonRelationships(modules, statements) ==
  LET Of(i) == ImportRelationships(modules, i) IN Each(Each(statements, ReadImport), Of)

PythonUnresolved(modules, statements) ==
  LET Of(i) == ImportsUnresolved(modules, i) IN Each(Each(statements, ReadImport), Of)
=============================================================================
