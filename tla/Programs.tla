------------------------------ MODULE Programs ------------------------------
(***************************************************************************)
(* A program as the extractors describe it.  Its members are sequences in  *)
(* the order of the code: files by path, and the facts of a file in source *)
(* order.  Whatever is looked up in it is a function of it.                *)
(***************************************************************************)
EXTENDS Names

CONSTANT program

Declared(id) == \E i \in DOMAIN program.decls : program.decls[i].id = id
IfDeclared(id) == IF Declared(id) THEN id ELSE None
OfKind(id, kinds) ==
  \E i \in DOMAIN program.decls : program.decls[i].id = id /\ program.decls[i].kind \in kinds
=============================================================================
