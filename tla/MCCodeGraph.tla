----------------------------- MODULE MCCodeGraph -----------------------------
(* Small programs and small repositories. *)
EXTENDS CodeGraph, SmallPrograms

CONSTANT StandardLibrary      \* see PythonImports

F == INSTANCE SmallRepositories
T == INSTANCE SmallTypeScript

MCTypeScriptPrograms == T!MCTypeScriptPrograms
MCInputs == F!MCInputs
MCStored == F!MCStored
MCUnaddressable == {<<"MY-VAR">>}
MCHanded == PythonImportPrograms \cup JavaImportPrograms \cup GoImportPrograms
=============================================================================
