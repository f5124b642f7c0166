------------------------- MODULE MCRepositoryAnalyzer -------------------------
(* A small polyglot repository for TLC: two TypeScript units of which the first *)
(* refers to the second, a Python file, a manifest and a document.              *)
EXTENDS RepositoryAnalyzer

CONSTANTS ts1, ts2, py, manifest, readme,   \* files
          web, api                              \* regions

MCFiles      == {ts1, ts2, py, manifest, readme}
MCRegionOf   == [f \in MCFiles |-> IF f \in {ts1, manifest} THEN web ELSE api]
MCRegistered == <<"typescript", "python">>
MCSources    == [typescript |-> {ts1, ts2}, python |-> {py}]
MCReferences == {<<ts1, ts2>>}
=============================================================================
