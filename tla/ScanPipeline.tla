----------------------------- MODULE ScanPipeline -----------------------------
(***************************************************************************)
(* One scan of a checkout into a graph database, and the next:             *)
(* packages/pipeline/src/repository-pipeline.ts with the analysers' runs   *)
(* (packages/analyzer), the two passes of the TypeScript analyser, the     *)
(* tolerant build, the capabilities and the fingerprint, and GraphStore.   *)
(*                                                                         *)
(* A scan reads the checkout in several steps, and an editor may write to  *)
(* it between any two of them.  What a file contains is its version; an    *)
(* edit that preserves both size and modification time is the trade the    *)
(* fingerprint states, so the version is the modification time too.        *)
(***************************************************************************)
EXTENDS Naturals, Sequences, FiniteSets, SequencesExt

CONSTANTS Files, Regions,
          RegionOf,          \* the region a file lies in
          Manifests,         \* files read while the checkout is walked
          Registered,        \* the analysers, in order of registration
          Sources,           \* the files each of them reads
          Bounded,           \* those that compile every file as a unit of its own
          References,        \* <<f, g>>: f refers to what g declares
          Routes,            \* files that register a route
          MaxEdits, MaxScans,
          MaxMishaps         \* faults of analysers and times that cannot be read

Analyzers == ToSet(Registered)

ASSUME RepositoryAssumption ==
  /\ Registered \in Seq(Analyzers)
  /\ RegionOf \in [Files -> Regions] /\ Manifests \subseteq Files
  /\ Sources \in [Analyzers -> SUBSET (Files \ Manifests)]
  /\ \A a, b \in Analyzers : a # b => Sources[a] \cap Sources[b] = {}
  /\ Bounded \subseteq Analyzers
  /\ References \subseteq Files \X Files /\ Routes \subseteq Files
ASSUME ScanBoundsAssumption ==
  {MaxEdits, MaxScans, MaxMishaps} \subseteq Nat

Sourced == UNION {Sources[a] : a \in Analyzers}

Unread  == 0                 \* no fact about the file
Missing == 0                 \* the -1 of a time that could not be read

Depths == <<"universal", "semantic", "framework">>
Rank(depth) == CHOOSE i \in 1 .. 3 : Depths[i] = depth

\* A unit of the TypeScript analyser fails in its first or second pass, an analyser
\* throws, the graph refuses its facts, or refuses those of two taken together.
Faults == {<<pass, f>> : pass \in {"first pass", "second pass"},
                         f \in UNION {Sources[a] : a \in Bounded}}
          \cup {<<kind, a>> : kind \in {"throws", "refused"}, a \in Analyzers}
          \cup {<<"clash", pair>> : pair \in kSubset(2, Analyzers)}

AtMost(n, S) ==
  LET upTo[i \in 0 .. n] == IF i = 0 THEN {{}}
                            ELSE upTo[i - 1] \cup {s \cup {x} : s \in upTo[i - 1], x \in S}
  IN upTo[n]

Graph == [facts : [Files -> Nat], nodes : SUBSET Files, edges : SUBSET References,
          kept : SUBSET Analyzers, depth : [Regions -> ToSet(Depths)]]
Blank == [facts |-> [f \in Files |-> Unread], nodes |-> {}, edges |-> {},
          kept |-> {}, depth |-> [r \in Regions |-> "universal"]]
NoLines == [f \in Files |-> <<Missing, Missing>>]

VARIABLES world,             \* world[f]: its size and its version
          db,                \* schema, graph and fingerprint of the database
          scan,              \* the scan under way, or how the last one ended
          edits, scans, mishaps

scanVars == <<world, db, scan, edits, scans, mishaps>>

Resting == {"idle", "done", "failed"}

-----------------------------------------------------------------------------
(* What the analysers hand over *)

Fault(kind, what) == <<kind, what>> \in scan.faults

\* First pass: the units whose declarations the repository-wide index knows.
Compiled(a) == {f \in Sources[a] : a \in Bounded => ~Fault("first pass", f)}

\* Second pass: the units resolved against that index, whose facts are handed over.
Resolved(a) == {f \in Compiled(a) : a \in Bounded => ~Fault("second pass", f)}

Edges(a) == {e \in References : e[1] \in Resolved(a) /\ e[2] \in Compiled(a)}

\* An outcome with a contribution; the others declined, threw or had no unit left.
Contributes(a) == Resolved(a) # {} /\ ~Fault("throws", a)

Contributors == {a \in Analyzers : Contributes(a)}

-----------------------------------------------------------------------------
(* buildTolerantly and assessCapabilities *)

Nodes(kept) == UNION {Resolved(a) : a \in kept}

\* validateGraph, over what the kept analysers contributed.
GraphAccepts(kept) ==
  /\ \A a \in kept : ~Fault("refused", a)
  /\ \A pair \in kSubset(2, kept) : ~Fault("clash", pair)
  /\ \A a \in kept : \A e \in Edges(a) : {e[1], e[2]} \subseteq Nodes(kept)

\* Seeded fault: everything semantic goes as soon as anything is refused.
KeptAllOrNothing == IF GraphAccepts(Contributors) THEN Contributors ELSE {}

\* Everything, or all but the first whose removal helps, or nothing.
Kept ==
  LET suspects == {i \in DOMAIN Registered :
                     /\ Registered[i] \in Contributors
                     /\ GraphAccepts(Contributors \ {Registered[i]})}
  IN IF GraphAccepts(Contributors) THEN Contributors
     ELSE IF suspects = {} THEN {} ELSE Contributors \ {Registered[Min(suspects)]}

\* Seeded fault: an analyser whose facts were dropped keeps what it covered.
CoversWhatItRead(a, kept) == IF Contributes(a) THEN Resolved(a) ELSE {}

\* A rejected outcome covers nothing.
Covers(a, kept) == IF a \in kept THEN Resolved(a) ELSE {}

DepthOf(a) == IF Resolved(a) \cap Routes # {} THEN "framework" ELSE "semantic"

\* The deepest among the analysers covering a source of the region; "framework" only
\* where a route was found in the region itself.
Assess(r, kept) ==
  LET here   == {f \in Files : RegionOf[f] = r}
      depths == {DepthOf(a) : a \in {b \in Analyzers : Covers(b, kept) \cap here # {}}}
      routed == Routes \cap Nodes(kept) \cap here # {}
  IN IF depths = {} THEN "universal"
     ELSE IF "framework" \in depths /\ routed THEN "framework" ELSE "semantic"

Built(kept) ==
  [facts |-> [f \in Files |-> IF f \in Sourced \ Nodes(kept) THEN Unread ELSE scan.read[f]],
   nodes |-> Nodes(kept),
   edges |-> UNION {Edges(a) : a \in kept},
   kept  |-> kept,
   depth |-> [r \in Regions |-> Assess(r, kept)]]

-----------------------------------------------------------------------------
(* The steps of a scan *)

Goes(phase) == scan' = [scan EXCEPT !.phase = phase]
Fails(why)  == scan' = [scan EXCEPT !.phase = "failed", !.why = why]

NewScan(force) ==
  [phase |-> "begun", force |-> force, why |-> "none", lines |-> NoLines,
   read |-> [f \in Files |-> Unread], faults |-> {}, report |-> {}, reused |-> FALSE]

Begin(force) ==
  /\ scan.phase \in Resting /\ scans < MaxScans
  /\ scans' = scans + 1
  /\ scan' = NewScan(force)
  /\ UNCHANGED <<world, db, edits, mishaps>>

\* RepositoryScanner: sizes, and what the manifests declare.
Discover ==
  /\ scan.phase = "begun"
  /\ scan' = [scan EXCEPT !.phase = "discovered",
                !.lines = [f \in Files |-> <<world[f].size, Missing>>],
                !.read  = [f \in Files |-> IF f \in Manifests THEN world[f].version ELSE Unread]]
  /\ UNCHANGED <<world, db, edits, scans, mishaps>>

FindsNothing ==
  /\ scan.phase = "begun" /\ Fails("empty")
  /\ UNCHANGED <<world, db, edits, scans, mishaps>>

\* modificationTimes and fingerprintRepository.
Stamp(blips) ==
  /\ scan.phase = "discovered"
  /\ scan' = [scan EXCEPT !.phase = "stamped",
                !.lines = [f \in Files |->
                  <<@[f][1], IF f \in blips THEN Missing ELSE world[f].version>>]]
  /\ mishaps' = mishaps + Cardinality(blips)
  /\ UNCHANGED <<world, db, edits, scans>>

Unchanged == ~scan.force /\ db.schema # "old" /\ db.stored /\ db.lines = scan.lines

\* GraphStore.open: a new file gets the schema, and no graph.
Opened == IF db.schema = "absent" THEN [db EXCEPT !.schema = "current"] ELSE db

\* #reuseIfUnchanged: a summary of what is stored, in which no analyser failed.
Reuse ==
  /\ scan.phase = "stamped" /\ Unchanged
  /\ scan' = [scan EXCEPT !.phase = "done", !.reused = TRUE, !.report = {}]
  /\ UNCHANGED <<world, db, edits, scans, mishaps>>

LooksChanged ==
  /\ scan.phase = "stamped" /\ ~Unchanged
  /\ Goes("changed")
  /\ db' = IF scan.force THEN db ELSE Opened
  /\ UNCHANGED <<world, edits, scans, mishaps>>

\* defaultAnalyzersFor: a grammar that cannot be loaded is not one analyser's loss.
PrepareFails ==
  /\ scan.phase = "changed" /\ Fails("grammar")
  /\ UNCHANGED <<world, db, edits, scans, mishaps>>

\* runAnalyzers, one synchronous stretch.
Analyse(faults) ==
  /\ scan.phase = "changed"
  /\ scan' = [scan EXCEPT !.phase = "analysed", !.faults = faults,
                !.read = [f \in Files |-> IF f \in Sourced THEN world[f].version ELSE @[f]]]
  /\ mishaps' = mishaps + Cardinality(faults)
  /\ UNCHANGED <<world, db, edits, scans>>

\* detectTechnologies and analyseArtifacts read what no analyser and no manifest reader did.
Describe ==
  /\ scan.phase = "analysed"
  /\ scan' = [scan EXCEPT !.phase = "described",
                !.read = [f \in Files |-> IF @[f] = Unread THEN world[f].version ELSE @[f]]]
  /\ UNCHANGED <<world, db, edits, scans, mishaps>>

\* Seeded fault: the fingerprint is taken when the graph is written.
RecordedAtWrite == [f \in Files |-> <<world[f].size, world[f].version>>]

Recorded == scan.lines

\* The build and the transaction that replaces the graph, all or nothing.
Store ==
  /\ scan.phase = "described" /\ db.schema # "old"
  /\ db' = [schema |-> "current", stored |-> TRUE, graph |-> Built(Kept), lines |-> Recorded]
  /\ scan' = [scan EXCEPT !.phase = "done",
                !.report = {a \in Analyzers : Sources[a] # {} /\
                              (a \notin Kept \/ Resolved(a) # Sources[a])}]
  /\ UNCHANGED <<world, edits, scans, mishaps>>

StoreRefuses ==
  /\ scan.phase = "described" /\ db.schema = "old" /\ Fails("schema")
  /\ UNCHANGED <<world, db, edits, scans, mishaps>>

\* The process dies; nothing it had not committed is seen again.
Dies ==
  /\ scan.phase \notin Resting
  /\ scan' = [NewScan(FALSE) EXCEPT !.phase = "idle"]
  /\ UNCHANGED <<world, db, edits, scans, mishaps>>

Edit(f, size) ==
  /\ edits < MaxEdits /\ edits' = edits + 1
  /\ world' = [world EXCEPT ![f] = [size |-> size, version |-> @.version + 1]]
  /\ UNCHANGED <<db, scan, scans, mishaps>>

ScanStep ==
  \/ Discover \/ FindsNothing
  \/ \E blips \in AtMost(MaxMishaps - mishaps, Files) : Stamp(blips)
  \/ Reuse \/ LooksChanged \/ PrepareFails
  \/ \E faults \in AtMost(MaxMishaps - mishaps, Faults) : Analyse(faults)
  \/ Describe \/ Store \/ StoreRefuses

-----------------------------------------------------------------------------
(* Scans of a checkout somebody is working in, as the command line runs them *)

ScanInit ==
  /\ world = [f \in Files |-> [size |-> 1, version |-> 1]]
  /\ db \in {[schema |-> s, stored |-> FALSE, graph |-> Blank, lines |-> NoLines] :
                s \in {"absent", "old"}}
  /\ scan = [NewScan(FALSE) EXCEPT !.phase = "idle"]
  /\ edits = 0 /\ scans = 0 /\ mishaps = 0

ScanNext ==
  \/ \E force \in BOOLEAN : Begin(force)
  \/ ScanStep \/ Dies
  \/ \E f \in Files, size \in {1, 2} : Edit(f, size)

ScanSpec == ScanInit /\ [][ScanNext]_scanVars
-----------------------------------------------------------------------------
(* Properties *)

\* What a page says about a region is earned by facts the graph holds: a depth above
\* "universal" by declarations of one of its files, "framework" by one of its routes.
\* An analyser that failed or was dropped leaves no depth behind.
DepthIsEarned ==
  \A r \in Regions :
    LET mine == {f \in db.graph.nodes : RegionOf[f] = r}
    IN /\ db.graph.depth[r] # "universal" => mine # {}
       /\ db.graph.depth[r] = "framework" => mine \cap Routes # {}

\* While at most one analyser hands over facts the graph refuses, no other analyser
\* loses its facts, whichever of them was tried first.
OneFaultCostsOneAnalyser ==
  scan.phase = "done" /\ ~scan.reused /\ scan.report # {} =>
    LET broken == {a \in Contributors : ~GraphAccepts({a})}
        clash  == \E pair \in kSubset(2, Analyzers) : Fault("clash", pair)
    IN Cardinality(broken) <= 1 /\ ~clash => Contributors \ broken \subseteq db.graph.kept

\* A file that looks as it did when the stored graph was made is described as it is
\* now, although it may be edited between any two steps of a scan: its time is read
\* before it is.  Manifests are read before their time is.
UnchangedSourcesAreCurrent ==
  \A f \in Files \ Manifests :
    db.lines[f] = <<world[f].size, world[f].version>> =>
      db.graph.facts[f] \in {Unread, world[f].version}
=============================================================================
