----------------------------- MODULE ScanProofs -----------------------------
(***************************************************************************)
(* What is true of a scan, for every repository and every program.         *)
(*                                                                         *)
(* 1. Five invariants of the workflow of an analysis and of the scan       *)
(*    inside it, for every number of scans, edits and faults.              *)
(* 2. A call on a type is bound to the nearest declaration of the member.  *)
(*    The queue of a walk spans two levels of supertypes, of which the     *)
(*    first is visited or queued, and all that is visited has no such      *)
(*    member; and a level that still brings something new is no farther    *)
(*    than there are types with supertypes.                                *)
(***************************************************************************)
EXTENDS RepositoryAnalyzer, CodeGraph, FiniteSetTheorems, SequenceTheorems, WellFoundedInduction,
        TLAPS

-----------------------------------------------------------------------------
(* What the scan's part of the state looks like *)

LineSet  == Nat \X Nat
Versions == Nat \ {0}

ScanShape ==
  /\ world \in [Files -> [size : Nat, version : Versions]]
  /\ db = [schema |-> db.schema, stored |-> db.stored, graph |-> db.graph, lines |-> db.lines]
  /\ db.lines \in [Files -> LineSet]
  /\ scan = [phase |-> scan.phase, force |-> scan.force, why |-> scan.why,
             lines |-> scan.lines, read |-> scan.read, faults |-> scan.faults,
             report |-> scan.report, reused |-> scan.reused]
  /\ scan.lines \in [Files -> LineSet]
  /\ scan.read \in [Files -> Nat]

\* What a file looked like, in a scan or in the database, it looks like now.
LooksNow(lines, f) == lines[f] = <<world[f].size, world[f].version>>

\* Times do not run ahead, and what was read of a file after its time was taken is
\* current as long as the file looks the same.
Current ==
  \A f \in Files \ Manifests :
    /\ db.lines[f][2] <= world[f].version /\ scan.lines[f][2] <= world[f].version
    /\ scan.phase \in {"begun", "discovered", "stamped", "changed"} => scan.read[f] = Unread
    /\ LooksNow(scan.lines, f) => scan.read[f] \in {Unread, world[f].version}
    /\ LooksNow(db.lines, f) => db.graph.facts[f] \in {Unread, world[f].version}

ScanInv == ScanShape /\ Current /\ DepthIsEarned

-----------------------------------------------------------------------------
(* The depth of a region *)

\* A depth the assessment gives was earned by nodes the graph was built from.
LEMMA BuiltDepthIsEarned ==
  ASSUME NEW kept, NEW r \in Regions
  PROVE  LET graph == Built(kept)
             mine  == {f \in graph.nodes : RegionOf[f] = r}
         IN  /\ graph.depth[r] # "universal" => mine # {}
             /\ graph.depth[r] = "framework" => mine \cap Routes # {}
<1> DEFINE here == {f \in Files : RegionOf[f] = r}
           mine == {f \in Nodes(kept) : RegionOf[f] = r}
<1>1. Built(kept).nodes = Nodes(kept) /\ Built(kept).depth[r] = Assess(r, kept)
  BY DEF Built
<1>2. ASSUME Assess(r, kept) # "universal" PROVE mine # {}
  <2>1. PICK b \in Analyzers : Covers(b, kept) \cap here # {}
    BY <1>2 DEF Assess
  <2>2. b \in kept /\ Resolved(b) \cap here # {}
    BY <2>1 DEF Covers
  <2>3. Resolved(b) \subseteq Nodes(kept)
    BY <2>2 DEF Nodes
  <2>4. QED BY <2>2, <2>3
<1>3. ASSUME Assess(r, kept) = "framework" PROVE mine \cap Routes # {}
  <2>1. Routes \cap Nodes(kept) \cap here # {}
    BY <1>3 DEF Assess
  <2>2. QED BY <2>1
<1>4. QED BY <1>1, <1>2, <1>3

-----------------------------------------------------------------------------
(* The scan *)

\* A new scan has read nothing.
LEMMA NewScanShape ==
  ASSUME NEW force
  PROVE  LET s == NewScan(force)
         IN  /\ s = [phase |-> s.phase, force |-> s.force, why |-> s.why, lines |-> s.lines,
                     read |-> s.read, faults |-> s.faults, report |-> s.report,
                     reused |-> s.reused]
             /\ s.lines = NoLines /\ s.read = [f \in Files |-> Unread]
             /\ NoLines \in [Files -> LineSet] /\ s.read \in [Files -> Nat]
             /\ \A f \in Files : NoLines[f] = <<0, 0>>
  BY DEF NewScan, NoLines, LineSet, Missing, Unread

\* Steps that take no reading of the checkout and leave the stored graph.
LEMMA NothingRead ==
  ASSUME ScanInv, ScanShape', world' = world,
         scan'.lines = scan.lines, scan'.read = scan.read,
         scan'.phase \in {"begun", "discovered", "stamped", "changed"} =>
           scan.phase \in {"begun", "discovered", "stamped", "changed"},
         db'.lines = db.lines, db'.graph = db.graph
  PROVE  ScanInv'
<1>1. Current'
  BY DEF ScanInv, Current, LooksNow
<1>2. DepthIsEarned'
  BY DEF ScanInv, DepthIsEarned
<1>3. QED BY <1>1, <1>2 DEF ScanInv

\* The steps that only move the scan on.
LEMMA QuietStep ==
  ASSUME ScanInv,
         \/ FindsNothing \/ Reuse \/ LooksChanged \/ PrepareFails \/ StoreRefuses
  PROVE  ScanInv'
<1>1. world' = world
  BY DEF FindsNothing, Reuse, LooksChanged, PrepareFails, StoreRefuses
<1>2. /\ scan'.lines = scan.lines /\ scan'.read = scan.read
      /\ scan' = [phase |-> scan'.phase, force |-> scan'.force, why |-> scan'.why,
                  lines |-> scan'.lines, read |-> scan'.read, faults |-> scan'.faults,
                  report |-> scan'.report, reused |-> scan'.reused]
      /\ scan'.phase \in {"failed", "done", "changed"}
      /\ scan'.phase = "changed" => scan.phase = "stamped"
  <2>1. CASE FindsNothing
    BY <2>1 DEF FindsNothing, Fails, ScanInv, ScanShape
  <2>2. CASE Reuse
    BY <2>2 DEF Reuse, ScanInv, ScanShape
  <2>3. CASE LooksChanged
    BY <2>3 DEF LooksChanged, Goes, ScanInv, ScanShape
  <2>4. CASE PrepareFails
    BY <2>4 DEF PrepareFails, Fails, ScanInv, ScanShape
  <2>5. CASE StoreRefuses
    BY <2>5 DEF StoreRefuses, Fails, ScanInv, ScanShape
  <2>6. QED BY <2>1, <2>2, <2>3, <2>4, <2>5
<1>3. /\ db'.lines = db.lines /\ db'.graph = db.graph
      /\ db' = [schema |-> db'.schema, stored |-> db'.stored, graph |-> db'.graph,
                lines |-> db'.lines]
  <2>1. CASE LooksChanged
    BY <2>1 DEF LooksChanged, Opened, ScanInv, ScanShape
  <2>2. CASE db' = db
    BY <2>2 DEF ScanInv, ScanShape
  <2>3. QED BY <2>1, <2>2 DEF FindsNothing, Reuse, PrepareFails, StoreRefuses
<1>4. ScanShape'
  BY <1>1, <1>2, <1>3 DEF ScanInv, ScanShape
<1>5. QED BY <1>1, <1>2, <1>3, <1>4, NothingRead

\* A scan begins knowing nothing of any file.
LEMMA FreshStep ==
  ASSUME ScanInv, world' = world, db' = db,
         \E force \in BOOLEAN : \/ scan' = NewScan(force)
                                \/ scan' = [NewScan(force) EXCEPT !.phase = "idle"]
  PROVE  ScanInv'
<1>1. PICK force \in BOOLEAN : \/ scan' = NewScan(force)
                               \/ scan' = [NewScan(force) EXCEPT !.phase = "idle"]
  OBVIOUS
<1>2. /\ scan'.lines = NoLines /\ scan'.read = [f \in Files |-> Unread]
      /\ scan' = [phase |-> scan'.phase, force |-> scan'.force, why |-> scan'.why,
                  lines |-> scan'.lines, read |-> scan'.read, faults |-> scan'.faults,
                  report |-> scan'.report, reused |-> scan'.reused]
  <2>1. CASE scan' = NewScan(force)
    BY <2>1, NewScanShape
  <2>2. CASE scan' = [NewScan(force) EXCEPT !.phase = "idle"]
    BY <2>2 DEF NewScan
  <2>3. QED BY <1>1, <2>1, <2>2
<1>3. NoLines \in [Files -> LineSet] /\ \A f \in Files : NoLines[f] = <<0, 0>>
  BY NewScanShape
<1>4. [f \in Files |-> Unread] \in [Files -> Nat]
  BY DEF Unread
<1>5. ScanShape'
  BY <1>2, <1>3, <1>4 DEF ScanInv, ScanShape
<1>6. Current'
  <2> SUFFICES ASSUME NEW f \in Files \ Manifests
               PROVE  /\ scan'.lines[f][2] <= world[f].version
                      /\ scan'.read[f] = Unread /\ ~LooksNow(scan'.lines, f)
    BY DEF ScanInv, Current, LooksNow
  <2>1. world[f].version \in Versions
    BY DEF ScanInv, ScanShape
  <2>2. scan'.lines[f] = <<0, 0>> /\ scan'.read[f] = Unread
    BY <1>2, <1>3
  <2>3. QED BY <2>1, <2>2 DEF LooksNow, Versions
<1>7. DepthIsEarned'
  BY DEF ScanInv, DepthIsEarned
<1>8. QED BY <1>5, <1>6, <1>7 DEF ScanInv

\* The walk knows sizes and no times: nothing looks yet as it does now.
LEMMA DiscoverStep ==
  ASSUME ScanInv, Discover
  PROVE  ScanInv'
<1>0. /\ world \in [Files -> [size : Nat, version : Versions]]
      /\ \A f \in Files : world[f].size \in Nat /\ world[f].version \in Versions
  BY DEF ScanInv, ScanShape
<1>1. /\ scan'.lines = [f \in Files |-> <<world[f].size, Missing>>]
      /\ scan'.read = [f \in Files |-> IF f \in Manifests THEN world[f].version ELSE Unread]
      /\ UNCHANGED <<world, db>>
      /\ scan' = [phase |-> scan'.phase, force |-> scan'.force, why |-> scan'.why,
                  lines |-> scan'.lines, read |-> scan'.read, faults |-> scan'.faults,
                  report |-> scan'.report, reused |-> scan'.reused]
  BY DEF Discover, ScanInv, ScanShape
<1>2. ScanShape'
  BY <1>0, <1>1 DEF ScanInv, ScanShape, LineSet, Versions, Missing, Unread
<1>3. Current'
  <2> SUFFICES ASSUME NEW f \in Files \ Manifests
               PROVE  /\ scan'.lines[f][2] <= world[f].version
                      /\ scan'.read[f] = Unread /\ ~LooksNow(scan'.lines, f)
    BY <1>1 DEF ScanInv, Current, LooksNow
  <2>1. scan'.lines[f] = <<world[f].size, 0>> /\ scan'.read[f] = Unread
    BY <1>1 DEF Missing
  <2>2. QED BY <1>0, <2>1 DEF LooksNow, Versions
<1>4. DepthIsEarned'
  BY <1>1 DEF ScanInv, DepthIsEarned
<1>5. QED BY <1>2, <1>3, <1>4 DEF ScanInv

\* Times are taken before any source is read.
LEMMA StampStep ==
  ASSUME ScanInv, NEW blips, Stamp(blips)
  PROVE  ScanInv'
<1>0. \A f \in Files : world[f].size \in Nat /\ world[f].version \in Versions
  BY DEF ScanInv, ScanShape
<1>1. /\ scan'.lines = [f \in Files |-> <<scan.lines[f][1],
                          IF f \in blips THEN Missing ELSE world[f].version>>]
      /\ scan'.read = scan.read /\ scan.phase = "discovered" /\ scan'.phase = "stamped"
      /\ UNCHANGED <<world, db>>
      /\ scan' = [phase |-> scan'.phase, force |-> scan'.force, why |-> scan'.why,
                  lines |-> scan'.lines, read |-> scan'.read, faults |-> scan'.faults,
                  report |-> scan'.report, reused |-> scan'.reused]
  BY DEF Stamp, ScanInv, ScanShape
<1>2. ScanShape'
  <2>1. \A f \in Files : scan.lines[f][1] \in Nat
    BY DEF ScanInv, ScanShape, LineSet
  <2>2. scan'.lines \in [Files -> LineSet]
    BY <1>0, <1>1, <2>1 DEF LineSet, Versions, Missing
  <2>3. QED BY <1>1, <2>2 DEF ScanInv, ScanShape
<1>3. Current'
  <2> SUFFICES ASSUME NEW f \in Files \ Manifests
               PROVE  scan'.lines[f][2] <= world[f].version /\ scan'.read[f] = Unread
    BY <1>1 DEF ScanInv, Current, LooksNow
  <2>1. scan'.read[f] = Unread
    BY <1>1 DEF ScanInv, Current
  <2>2. scan'.lines[f][2] = IF f \in blips THEN 0 ELSE world[f].version
    BY <1>1 DEF Missing
  <2>3. QED BY <1>0, <2>1, <2>2 DEF Versions
<1>4. DepthIsEarned'
  BY <1>1 DEF ScanInv, DepthIsEarned
<1>5. QED BY <1>2, <1>3, <1>4 DEF ScanInv

\* What is read is read as it is.
LEMMA ReadStep ==
  ASSUME ScanInv, (\E faults : Analyse(faults)) \/ Describe
  PROVE  ScanInv'
<1>0. \A f \in Files : world[f].version \in Versions
  BY DEF ScanInv, ScanShape
<1>1. /\ UNCHANGED <<world, db>> /\ scan'.lines = scan.lines
      /\ scan'.read \in [Files -> Nat]
      /\ \A f \in Files : scan'.read[f] \in {scan.read[f], world[f].version}
      /\ scan'.phase \in {"analysed", "described"}
      /\ scan' = [phase |-> scan'.phase, force |-> scan'.force, why |-> scan'.why,
                  lines |-> scan'.lines, read |-> scan'.read, faults |-> scan'.faults,
                  report |-> scan'.report, reused |-> scan'.reused]
  <2>1. ASSUME NEW faults, Analyse(faults)
        PROVE  /\ scan'.read = [f \in Files |-> IF f \in Sourced THEN world[f].version
                                                               ELSE scan.read[f]]
               /\ UNCHANGED <<world, db>> /\ scan'.lines = scan.lines
               /\ scan'.phase = "analysed"
               /\ scan' = [phase |-> scan'.phase, force |-> scan'.force, why |-> scan'.why,
                  lines |-> scan'.lines, read |-> scan'.read, faults |-> scan'.faults,
                  report |-> scan'.report, reused |-> scan'.reused]
    BY <2>1 DEF Analyse, ScanInv, ScanShape
  <2>2. ASSUME Describe
        PROVE  /\ scan'.read = [f \in Files |-> IF scan.read[f] = Unread
                                  THEN world[f].version ELSE scan.read[f]]
               /\ UNCHANGED <<world, db>> /\ scan'.lines = scan.lines
               /\ scan'.phase = "described"
               /\ scan' = [phase |-> scan'.phase, force |-> scan'.force, why |-> scan'.why,
                  lines |-> scan'.lines, read |-> scan'.read, faults |-> scan'.faults,
                  report |-> scan'.report, reused |-> scan'.reused]
    BY <2>2 DEF Describe, ScanInv, ScanShape
  <2>3. scan.read \in [Files -> Nat]
    BY DEF ScanInv, ScanShape
  <2>4. CASE \E faults : Analyse(faults)
    BY <2>1, <2>3, <2>4, <1>0 DEF Versions
  <2>5. CASE Describe
    BY <2>2, <2>3, <2>5, <1>0 DEF Versions
  <2>6. QED BY <2>4, <2>5
<1>2. ScanShape'
  BY <1>1 DEF ScanInv, ScanShape
<1>3. Current'
  BY <1>1 DEF ScanInv, Current, LooksNow
<1>4. DepthIsEarned'
  BY <1>1 DEF ScanInv, DepthIsEarned
<1>5. QED BY <1>2, <1>3, <1>4 DEF ScanInv

\* What is stored was read after the times stored with it.
LEMMA StoreStep ==
  ASSUME ScanInv, Store
  PROVE  ScanInv'
<1>1. /\ world' = world
      /\ db' = [schema |-> "current", stored |-> TRUE, graph |-> Built(Kept),
                lines |-> scan.lines]
      /\ scan'.lines = scan.lines /\ scan'.read = scan.read /\ scan'.phase = "done"
      /\ scan' = [phase |-> scan'.phase, force |-> scan'.force, why |-> scan'.why,
                  lines |-> scan'.lines, read |-> scan'.read, faults |-> scan'.faults,
                  report |-> scan'.report, reused |-> scan'.reused]
  BY DEF Store, Recorded, ScanInv, ScanShape
<1>2. /\ db'.lines = scan.lines /\ db'.graph = Built(Kept)
      /\ db' = [schema |-> db'.schema, stored |-> db'.stored, graph |-> db'.graph,
                lines |-> db'.lines]
  BY <1>1
<1>3. ScanShape'
  BY <1>1, <1>2 DEF ScanInv, ScanShape
<1>4. Current'
  <2>1. \A f \in Files : Built(Kept).facts[f] \in {Unread, scan.read[f]}
    BY DEF Built
  <2>2. QED BY <1>1, <1>2, <2>1 DEF ScanInv, Current, LooksNow
<1>5. DepthIsEarned'
  BY <1>2, BuiltDepthIsEarned DEF DepthIsEarned
<1>6. QED BY <1>3, <1>4, <1>5 DEF ScanInv

\* An edited file does not look as it did.
LEMMA EditStep ==
  ASSUME ScanInv, NEW g \in Files, NEW size \in {1, 2}, Edit(g, size)
  PROVE  ScanInv'
<1>0. \A f \in Files : world[f].version \in Versions
  BY DEF ScanInv, ScanShape
<1>1. /\ world' = [world EXCEPT ![g] = [size |-> size, version |-> world[g].version + 1]]
      /\ UNCHANGED <<db, scan>>
  BY DEF Edit
<1>2. world \in [Files -> [size : Nat, version : Versions]]
  BY DEF ScanInv, ScanShape
<1>3. [size |-> size, version |-> world[g].version + 1] \in [size : Nat, version : Versions]
  BY <1>0 DEF Versions
<1>4. world' \in [Files -> [size : Nat, version : Versions]]
  BY <1>1, <1>2, <1>3
<1>5. ScanShape'
  BY <1>1, <1>4 DEF ScanInv, ScanShape
<1>6. Current'
  <2> SUFFICES ASSUME NEW f \in Files \ Manifests
               PROVE  /\ db.lines[f][2] <= world'[f].version
                      /\ scan.lines[f][2] <= world'[f].version
                      /\ LooksNow(scan.lines, f)' => scan.read[f] \in {Unread, world'[f].version}
                      /\ LooksNow(db.lines, f)' =>
                           db.graph.facts[f] \in {Unread, world'[f].version}
    BY <1>1 DEF ScanInv, Current
  <2>1. db.lines[f][2] \in Nat /\ scan.lines[f][2] \in Nat
    BY DEF ScanInv, ScanShape, LineSet
  <2>2. db.lines[f][2] <= world[f].version /\ scan.lines[f][2] <= world[f].version
    BY DEF ScanInv, Current
  <2>3. CASE f = g
    <3>1. world'[f].version = world[f].version + 1
      BY <1>1, <1>2, <2>3
    <3>2. db.lines[f][2] < world'[f].version /\ scan.lines[f][2] < world'[f].version
      BY <1>0, <2>1, <2>2, <3>1 DEF Versions
    <3>3. ~LooksNow(scan.lines, f)' /\ ~LooksNow(db.lines, f)'
      BY <1>0, <1>1, <2>1, <3>1, <3>2 DEF LooksNow, Versions
    <3>4. QED BY <1>0, <2>1, <3>1, <3>2, <3>3 DEF Versions
  <2>4. CASE f # g
    <3>1. world'[f] = world[f]
      BY <1>1, <1>2, <2>4
    <3>2. QED BY <1>1, <2>2, <3>1 DEF ScanInv, Current, LooksNow
  <2>5. QED BY <2>3, <2>4
<1>7. DepthIsEarned'
  BY <1>1 DEF ScanInv, DepthIsEarned
<1>8. QED BY <1>5, <1>6, <1>7 DEF ScanInv

\* Every step of a scan.
LEMMA ScanSteps == ScanInv /\ ScanStep => ScanInv'
  BY QuietStep, DiscoverStep, StampStep, ReadStep, StoreStep DEF ScanStep

\* The same of a checkout somebody edits while it is scanned, and of a process that dies.
LEMMA LocalSteps == ScanInv /\ ScanNext => ScanInv'
<1> SUFFICES ASSUME ScanInv, ScanNext PROVE ScanInv'
  OBVIOUS
<1>1. CASE \E force \in BOOLEAN : Begin(force)
  BY <1>1, FreshStep DEF Begin
<1>2. CASE ScanStep
  BY <1>2, ScanSteps
<1>3. CASE Dies
  BY <1>3, FreshStep DEF Dies
<1>4. CASE \E f \in Files, size \in {1, 2} : Edit(f, size)
  BY <1>4, EditStep
<1>5. QED BY <1>1, <1>2, <1>3, <1>4 DEF ScanNext

-----------------------------------------------------------------------------
(* What one analyser's refused facts cost the others *)

\* A set of numbers that has a member has a least one.
LEMMA LeastIsThere ==
  ASSUME NEW S, S \subseteq Nat, S # {}
  PROVE  Min(S) \in S /\ \A x \in S : Min(S) <= x
<1> DEFINE Less == {p \in Nat \X Nat : p[1] < p[2]}
<1>1. Less = OpToRel(<, Nat)
  BY DEF OpToRel
<1>2. IsWellFoundedOn(Less, Nat)
  BY <1>1, NatLessThanWellFounded
<1> HIDE DEF Less
<1>3. \E x \in S : \A y \in S : <<y, x>> \notin Less
  BY <1>2, WFMin
<1>4. \A x, y \in S : <<y, x>> \notin Less => x <= y
  BY DEF Less
<1>5. \E x \in S : \A y \in S : x <= y
  BY <1>3, <1>4
<1>6. QED BY <1>5 DEF Min

\* The analysers are as many as were registered.
LEMMA AnalyzersAreFinite == IsFiniteSet(Analyzers)
<1>1. \A a \in Analyzers : \E n \in 1 .. Len(Registered) : Registered[n] = a
  BY RepositoryAssumption DEF Analyzers, ToSet
<1>2. QED BY <1>1, RepositoryAssumption DEF IsFiniteSet

Broken == {a \in Contributors : ~GraphAccepts({a})}
Clash  == \E pair \in kSubset(2, Analyzers) : Fault("clash", pair)

\* Analysers whose facts the graph takes one by one it takes together, unless two clash.
LEMMA SoundFactsAreAccepted ==
  ASSUME ~Clash, NEW kept \in SUBSET Contributors, kept \cap Broken = {}
  PROVE  GraphAccepts(kept)
<1>1. \A a \in kept : GraphAccepts({a}) /\ a \in Analyzers
  BY DEF Broken, Contributors
<1>2. \A a \in kept : ~Fault("refused", a)
  BY <1>1 DEF GraphAccepts
<1>3. \A pair \in kSubset(2, kept) : ~Fault("clash", pair)
  BY <1>1 DEF Clash, kSubset
<1>4. ASSUME NEW a \in kept, NEW e \in Edges(a) PROVE {e[1], e[2]} \subseteq Nodes(kept)
  <2>1. {e[1], e[2]} \subseteq Nodes({a})
    BY <1>1, <1>4 DEF GraphAccepts
  <2>2. Nodes({a}) \subseteq Nodes(kept)
    BY <1>4 DEF Nodes
  <2>3. QED BY <2>1, <2>2
<1>5. QED BY <1>2, <1>3, <1>4 DEF GraphAccepts

\* No other analyser supplies what the facts of a broken one lack: the units an edge
\* of it ends in are its own.
LEMMA BrokenFactsAreRefused ==
  ASSUME ~Clash, NEW kept \in SUBSET Contributors, NEW b \in kept \cap Broken
  PROVE  ~GraphAccepts(kept)
<1> SUFFICES ASSUME GraphAccepts(kept) PROVE FALSE
  OBVIOUS
<1>1. b \in Analyzers /\ ~GraphAccepts({b}) /\ kept \subseteq Analyzers
  BY DEF Broken, Contributors
<1>2. ~Fault("refused", b) /\ \A e \in Edges(b) : {e[1], e[2]} \subseteq Nodes(kept)
  BY DEF GraphAccepts
<1>3. \A pair \in kSubset(2, {b}) : ~Fault("clash", pair)
  BY <1>1 DEF Clash, kSubset
<1>4. PICK e \in Edges(b) : ~({e[1], e[2]} \subseteq Nodes({b}))
  BY <1>1, <1>2, <1>3 DEF GraphAccepts
<1>5. Nodes({b}) = Resolved(b)
  BY DEF Nodes
<1>6. e[1] \in Resolved(b) /\ e[2] \in Compiled(b) /\ e[2] \notin Resolved(b)
  BY <1>4, <1>5 DEF Edges
<1>7. PICK c \in kept : e[2] \in Resolved(c)
  BY <1>2, <1>4 DEF Nodes
<1>8. e[2] \in Sources[b] /\ e[2] \in Sources[c]
  BY <1>6, <1>7 DEF Resolved, Compiled
<1>9. b = c
  BY <1>1, <1>7, <1>8, RepositoryAssumption
<1>10. QED BY <1>6, <1>7, <1>9

\* At most one is broken: the only one whose removal helps is that one.
LEMMA OnlyTheBrokenIsDropped ==
  ASSUME ~Clash, Cardinality(Broken) <= 1
  PROVE  Contributors \ Broken \subseteq Kept
<1> DEFINE helps(i) == /\ Registered[i] \in Contributors
                       /\ GraphAccepts(Contributors \ {Registered[i]})
           suspects == {i \in DOMAIN Registered : helps(i)}
<1>1. CASE GraphAccepts(Contributors)
  BY <1>1 DEF Kept
<1>2. CASE ~GraphAccepts(Contributors)
  <2>1. PICK b \in Broken : TRUE
    BY <1>2, SoundFactsAreAccepted
  <2>2. Broken = {b}
    <3>1. Broken \subseteq Analyzers
      BY DEF Broken, Contributors
    <3>2. IsFiniteSet(Broken)
      BY <3>1, AnalyzersAreFinite, FS_Subset
    <3>3. Cardinality(Broken) \in Nat /\ Cardinality(Broken) # 0
      BY <2>1, <3>2, FS_CardinalityType, FS_EmptySet
    <3>4. Cardinality(Broken) = 1
      BY <3>3
    <3>5. PICK x : Broken = {x}
      BY <3>2, <3>4, FS_Singleton
    <3>6. QED BY <2>1, <3>5
  <2>3. b \in Contributors /\ b \in Analyzers
    BY DEF Broken, Contributors
  <2>4. GraphAccepts(Contributors \ {b})
    BY <2>2, SoundFactsAreAccepted
  <2>5. PICK k \in DOMAIN Registered : Registered[k] = b
    BY <2>3, RepositoryAssumption DEF Analyzers, ToSet
  <2>6. k \in suspects
    BY <2>3, <2>4, <2>5
  <2>7. \A i \in suspects : Registered[i] = b
    <3> SUFFICES ASSUME NEW i \in suspects, Registered[i] # b PROVE FALSE
      OBVIOUS
    <3>1. b \in (Contributors \ {Registered[i]}) \cap Broken
      BY <2>1, <2>3
    <3>2. GraphAccepts(Contributors \ {Registered[i]})
      OBVIOUS
    <3>3. QED BY <3>1, <3>2, BrokenFactsAreRefused
  <2>8. suspects \subseteq Nat /\ suspects # {}
    <3>1. Registered \in Seq(Analyzers)
      BY RepositoryAssumption
    <3>2. DOMAIN Registered \subseteq Nat
      BY <3>1
    <3>3. QED BY <2>6, <3>2
  <2>9. Registered[Min(suspects)] = b
    BY <2>7, <2>8, LeastIsThere
  <2>10. Kept = Contributors \ {b}
    BY <1>2, <2>8, <2>9 DEF Kept
  <2>11. QED BY <2>2, <2>10
<1>3. QED BY <1>1, <1>2

\* What a scan that did not reuse the stored graph has stored is what it kept.
KeptIsStored == scan.phase = "done" /\ ~scan.reused => db.graph.kept = Kept

\* What is kept depends on the faults met and on nothing else that changes.
LEMMA KeptIsTheSame ==
  ASSUME scan'.faults = scan.faults
  PROVE  Kept' = Kept
<1>1. \A kind, what : Fault(kind, what)' = Fault(kind, what)
  BY DEF Fault
<1>2. QED
  BY <1>1 DEF Kept, Contributors, Contributes, GraphAccepts, Nodes, Edges, Resolved,
     Compiled, Fault

\* No step of a scan, of an editor or of a process that dies leaves another graph.
LEMMA KeptStep ==
  ASSUME ScanInv, KeptIsStored, ScanNext \/ scan' = NewScan(FALSE) \/ UNCHANGED <<scan, db>>
  PROVE  KeptIsStored'
<1>1. CASE Store
  <2>1. db'.graph = Built(Kept) /\ scan'.faults = scan.faults
    BY <1>1 DEF Store, ScanInv, ScanShape
  <2>2. Built(Kept).kept = Kept
    BY DEF Built
  <2>3. QED BY <2>1, <2>2, KeptIsTheSame DEF KeptIsStored
<1>2. CASE UNCHANGED <<scan, db>>
  <2>1. Kept' = Kept
    BY <1>2, KeptIsTheSame
  <2>2. QED BY <1>2, <2>1 DEF KeptIsStored
<1>3. ASSUME scan'.phase # "done" \/ scan'.reused PROVE KeptIsStored'
  BY <1>3 DEF KeptIsStored
<1>4. CASE (\E force \in BOOLEAN : Begin(force)) \/ Dies \/ scan' = NewScan(FALSE)
  BY <1>3, <1>4 DEF Begin, Dies, NewScan
<1>5. CASE Discover \/ FindsNothing \/ LooksChanged \/ PrepareFails \/ StoreRefuses \/ Reuse
  <2>1. scan'.phase # "done" \/ scan'.reused
    BY <1>5 DEF Discover, FindsNothing, LooksChanged, PrepareFails, StoreRefuses, Reuse,
       Fails, Goes, ScanInv, ScanShape
  <2>2. QED BY <1>3, <2>1
<1>6. CASE (\E blips : Stamp(blips)) \/ (\E faults : Analyse(faults)) \/ Describe
  <2>1. scan'.phase # "done"
    BY <1>6 DEF Stamp, Analyse, Describe, ScanInv, ScanShape
  <2>2. QED BY <1>3, <2>1
<1>7. CASE \E f \in Files, size \in {1, 2} : Edit(f, size)
  BY <1>2, <1>7 DEF Edit
<1>8. QED BY <1>1, <1>2, <1>4, <1>5, <1>6, <1>7 DEF ScanNext, ScanStep

-----------------------------------------------------------------------------
(* The workflow *)

StageIds    == {"validate", "clone", "scan", "load", "complete"}
Statuses == {"pending", "active", "done", "failed", "skipped"}
Before   == {"making workspace", "probing", "cloning"}
Ending == {"disposing", "ended"}

\* The status of the five stages, in their order.
Shows(list, v, c, s, l, k) ==
  /\ list["validate"] = v /\ list["clone"] = c /\ list["scan"] = s
  /\ list["load"] = l /\ list["complete"] = k

ShowsDone(list) == Shows(list, "done", "done", "done", "done", "done")

ShowsFailure(list) ==
  \/ Shows(list, "failed", "skipped", "skipped", "skipped", "skipped")
  \/ Shows(list, "done", "failed", "skipped", "skipped", "skipped")
  \/ Shows(list, "done", "done", "failed", "skipped", "skipped")
  \/ Shows(list, "done", "done", "done", "failed", "skipped")

WorkShape ==
  /\ job = [phase |-> job.phase, failure |-> job.failure, warning |-> job.warning,
            aborted |-> job.aborted]
  /\ stages \in [StageIds -> Statuses]
  /\ job.phase \in {"none", "submitted", "scanning", "loading"} \cup Before \cup Ending

\* Where the workflow stands, in its stage list.
StagesStand ==
  /\ job.phase \notin Ending => job.failure = NoFailure
  /\ job.phase = "none" =>
       Shows(stages, "pending", "pending", "pending", "pending", "pending")
  /\ job.phase = "submitted" =>
       Shows(stages, "active", "pending", "pending", "pending", "pending")
  /\ job.phase = "making workspace" =>
       Shows(stages, "done", "pending", "pending", "pending", "pending")
  /\ job.phase \in {"probing", "cloning"} =>
       Shows(stages, "done", "active", "pending", "pending", "pending")
  /\ job.phase = "scanning" =>
       Shows(stages, "done", "done", "active", "pending", "pending")
  /\ job.phase = "loading" =>
       Shows(stages, "done", "done", "done", "active", "pending")
  /\ job.phase \in Ending =>
       IF job.failure = NoFailure THEN ShowsDone(stages) ELSE ShowsFailure(stages)

\* Where it stands, in its workspace and its scan.
WorkspaceStands ==
  /\ job.phase \in {"submitted", "loading"} \cup Before \cup Ending => scan.phase \in Resting
  /\ job.phase \in {"submitted", "making workspace"} => workspace = "none"
  /\ job.phase = "scanning" => workspace = "cloned"
  /\ job.phase = "ended" => workspace \in {"none", "gone"} \/ job.warning

WorkInv == WorkShape /\ StagesStand /\ WorkspaceStands

\* The five stages have five names.
LEMMA StageNames ==
  /\ Stages[1] = "validate" /\ Stages[2] = "clone" /\ Stages[3] = "scan"
  /\ Stages[4] = "load" /\ Stages[5] = "complete" /\ Len(Stages) = 5
  /\ ToSet(Stages) = StageIds
<1>1. /\ Stages[1] = "validate" /\ Stages[2] = "clone" /\ Stages[3] = "scan"
      /\ Stages[4] = "load" /\ Stages[5] = "complete" /\ Len(Stages) = 5
      /\ DOMAIN Stages = 1 .. 5
  BY DEF Stages
<1>2. ToSet(Stages) = {Stages[i] : i \in 1 .. 5}
  BY <1>1 DEF ToSet
<1>3. {Stages[i] : i \in 1 .. 5} = {Stages[1], Stages[2], Stages[3], Stages[4], Stages[5]}
  OBVIOUS
<1>4. QED BY <1>1, <1>2, <1>3 DEF StageIds

\* A failure is shown where the workflow stood, and nothing is left pending.
LEMMA FailureIsShown ==
  ASSUME WorkInv, NEW stage, NEW code, code # NoFailure, NEW to \in Ending,
         Gives(stage, code, to),
         \/ stage = "validate" /\ job.phase = "submitted"
         \/ stage = "clone" /\ job.phase \in Before
         \/ stage = "scan" /\ job.phase = "scanning"
         \/ stage = "load" /\ job.phase = "loading"
  PROVE  /\ stages' \in [StageIds -> Statuses] /\ ShowsFailure(stages')
         /\ job'.phase = to /\ job'.failure = code /\ job'.warning = job.warning
         /\ job' = [phase |-> job'.phase, failure |-> job'.failure, warning |-> job'.warning,
                    aborted |-> job'.aborted]
<1>1. /\ stages \in [StageIds -> Statuses] /\ stages' = Failed(stage)
      /\ job' = [job EXCEPT !.phase = to, !.failure = code]
  BY DEF Gives, WorkInv, WorkShape
<1>2. stages' = [s \in StageIds |-> IF s = stage THEN "failed"
                                 ELSE IF stages[s] = "pending" THEN "skipped" ELSE stages[s]]
  BY <1>1 DEF Failed
<1>3. stages' \in [StageIds -> Statuses]
  BY <1>1, <1>2 DEF Statuses
<1>4. ShowsFailure(stages')
  BY <1>2 DEF WorkInv, StagesStand, Shows, ShowsFailure, StageIds, Before, Ending
<1>5. QED BY <1>1, <1>3, <1>4 DEF WorkInv, WorkShape

\* The ways a workflow fails.
LEMMA FailureStep ==
  ASSUME WorkInv,
         \/ RejectsUrl \/ NoWorkspace \/ ProbeFindsNothing \/ ScanFails \/ LoadFails
         \/ \E code \in {"repository-too-large", "analysis-timeout", "clone-failed",
                          "network-failed", "repository-not-found", "repository-private"} :
              CloneFails(code)
  PROVE  WorkInv'
<1>1. CASE RejectsUrl
  <2>1. /\ job.phase = "submitted" /\ Gives("validate", "invalid-url", "ended")
        /\ "ended" \in Ending /\ "invalid-url" # NoFailure /\ UNCHANGED <<scan, workspace>>
    BY <1>1 DEF RejectsUrl, scanVars, Ending, NoFailure
  <2>2. /\ stages' \in [StageIds -> Statuses] /\ ShowsFailure(stages')
        /\ job'.phase = "ended" /\ job'.failure = "invalid-url"
        /\ job' = [phase |-> job'.phase, failure |-> job'.failure, warning |-> job'.warning,
                    aborted |-> job'.aborted]
    BY <2>1, FailureIsShown DEF Before
  <2>3. scan.phase \in Resting /\ workspace = "none"
    BY <2>1 DEF WorkInv, WorkspaceStands, Before
  <2>4. QED BY <2>1, <2>2, <2>3
    DEF WorkInv, WorkShape, StagesStand, WorkspaceStands, Ending, Before
<1>2. CASE NoWorkspace
  <2>1. /\ job.phase = "making workspace" /\ Gives("clone", "clone-failed", "ended")
        /\ "ended" \in Ending /\ "clone-failed" # NoFailure /\ UNCHANGED <<scan, workspace>>
    BY <1>2 DEF NoWorkspace, scanVars, Ending, NoFailure
  <2>2. /\ stages' \in [StageIds -> Statuses] /\ ShowsFailure(stages')
        /\ job'.phase = "ended" /\ job'.failure = "clone-failed"
        /\ job' = [phase |-> job'.phase, failure |-> job'.failure, warning |-> job'.warning,
                    aborted |-> job'.aborted]
    BY <2>1, FailureIsShown DEF Before
  <2>3. scan.phase \in Resting /\ workspace = "none"
    BY <2>1 DEF WorkInv, WorkspaceStands, Before
  <2>4. QED BY <2>1, <2>2, <2>3
    DEF WorkInv, WorkShape, StagesStand, WorkspaceStands, Ending, Before
<1>3. ASSUME NEW from \in {"probing", "cloning", "scanning", "loading"}, job.phase = from,
             NEW stage, \/ stage = "clone" /\ from \in Before
                        \/ stage = "scan" /\ from = "scanning" /\ scan.phase \in Resting
                        \/ stage = "load" /\ from = "loading",
             NEW code, code # NoFailure, Gives(stage, code, "disposing"),
             UNCHANGED <<scanVars, workspace>>
      PROVE  WorkInv'
  <2>1. "disposing" \in Ending
    BY DEF Ending
  <2>2. /\ stages' \in [StageIds -> Statuses] /\ ShowsFailure(stages')
        /\ job'.phase = "disposing" /\ job'.failure = code /\ job'.warning = job.warning
        /\ job' = [phase |-> job'.phase, failure |-> job'.failure, warning |-> job'.warning,
                    aborted |-> job'.aborted]
    BY <1>3, <2>1, FailureIsShown
  <2>3. scan.phase \in Resting /\ UNCHANGED scan
    BY <1>3 DEF WorkInv, WorkspaceStands, scanVars, Before
  <2>4. QED BY <1>3, <2>1, <2>2, <2>3
    DEF WorkInv, WorkShape, StagesStand, WorkspaceStands, Before, Ending
<1>4. CASE ProbeFindsNothing
  BY <1>3, <1>4 DEF ProbeFindsNothing, NoFailure, Before
<1>5. CASE ScanFails
  BY <1>3, <1>5 DEF ScanFails, NoFailure, Resting
<1>6. CASE LoadFails
  BY <1>3, <1>6 DEF LoadFails, NoFailure
<1>7. ASSUME NEW code \in {"repository-too-large", "analysis-timeout", "clone-failed",
                            "network-failed", "repository-not-found", "repository-private"},
             CloneFails(code)
      PROVE  WorkInv'
  BY <1>3, <1>7 DEF CloneFails, NoFailure, Before
<1>8. QED BY <1>1, <1>2, <1>4, <1>5, <1>6, <1>7

\* The ways it goes on, and its end.
LEMMA ProgressStep ==
  ASSUME WorkInv,
         \/ AcceptsUrl \/ MakesWorkspace \/ ProbeFallsThrough \/ CloneSucceeds
         \/ ScanReturns \/ Loads \/ \E removed \in BOOLEAN : Disposes(removed)
  PROVE  WorkInv'
<1>0. /\ stages \in [StageIds -> Statuses]
      /\ job = [phase |-> job.phase, failure |-> job.failure, warning |-> job.warning,
                aborted |-> job.aborted]
  BY DEF WorkInv, WorkShape
<1> USE DEF Step, Moves, WorkInv, WorkShape, StagesStand, WorkspaceStands, Shows, scanVars,
            StageIds, Statuses, Before, Ending
<1>1. CASE AcceptsUrl
  BY <1>0, <1>1 DEF AcceptsUrl
<1>2. CASE MakesWorkspace
  BY <1>0, <1>2 DEF MakesWorkspace
<1>3. CASE ProbeFallsThrough
  BY <1>0, <1>3 DEF ProbeFallsThrough
<1>4. CASE CloneSucceeds
  BY <1>0, <1>4 DEF CloneSucceeds
<1>5. CASE ScanReturns
  BY <1>0, <1>5 DEF ScanReturns, Resting
<1>6. CASE Loads
  BY <1>0, <1>6 DEF Loads, ShowsDone
<1>7. ASSUME NEW removed \in BOOLEAN, Disposes(removed) PROVE WorkInv'
  <2>1. /\ job' = [job EXCEPT !.phase = "ended", !.warning = ~removed]
        /\ workspace' = (IF removed THEN "gone" ELSE "leaked")
        /\ job.phase = "disposing" /\ UNCHANGED <<scan, stages>>
    BY <1>7 DEF Disposes
  <2>2. /\ job'.phase = "ended" /\ job'.failure = job.failure /\ job'.warning = ~removed
        /\ job' = [phase |-> job'.phase, failure |-> job'.failure, warning |-> job'.warning,
                    aborted |-> job'.aborted]
    BY <1>0, <2>1
  <2>3. workspace' \in {"none", "gone"} \/ job'.warning
    BY <2>1, <2>2
  <2>4. QED BY <1>0, <2>1, <2>2, <2>3 DEF ShowsDone, ShowsFailure
<1>8. QED BY <1>1, <1>2, <1>3, <1>4, <1>5, <1>6, <1>7

\* An abort shows a failed clone, or is only remembered.
LEMMA AbortStep ==
  ASSUME WorkInv, Aborts
  PROVE  WorkInv'
<1>0. /\ stages \in [StageIds -> Statuses]
      /\ job = [phase |-> job.phase, failure |-> job.failure, warning |-> job.warning,
                aborted |-> job.aborted]
  BY DEF WorkInv, WorkShape
<1>1. CASE job.phase = "cloning" /\ git \in Live
  <2>1. /\ stages' = Failed("clone") /\ UNCHANGED <<scan, workspace>>
        /\ job' = [job EXCEPT !.aborted = TRUE, !.phase = "disposing",
                              !.failure = "clone-failed"]
    BY <1>1 DEF Aborts, scanVars
  <2>2. stages' = [s \in StageIds |-> IF s = "clone" THEN "failed"
                                   ELSE IF stages[s] = "pending" THEN "skipped" ELSE stages[s]]
    BY <1>0, <2>1 DEF Failed
  <2>3. stages' \in [StageIds -> Statuses]
    BY <1>0, <2>2 DEF Statuses
  <2>4. ShowsFailure(stages')
    BY <1>1, <2>2 DEF WorkInv, StagesStand, Shows, ShowsFailure, StageIds
  <2>5. /\ job'.phase = "disposing" /\ job'.failure = "clone-failed"
        /\ job'.warning = job.warning
        /\ job' = [phase |-> job'.phase, failure |-> job'.failure, warning |-> job'.warning,
                    aborted |-> job'.aborted]
    BY <1>0, <2>1
  <2>6. scan.phase \in Resting
    BY <1>1 DEF WorkInv, WorkspaceStands, Before
  <2>7. QED BY <2>1, <2>3, <2>4, <2>5, <2>6
    DEF WorkInv, WorkShape, StagesStand, WorkspaceStands, NoFailure, Ending, Before
<1>2. CASE ~(job.phase = "cloning" /\ git \in Live)
  <2>1. /\ UNCHANGED <<scan, workspace, stages>> /\ job' = [job EXCEPT !.aborted = TRUE]
    BY <1>2 DEF Aborts, scanVars
  <2>2. /\ job'.phase = job.phase /\ job'.failure = job.failure
        /\ job'.warning = job.warning
        /\ job' = [phase |-> job'.phase, failure |-> job'.failure, warning |-> job'.warning,
                    aborted |-> job'.aborted]
    BY <1>0, <2>1
  <2>3. QED BY <2>1, <2>2
    DEF WorkInv, WorkShape, StagesStand, WorkspaceStands, Shows, ShowsDone, ShowsFailure
<1>3. QED BY <1>1, <1>2

-----------------------------------------------------------------------------
(* Both together *)

IInv == ScanInv /\ WorkInv /\ KeptIsStored

\* Nothing has been read, and the workflow has not begun.
LEMMA IInvInit == Init => IInv
<1> SUFFICES ASSUME Init PROVE IInv
  OBVIOUS
<1>1. /\ world = [f \in Files |-> [size |-> 1, version |-> 1]]
      /\ \E s \in {"absent", "old"} :
           db = [schema |-> s, stored |-> FALSE, graph |-> Blank, lines |-> NoLines]
      /\ scan = [NewScan(FALSE) EXCEPT !.phase = "idle"]
  BY DEF Init, ScanInit
<1>2. /\ db.graph = Blank /\ db.lines = NoLines
      /\ db = [schema |-> db.schema, stored |-> db.stored, graph |-> db.graph,
               lines |-> db.lines]
  BY <1>1
<1>3. /\ scan.lines = NoLines /\ scan.read = [f \in Files |-> Unread] /\ scan.phase = "idle"
      /\ scan = [phase |-> scan.phase, force |-> scan.force, why |-> scan.why,
                 lines |-> scan.lines, read |-> scan.read, faults |-> scan.faults,
                 report |-> scan.report, reused |-> scan.reused]
  BY <1>1 DEF NewScan
<1>4. NoLines \in [Files -> LineSet] /\ \A f \in Files : NoLines[f] = <<0, 0>>
  BY NewScanShape
<1>5. ScanShape
  <2>1. world \in [Files -> [size : Nat, version : Versions]]
    BY <1>1 DEF Versions
  <2>2. scan.read \in [Files -> Nat]
    BY <1>3 DEF Unread
  <2>3. QED BY <1>2, <1>3, <1>4, <2>1, <2>2 DEF ScanShape
<1>6. Current
  <2> SUFFICES ASSUME NEW f \in Files \ Manifests
               PROVE  /\ db.lines[f][2] <= world[f].version
                      /\ scan.lines[f][2] <= world[f].version
                      /\ scan.read[f] = Unread
                      /\ ~LooksNow(scan.lines, f) /\ ~LooksNow(db.lines, f)
    BY DEF Current
  <2>1. world[f].version = 1 /\ db.lines[f] = <<0, 0>> /\ scan.lines[f] = <<0, 0>>
    BY <1>1, <1>2, <1>3, <1>4
  <2>2. QED BY <1>3, <2>1 DEF LooksNow
<1>7. DepthIsEarned
  <2>1. \A r \in Regions : Blank.depth[r] = "universal"
    BY DEF Blank
  <2>2. QED BY <1>2, <2>1 DEF DepthIsEarned
<1>8. WorkInv
  <2>1. /\ job = NoJob \/ job = [NoJob EXCEPT !.phase = "submitted"]
        /\ stages = IF job = NoJob THEN Pending ELSE [Pending EXCEPT !["validate"] = "active"]
        /\ workspace = "none"
    BY DEF Init
  <2>2. Pending = [s \in StageIds |-> "pending"]
    BY StageNames DEF Pending
  <2>3. CASE job = NoJob
    <3>1. stages = [s \in StageIds |-> "pending"] /\ job.phase = "none" /\ job.failure = NoFailure
      BY <2>1, <2>2, <2>3 DEF NoJob
    <3>2. QED BY <2>3, <3>1
      DEF NoJob, WorkInv, WorkShape, StagesStand, WorkspaceStands, Shows, StageIds, Statuses,
          Before, Ending
  <2>4. CASE job = [NoJob EXCEPT !.phase = "submitted"]
    <3>1. job.phase = "submitted" /\ job.failure = NoFailure /\ job # NoJob
      BY <2>4 DEF NoJob
    <3>2. stages = [[s \in StageIds |-> "pending"] EXCEPT !["validate"] = "active"]
      BY <2>1, <2>2, <3>1
    <3>3. job = [phase |-> job.phase, failure |-> job.failure, warning |-> job.warning,
                aborted |-> job.aborted]
      BY <2>4 DEF NoJob
    <3>4. QED BY <1>3, <2>1, <3>1, <3>2, <3>3
      DEF WorkInv, WorkShape, StagesStand, WorkspaceStands, Shows, StageIds, Statuses,
          Before, Ending, Resting
  <2>5. QED BY <2>1, <2>3, <2>4
<1>9. KeptIsStored
  BY <1>3 DEF KeptIsStored
<1>10. QED BY <1>5, <1>6, <1>7, <1>8, <1>9 DEF IInv, ScanInv

\* Every step of the workflow, of git and of the scan.
LEMMA IInvNext == IInv /\ [Next]_aVars => IInv'
<1> SUFFICES ASSUME IInv, [Next]_aVars PROVE IInv'
  OBVIOUS
<1>0. ScanInv /\ WorkInv /\ KeptIsStored
  BY DEF IInv
<1>kept. KeptIsStored'
  <2>1. ScanNext \/ scan' = NewScan(FALSE) \/ UNCHANGED <<scan, db>>
    BY DEF Next, Locally, Scanning, Works, GitActs, ScanNext, aVars, scanVars, RejectsUrl,
       AcceptsUrl, NoWorkspace, MakesWorkspace, ProbeFindsNothing, ProbeFallsThrough,
       CloneFails, ScanFails, ScanReturns, LoadFails, Loads, Disposes, GitWrites,
       CloneSucceeds, OrphanExits, Exceeds, TimesOut, Aborts
  <2>2. QED BY <1>0, <2>1, KeptStep
<1>1. ASSUME UNCHANGED scanVars PROVE ScanInv'
  BY <1>0, <1>1 DEF scanVars, ScanInv, ScanShape, Current, LooksNow, DepthIsEarned
<1>2. ASSUME UNCHANGED <<job, stages>>, UNCHANGED <<scan, workspace>> PROVE WorkInv'
  BY <1>0, <1>2 DEF WorkInv, WorkShape, StagesStand, WorkspaceStands
<1>3. CASE Locally
  <2>1. ScanInv'
    BY <1>0, <1>3, LocalSteps DEF Locally
  <2>2. WorkInv'
    BY <1>0, <1>3 DEF Locally, workflow, WorkInv, WorkShape, StagesStand, WorkspaceStands,
       Before, Ending
  <2>3. QED BY <1>kept, <2>1, <2>2 DEF IInv
<1>4. CASE Scanning
  <2>1. ScanInv'
    BY <1>0, <1>4, ScanSteps DEF Scanning
  <2>2. WorkInv'
    BY <1>0, <1>4 DEF Scanning, workflow, WorkInv, WorkShape, StagesStand, WorkspaceStands,
       Before, Ending
  <2>3. QED BY <1>kept, <2>1, <2>2 DEF IInv
<1>5. CASE \/ RejectsUrl \/ NoWorkspace \/ ProbeFindsNothing \/ ScanFails \/ LoadFails
           \/ \E code \in {"repository-too-large", "analysis-timeout", "clone-failed",
                            "network-failed", "repository-not-found", "repository-private"} :
                CloneFails(code)
  <2>1. WorkInv'
    BY <1>0, <1>5, FailureStep
  <2>2. UNCHANGED scanVars
    BY <1>5 DEF RejectsUrl, NoWorkspace, ProbeFindsNothing, ScanFails, LoadFails, CloneFails
  <2>3. QED BY <1>kept, <1>1, <2>1, <2>2 DEF IInv
<1>6. CASE \/ AcceptsUrl \/ MakesWorkspace \/ ProbeFallsThrough
           \/ ScanReturns \/ Loads \/ \E removed \in BOOLEAN : Disposes(removed)
  <2>1. WorkInv'
    BY <1>0, <1>6, ProgressStep
  <2>2. UNCHANGED scanVars
    BY <1>6 DEF AcceptsUrl, MakesWorkspace, ProbeFallsThrough, ScanReturns, Loads, Disposes
  <2>3. QED BY <1>kept, <1>1, <2>1, <2>2 DEF IInv
<1>7. CASE CloneSucceeds
  <2>1. WorkInv'
    BY <1>0, <1>7, ProgressStep
  <2>2. scan' = NewScan(FALSE) /\ UNCHANGED <<world, db>>
    BY <1>7 DEF CloneSucceeds
  <2>3. ScanInv'
    BY <1>0, <2>2, FreshStep
  <2>4. QED BY <1>kept, <2>1, <2>3 DEF IInv
<1>8. CASE GitWrites
  <2>1. /\ UNCHANGED scanVars /\ UNCHANGED <<scan, job, stages>> /\ workspace = "empty"
    BY <1>8 DEF GitWrites, scanVars
  <2>2. WorkInv'
    BY <1>0, <2>1 DEF WorkInv, WorkShape, StagesStand, WorkspaceStands
  <2>3. QED BY <1>kept, <1>1, <2>1, <2>2 DEF IInv
<1>9. CASE TimesOut \/ Exceeds \/ OrphanExits \/ UNCHANGED aVars
  <2>1. UNCHANGED scanVars /\ UNCHANGED <<job, stages>> /\ UNCHANGED <<scan, workspace>>
    BY <1>9 DEF TimesOut, Exceeds, OrphanExits, aVars, workflow, scanVars
  <2>2. QED BY <1>kept, <1>1, <1>2, <2>1 DEF IInv
<1>10. CASE Aborts
  <2>1. WorkInv'
    BY <1>0, <1>10, AbortStep
  <2>2. UNCHANGED scanVars
    BY <1>10 DEF Aborts
  <2>3. QED BY <1>kept, <1>1, <2>1, <2>2 DEF IInv
<1>11. QED
  BY <1>3, <1>4, <1>5, <1>6, <1>7, <1>8, <1>9, <1>10 DEF Next, Works, GitActs

\* No region claims a depth whose facts the graph does not hold (capability-assessment.ts).
THEOREM DepthsAreEarned == Spec => []DepthIsEarned
<1>1. IInv => DepthIsEarned
  BY DEF IInv, ScanInv
<1>2. QED BY IInvInit, IInvNext, <1>1, PTL DEF Spec

\* A source that looks as it did is described as it is, whenever it is edited
\* (repository-pipeline.ts: the fingerprint is of what was there before the reading).
THEOREM SourcesAreCurrent == Spec => []UnchangedSourcesAreCurrent
<1>1. IInv => UnchangedSourcesAreCurrent
  BY DEF IInv, ScanInv, Current, LooksNow, UnchangedSourcesAreCurrent
<1>2. QED BY IInvInit, IInvNext, <1>1, PTL DEF Spec

\* Facts the graph refuses cost the analyser they came from, and no other
\* (tolerant-build.ts: the first whose removal helps is the broken one).
THEOREM OneFaultCostsOne == Spec => []OneFaultCostsOneAnalyser
<1>1. IInv => OneFaultCostsOneAnalyser
  <2> SUFFICES ASSUME KeptIsStored, scan.phase = "done", ~scan.reused, ~Clash,
                      Cardinality(Broken) <= 1
               PROVE  Contributors \ Broken \subseteq db.graph.kept
    BY DEF IInv, OneFaultCostsOneAnalyser, Broken, Clash
  <2>1. db.graph.kept = Kept
    BY DEF KeptIsStored
  <2>2. QED BY <2>1, OnlyTheBrokenIsDropped
<1>2. QED BY IInvInit, IInvNext, <1>1, PTL DEF Spec

\* The checkout outlives its readers and not the workflow (repository-analyzer.ts).
THEOREM WorkspaceOutlivesItsReaders == Spec => []WorkspaceIsThereForItsReaders
<1>1. IInv => WorkspaceIsThereForItsReaders
  BY DEF IInv, WorkInv, WorkShape, WorkspaceStands, WorkspaceIsThereForItsReaders, Before,
     Ending
<1>2. QED BY IInvInit, IInvNext, <1>1, PTL DEF Spec

\* The stage list tells the outcome at every moment (StageTracker).
THEOREM StagesAreTold == Spec => []StagesTellTheOutcome
<1>1. IInv => StagesTellTheOutcome
  <2> SUFFICES ASSUME IInv PROVE StagesTellTheOutcome
    OBVIOUS
  <2> DEFINE at(status) == {i \in 1 .. 5 : stages[Stages[i]] = status}
  <2>1. \A i \in 1 .. 5 : i = 1 \/ i = 2 \/ i = 3 \/ i = 4 \/ i = 5
    OBVIOUS
  <2>2. StagesStand /\ WorkShape
    BY DEF IInv, WorkInv
  <2>9. /\ stages[Stages[1]] = stages["validate"] /\ stages[Stages[2]] = stages["clone"]
        /\ stages[Stages[3]] = stages["scan"] /\ stages[Stages[4]] = stages["load"]
        /\ stages[Stages[5]] = stages["complete"]
    BY StageNames
  <2>10. \/ \E first \in {"pending", "active"} :
             Shows(stages, first, "pending", "pending", "pending", "pending")
        \/ \E second \in {"pending", "active"} :
             Shows(stages, "done", second, "pending", "pending", "pending")
        \/ Shows(stages, "done", "done", "active", "pending", "pending")
        \/ Shows(stages, "done", "done", "done", "active", "pending")
        \/ ShowsDone(stages) \/ ShowsFailure(stages)
    BY <2>2 DEF StagesStand, WorkShape, Before, Ending
  <2>3. \A i, j \in at("active") \cup at("failed") : i = j
    BY <2>1, <2>9, <2>10 DEF Shows, ShowsDone, ShowsFailure
  <2>4. \A i \in at("done") : 1 .. i \subseteq at("done")
    <3> SUFFICES ASSUME NEW i \in at("done"), NEW j \in 1 .. i
                 PROVE  stages[Stages[j]] = "done" /\ j \in 1 .. 5
      OBVIOUS
    <3>1. i \in 1 .. 5 /\ j \in 1 .. 5 /\ j <= i /\ stages[Stages[i]] = "done"
      OBVIOUS
    <3>2. QED BY <3>1, <2>1, <2>9, <2>10 DEF Shows, ShowsDone, ShowsFailure
  <2>5. (at("failed") # {}) = (job.failure # NoFailure)
    <3>1. ASSUME job.failure # NoFailure PROVE at("failed") # {}
      <4>1. ShowsFailure(stages)
        BY <2>2, <3>1 DEF StagesStand
      <4>2. \E i \in 1 .. 5 : stages[Stages[i]] = "failed"
        BY <4>1, <2>9 DEF Shows, ShowsFailure
      <4>3. QED BY <4>2
    <3>2. ASSUME job.failure = NoFailure PROVE at("failed") = {}
      BY <2>1, <2>2, <2>9, <3>2 DEF StagesStand, WorkShape, Shows, ShowsDone, Before, Ending
    <3>3. QED BY <3>1, <3>2
  <2>6. job.phase = "ended" => at("active") \cup at("pending") = {}
    BY <2>1, <2>2, StageNames
    DEF StagesStand, WorkShape, Shows, ShowsDone, ShowsFailure, Before, Ending
  <2>7. Len(Stages) = 5
    BY StageNames
  <2>8. QED BY <2>3, <2>4, <2>5, <2>6, <2>7 DEF StagesTellTheOutcome
<1>2. QED BY IInvInit, IInvNext, <1>1, PTL DEF Spec

-----------------------------------------------------------------------------
(* How far a type's supertypes are away *)

\* The types and those their clauses name.
WithKin(types) == types \cup UNION {Kin(t) : t \in types}

\* The levels up to the n-th.
IsRun(f, type, n) ==
  /\ f = [k \in 0 .. n |-> f[k]]
  /\ f[0] = {type} /\ \A k \in 0 .. n - 1 : f[k + 1] = WithKin(f[k])

\* They can be worked out up to any level.
LEMMA RunsExist == ASSUME NEW type, NEW n \in Nat PROVE \E f : IsRun(f, type, n)
<1> DEFINE Bad == {k \in Nat : ~ \E f : IsRun(f, type, k)}
<1> SUFFICES ASSUME Bad # {} PROVE FALSE
  OBVIOUS
<1>1. PICK a \in Bad : \A b \in Bad : a <= b
  BY LeastIsThere, Bad \subseteq Nat
<1>2. CASE a = 0
  <2> DEFINE f == [k \in 0 .. 0 |-> {type}]
  <2>1. IsRun(f, type, 0)
    BY DEF IsRun
  <2>2. QED BY <1>2, <2>1
<1>3. CASE a # 0
  <2>1. a - 1 \in Nat /\ a - 1 \notin Bad
    BY <1>1, <1>3
  <2>2. PICK f : IsRun(f, type, a - 1)
    BY <2>1
  <2> DEFINE g == [k \in 0 .. a |-> IF k = a THEN WithKin(f[a - 1]) ELSE f[k]]
  <2>3. g[0] = {type}
    BY <2>1, <2>2 DEF IsRun
  <2>4. ASSUME NEW k \in 0 .. a - 1 PROVE g[k + 1] = WithKin(g[k])
    <3>1. CASE k = a - 1
      BY <2>1, <3>1
    <3>2. CASE k # a - 1
      <4>1. k \in 0 .. (a - 1) - 1 /\ k + 1 \in 0 .. a /\ k + 1 # a /\ k # a
        BY <2>1, <3>2
      <4>2. f[k + 1] = WithKin(f[k])
        BY <2>2, <4>1 DEF IsRun
      <4>3. QED BY <4>1, <4>2
    <3>3. QED BY <3>1, <3>2
  <2>5. g = [k \in 0 .. a |-> g[k]]
    OBVIOUS
  <2> HIDE DEF g
  <2>6. IsRun(g, type, a)
    BY <2>3, <2>4, <2>5 DEF IsRun
  <2>7. QED BY <2>6
<1>4. QED BY <1>2, <1>3

\* And only one way.
LEMMA RunsAgree ==
  ASSUME NEW type, NEW m \in Nat, NEW n \in Nat, m <= n, NEW f, IsRun(f, type, m),
         NEW g, IsRun(g, type, n), NEW i \in 0 .. m
  PROVE  f[i] = g[i]
<1> DEFINE Bad == {k \in 0 .. m : f[k] # g[k]}
<1> SUFFICES ASSUME Bad # {} PROVE FALSE
  OBVIOUS
<1>1. PICK a \in Bad : \A b \in Bad : a <= b
  BY LeastIsThere, Bad \subseteq Nat
<1>2. a # 0
  BY DEF IsRun
<1>3. a - 1 \in 0 .. m - 1 /\ a - 1 \in 0 .. n - 1 /\ a - 1 \notin Bad /\ a - 1 \in 0 .. m /\ a = (a - 1) + 1
  BY <1>1, <1>2
<1>4. f[a] = WithKin(f[a - 1]) /\ g[a] = WithKin(g[a - 1])
  BY <1>3 DEF IsRun
<1>5. QED BY <1>3, <1>4

\* TypesWithin is what its equation says.
LEMMA Levels ==
  ASSUME NEW type
  PROVE  /\ TypesWithin(type)[0] = {type}
         /\ \A n \in Nat : TypesWithin(type)[n + 1] = WithKin(TypesWithin(type)[n])
<1> DEFINE Run(n) == CHOOSE f : IsRun(f, type, n)
           Solution == [n \in Nat |-> Run(n)[n]]
           Equation(within) ==
             [n \in Nat |-> IF n = 0 THEN {type}
                            ELSE within[n - 1] \cup UNION {Kin(t) : t \in within[n - 1]}]
<1>1. \A n \in Nat : IsRun(Run(n), type, n)
  BY RunsExist
<1>2. Solution[0] = {type}
  BY <1>1 DEF IsRun
<1>3. ASSUME NEW n \in Nat PROVE Solution[n + 1] = WithKin(Solution[n])
  <2> HIDE DEF Run
  <2>1. IsRun(Run(n), type, n) /\ IsRun(Run(n + 1), type, n + 1)
    BY <1>1
  <2>2. Run(n)[n] = Run(n + 1)[n]
    BY <2>1, RunsAgree
  <2>3. n \in 0 .. (n + 1) - 1
    OBVIOUS
  <2>4. Run(n + 1)[n + 1] = WithKin(Run(n + 1)[n])
    BY <2>1, <2>3 DEF IsRun
  <2>5. QED BY <2>2, <2>4
<1>4. Solution = Equation(Solution)
  <2> HIDE DEF Run
  <2>1. ASSUME NEW n \in Nat PROVE Solution[n] = Equation(Solution)[n]
    <3>1. CASE n = 0
      BY <1>2, <3>1
    <3>2. CASE n # 0
      <4>1. n - 1 \in Nat /\ n = (n - 1) + 1
        BY <3>2
      <4>2. Solution[n] = WithKin(Solution[n - 1])
        BY <1>3, <4>1
      <4> HIDE DEF Solution
      <4>3. QED BY <3>2, <4>2 DEF WithKin
    <3>3. QED BY <3>1, <3>2
  <2>2. DOMAIN Solution = Nat /\ DOMAIN Equation(Solution) = Nat
    OBVIOUS
  <2>3. QED BY <2>1, <2>2
<1> HIDE DEF Solution
<1>5. TypesWithin(type) = CHOOSE within : within = Equation(within)
  BY DEF TypesWithin
<1>6. TypesWithin(type) = Equation(TypesWithin(type))
  BY <1>4, <1>5
<1> HIDE DEF Equation
<1>7. TypesWithin(type)[0] = {type}
  BY <1>6 DEF Equation
<1>8. ASSUME NEW n \in Nat PROVE TypesWithin(type)[n + 1] = WithKin(TypesWithin(type)[n])
  <2>1. TypesWithin(type)[n + 1] = Equation(TypesWithin(type))[n + 1]
    BY <1>6
  <2>2. Equation(TypesWithin(type))[n + 1]
          = TypesWithin(type)[(n + 1) - 1] \cup UNION {Kin(t) : t \in TypesWithin(type)[(n + 1) - 1]}
    BY DEF Equation
  <2>3. (n + 1) - 1 = n
    OBVIOUS
  <2>4. QED BY <2>1, <2>2, <2>3 DEF WithKin
<1>9. QED BY <1>7, <1>8
\* What is near is not far.
LEMMA LevelsGrow ==
  ASSUME NEW type, NEW m \in Nat, NEW n \in Nat, m <= n
  PROVE  TypesWithin(type)[m] \subseteq TypesWithin(type)[n]
<1> DEFINE L == TypesWithin(type)
           Bad == {k \in Nat : m <= k /\ ~(L[m] \subseteq L[k])}
<1> SUFFICES ASSUME Bad # {} PROVE FALSE
  OBVIOUS
<1>1. PICK a \in Bad : \A b \in Bad : a <= b
  BY LeastIsThere, Bad \subseteq Nat
<1>2. a # m /\ a - 1 \in Nat /\ m <= a - 1 /\ a = (a - 1) + 1 /\ a - 1 \notin Bad
  BY <1>1
<1>3. L[a] = WithKin(L[a - 1])
  BY <1>2, Levels
<1> HIDE DEF L
<1>4. QED BY <1>2, <1>3 DEF WithKin

-----------------------------------------------------------------------------
(* The supertypes of a program that is walked *)

Walking == {"python", "java", "go"}

\* A walked program has finitely many clauses.
IsWalked == language \in Walking /\ IsFiniteSet(DOMAIN SuperClauses)

LEMMA HeirsAreFinite == IsWalked => IsFiniteSet(Heirs) /\ Cardinality(Heirs) \in Nat
<1> SUFFICES ASSUME IsWalked PROVE IsFiniteSet(Heirs)
  BY FS_CardinalityType
<1> DEFINE f == [i \in DOMAIN SuperClauses |-> SuperClauses[i].type]
<1>1. f \in Surjection(DOMAIN SuperClauses, Heirs)
  BY DEF Surjection, Heirs
<1>2. QED BY <1>1, FS_Surjection DEF IsWalked

\* A list of as many members as some positions have.
LEMMA ListIsThere ==
  ASSUME NEW S, NEW D, IsFiniteSet(D), NEW list, list = [k \in 1 .. Cardinality(D) |-> list[k]]
  PROVE  list \in Seq(ToSet(list)) /\ (ToSet(list) # {} => D # {})
<1>1. Cardinality(D) \in Nat
  BY FS_CardinalityType
<1>2. \A k \in 1 .. Cardinality(D) : list[k] \in ToSet(list)
  BY DEF ToSet
<1>3. list \in [1 .. Cardinality(D) -> ToSet(list)]
  BY <1>2
<1>4. D = {} => DOMAIN list = {}
  BY FS_EmptySet
<1>5. D = {} => ToSet(list) = {}
  BY <1>4 DEF ToSet
<1>6. QED BY <1>1, <1>3, <1>5

\* A size is a size in every module.
LEMMA SizesAgree ==
  ASSUME NEW S
  PROVE  /\ Python(program)!Cardinality(S) = Cardinality(S) /\ Java(program)!Cardinality(S) = Cardinality(S)
         /\ Go(program)!Cardinality(S) = Cardinality(S)
  BY DEF Cardinality, Python!Cardinality, Java!Cardinality, Go!Cardinality

\* Supertypes come as a list, and only to a type that a clause is about.
LEMMA SupersAreListed ==
  ASSUME IsWalked, NEW type
  PROVE  SupersOf(type) \in Seq(Kin(type)) /\ (Kin(type) # {} => type \in Heirs)
<1> DEFINE Mine == {i \in DOMAIN SuperClauses : SuperClauses[i].type = type}
           IsList(list, D) == list = [k \in 1 .. Cardinality(D) |-> list[k]]
<1>1. \E D \in SUBSET Mine : IsList(SupersOf(type), D)
  <2>1. CASE language = "python"
    <3> DEFINE D == {i \in DOMAIN program.bases :
                       /\ program.bases[i].type = type
                       /\ Python(program)!InScope(type.file, program.bases[i].name) # None}
    <3>1. D \in SUBSET Mine
      BY <2>1 DEF SuperClauses
    <3>2. IsList(Python(program)!Supers(type), D)
      BY SizesAgree DEF Python!Supers
    <3>3. SupersOf(type) = Python(program)!Supers(type)
      BY <2>1 DEF SupersOf
    <3>4. QED BY <3>1, <3>2, <3>3
  <2>2. CASE language = "java"
    <3> DEFINE D == {i \in DOMAIN program.supers :
                       /\ program.supers[i].type = type
                       /\ Java(program)!Lookup(type.file, program.supers[i].name) # None}
    <3>1. D \in SUBSET Mine
      BY <2>2 DEF SuperClauses
    <3>2. IsList(Java(program)!Supers(type), D)
      BY SizesAgree DEF Java!Supers
    <3>3. SupersOf(type) = Java(program)!Supers(type)
      BY <2>2 DEF SupersOf
    <3>4. QED BY <3>1, <3>2, <3>3
  <2>3. CASE language = "go"
    <3> DEFINE D == {i \in DOMAIN program.embeds :
                       /\ program.embeds[i].type = type
                       /\ Go(program)!Lookup(type.file, program.embeds[i].named) # None}
    <3>1. D \in SUBSET Mine
      BY <2>3 DEF SuperClauses
    <3>2. IsList(Go(program)!Supers(type), D)
      BY SizesAgree DEF Go!Supers
    <3>3. SupersOf(type) = Go(program)!Supers(type)
      BY <2>3 DEF SupersOf
    <3>4. QED BY <3>1, <3>2, <3>3
  <2>4. QED BY <2>1, <2>2, <2>3 DEF IsWalked, Walking
<1>2. PICK D \in SUBSET Mine : IsList(SupersOf(type), D)
  BY <1>1
<1>3. IsFiniteSet(D)
  BY FS_Subset DEF IsWalked
<1>4. SupersOf(type) \in Seq(Kin(type)) /\ (Kin(type) # {} => D # {})
  BY <1>2, <1>3, ListIsThere DEF Kin
<1>5. QED BY <1>4 DEF Heirs

\* A level that still brings something new is at most as far as there are types with supertypes:
\* each level before it has one that the level before had not.
LEMMA LevelsStop ==
  ASSUME IsWalked, NEW type, NEW n \in Nat, n # 0,
         TypesWithin(type)[n] # TypesWithin(type)[n - 1]
  PROVE  n <= Cardinality(Heirs)
<1> DEFINE L == TypesWithin(type)
           H(k) == L[k] \cap Heirs
<1>a. \A k \in Nat : L[k + 1] = WithKin(L[k])
  BY Levels
<1>b. L[n] # L[n - 1]
  OBVIOUS
<1>c. \A k \in Nat : L[k] \subseteq L[k + 1]
  BY <1>a DEF WithKin
<1>d. L[0] = {type}
  BY Levels
<1> HIDE DEF L
<1>1. \A k \in 0 .. n - 1 : L[k + 1] # L[k]
  <2> DEFINE Bad == {j \in 0 .. n - 1 : L[n - j] = L[(n - j) - 1]}
  <2>1. Bad = {}
    <3> SUFFICES ASSUME Bad # {} PROVE FALSE
      OBVIOUS
    <3>1. PICK j \in Bad : \A b \in Bad : j <= b
      BY LeastIsThere, Bad \subseteq Nat
    <3>2. j # 0
      BY <1>b
    <3>3. j - 1 \in 0 .. n - 1 /\ j - 1 \notin Bad
      BY <3>1, <3>2
    <3>4. L[n - (j - 1)] # L[(n - (j - 1)) - 1]
      BY <3>3
    <3>5. n - (j - 1) = (n - j) + 1 /\ (n - (j - 1)) - 1 = n - j /\ n - j \in Nat
          /\ (n - j) - 1 \in Nat /\ ((n - j) - 1) + 1 = n - j
      BY <3>2
    <3>6. L[(n - j) + 1] = WithKin(L[n - j]) /\ L[n - j] = WithKin(L[(n - j) - 1])
      BY <1>a, <3>5
    <3>7. L[n - j] = L[(n - j) - 1]
      OBVIOUS
    <3>8. QED BY <3>4, <3>5, <3>6, <3>7
  <2>2. ASSUME NEW k \in 0 .. n - 1 PROVE L[k + 1] # L[k]
    <3>1. n - (k + 1) \in 0 .. n - 1 /\ n - (n - (k + 1)) = k + 1 /\ (n - (n - (k + 1))) - 1 = k
      OBVIOUS
    <3>2. n - (k + 1) \notin Bad
      BY <2>1
    <3>3. QED BY <3>1, <3>2
  <2>3. QED BY <2>2
<1>2. ASSUME NEW k \in 0 .. n - 1
      PROVE  \E t \in H(k) : k > 0 => t \notin L[k - 1]
  <2>1. L[k + 1] = WithKin(L[k]) /\ L[k + 1] # L[k]
    BY <1>a, <1>1
  <2>2. PICK t \in L[k] : ~(Kin(t) \subseteq L[k])
    BY <2>1 DEF WithKin
  <2>3. t \in Heirs
    BY <2>2, SupersAreListed
  <2>4. ASSUME k > 0, t \in L[k - 1] PROVE FALSE
    <3>1. k - 1 \in Nat /\ (k - 1) + 1 = k
      BY <2>4
    <3>2. L[k] = WithKin(L[k - 1])
      BY <3>1, <1>a
    <3>3. QED BY <2>2, <2>4, <3>2 DEF WithKin
  <2>5. QED BY <2>2, <2>3, <2>4
<1>3. \A k \in Nat : IsFiniteSet(H(k)) /\ Cardinality(H(k)) \in Nat /\ Cardinality(H(k)) <= Cardinality(Heirs)
  BY HeirsAreFinite, FS_Subset, FS_CardinalityType
<1>4. \A k \in 0 .. n - 1 : k + 1 <= Cardinality(H(k))
  <2> DEFINE Bad == {k \in 0 .. n - 1 : ~(k + 1 <= Cardinality(H(k)))}
  <2> SUFFICES ASSUME Bad # {} PROVE FALSE
    OBVIOUS
  <2>1. PICK a \in Bad : \A b \in Bad : a <= b
    BY LeastIsThere, Bad \subseteq Nat
  <2>2. PICK t \in H(a) : a > 0 => t \notin L[a - 1]
    BY <1>2
  <2>3. CASE a = 0
    <3>1. IsFiniteSet(H(a)) /\ H(a) # {}
      BY <1>3, <2>2
    <3>2. Cardinality(H(a)) # 0
      BY <3>1, FS_EmptySet
    <3> HIDE DEF H
    <3>3. QED BY <1>3, <2>3, <3>2
  <2>4. CASE a # 0
    <3>1. a - 1 \in 0 .. n - 1 /\ a - 1 \notin Bad /\ a - 1 \in Nat /\ (a - 1) + 1 = a
      BY <2>1, <2>4
    <3>2. a <= Cardinality(H(a - 1))
      BY <3>1
    <3>3. H(a - 1) \cup {t} \subseteq H(a)
      BY <1>c, <3>1, <2>2
    <3>4. t \notin H(a - 1)
      BY <2>2, <2>4
    <3> HIDE DEF H
    <3>5. Cardinality(H(a - 1) \cup {t}) = Cardinality(H(a - 1)) + 1
      BY <1>3, <3>1, <3>4, FS_AddElement
    <3>6. Cardinality(H(a - 1) \cup {t}) <= Cardinality(H(a))
      BY <1>3, <3>3, FS_Subset
    <3>7. Cardinality(H(a)) \in Nat /\ Cardinality(H(a - 1)) \in Nat /\ ~(a + 1 <= Cardinality(H(a)))
      BY <1>3, <3>1
    <3>8. QED BY <3>2, <3>5, <3>6, <3>7
  <2>5. QED BY <2>3, <2>4
<1>5. n - 1 \in 0 .. n - 1 /\ n - 1 \in Nat /\ (n - 1) + 1 = n
  OBVIOUS
<1> HIDE DEF H
<1>6. n <= Cardinality(H(n - 1)) /\ Cardinality(H(n - 1)) \in Nat
  BY <1>3, <1>4, <1>5
<1>7. QED BY <1>3, <1>5, <1>6, HeirsAreFinite
-----------------------------------------------------------------------------
(* What is nearest *)

\* A member that a type has, when no type of the levels before has one, is nearest.
LEMMA NearestIs ==
  ASSUME IsWalked, NEW type, NEW member, NEW n \in Nat, n <= Cardinality(Heirs),
         NEW t \in TypesWithin(type)[n], MemberOf(t, member) # None,
         \A m \in 0 .. n - 1 : \A u \in TypesWithin(type)[m] : MemberOf(u, member) = None
  PROVE  MemberOf(t, member) \in Nearest(type, member)
<1> DEFINE Seen(i) == {MemberOf(u, member) : u \in TypesWithin(type)[i]} \ {None}
           far == Cardinality(Heirs)
           Is(i) == Seen(i) # {} /\ \A m \in 0 .. i - 1 : Seen(m) = {}
           depth == CHOOSE i \in 0 .. far : Is(i)
<1>1. far \in Nat
  BY HeirsAreFinite
<1>2. MemberOf(t, member) \in Seen(n) /\ \A m \in 0 .. n - 1 : Seen(m) = {}
  OBVIOUS
<1>3. MemberOf(t, member) \in Seen(far)
  BY <1>1, LevelsGrow
<1>4. Nearest(type, member) = Seen(depth)
  BY <1>3 DEF Nearest
<1> HIDE DEF Seen
<1>5. n \in 0 .. far /\ Is(n)
  BY <1>1, <1>2
<1>6. depth \in 0 .. far /\ Is(depth)
  BY <1>5
<1> HIDE DEF depth
<1>7. depth = n
  <2>1. ~(depth < n)
    BY <1>1, <1>2, <1>6
  <2>2. ~(n < depth)
    BY <1>1, <1>2, <1>6
  <2>3. QED BY <1>1, <1>6, <2>1, <2>2
<1>8. QED BY <1>2, <1>4, <1>7

\* Nothing is nearest if types that are closed under their supertypes have no such member.
LEMMA NothingIsNearest ==
  ASSUME IsWalked, NEW type, NEW member, NEW types, type \in types,
         \A t \in types : MemberOf(t, member) = None /\ Kin(t) \subseteq types
  PROVE  Nearest(type, member) = {}
<1> DEFINE L == TypesWithin(type)
           Bad == {k \in Nat : ~(L[k] \subseteq types)}
<1>1. Bad = {}
  <2> SUFFICES ASSUME Bad # {} PROVE FALSE
    OBVIOUS
  <2>1. PICK a \in Bad : \A b \in Bad : a <= b
    BY LeastIsThere, Bad \subseteq Nat
  <2>2. a # 0
    BY Levels
  <2>3. a - 1 \in Nat /\ a - 1 \notin Bad /\ a = (a - 1) + 1
    BY <2>1, <2>2
  <2>4. L[a] = WithKin(L[a - 1])
    BY <2>3, Levels
  <2> HIDE DEF L
  <2>5. QED BY <2>3, <2>4 DEF WithKin
<1>2. Cardinality(Heirs) \in Nat
  BY HeirsAreFinite
<1>3. \A t \in L[Cardinality(Heirs)] : MemberOf(t, member) = None
  BY <1>1, <1>2
<1>4. QED BY <1>3 DEF Nearest

-----------------------------------------------------------------------------
(* Breadth first *)

\* The queue holds what is left of one level, all of which is visited or in it, and then
\* types of the next.
IsBreadth(type, member, queue, visited, n, k) ==
  LET L == TypesWithin(type)
  IN  /\ queue \in Seq(UNION {L[i] : i \in Nat})
      /\ n \in Nat /\ k \in 0 .. Len(queue)
      /\ \A i \in 1 .. Len(queue) : queue[i] \in L[n + 1]
      /\ \A i \in 1 .. k : queue[i] \in L[n]
      /\ L[n] \subseteq visited \cup {queue[i] : i \in 1 .. k}
      /\ n > 0 => L[n - 1] \subseteq visited
      /\ \A v \in visited :
           /\ MemberOf(v, member) = None
           /\ Kin(v) \subseteq visited \cup {queue[i] : i \in 1 .. Len(queue)}

Breadth(type, member, queue, visited) ==
  \E n, k \in Nat : IsBreadth(type, member, queue, visited, n, k)

\* A walk begins at its type.
LEMMA BreadthBegins ==
  ASSUME NEW type, NEW member
  PROVE  Breadth(type, member, <<type>>, {})
<1> DEFINE L == TypesWithin(type)
<1>1. L[0] = {type} /\ L[0] \subseteq L[0 + 1]
  BY Levels, LevelsGrow
<1> HIDE DEF L
<1>2. <<type>> \in Seq(UNION {L[i] : i \in Nat})
  BY <1>1
<1>3. IsBreadth(type, member, <<type>>, {}, 0, 1)
  <2> DEFINE queue == <<type>>
  <2>1. Len(queue) = 1 /\ \A i \in 1 .. 1 : queue[i] = type
    OBVIOUS
  <2>2. {queue[i] : i \in 1 .. 1} = {type}
    BY <2>1
  <2> HIDE DEF queue
  <2>3. IsBreadth(type, member, queue, {}, 0, 1)
    BY <1>1, <1>2, <2>1, <2>2 DEF IsBreadth, L, queue
  <2>4. QED BY <2>3 DEF queue
<1>4. QED BY <1>3 DEF Breadth

\* What is next in the queue is of the level under way, or begins the next.
LEMMA BreadthHead ==
  ASSUME NEW type, NEW member, NEW queue, NEW visited, queue # <<>>,
         Breadth(type, member, queue, visited)
  PROVE  \E n \in Nat, k \in 1 .. Len(queue) : IsBreadth(type, member, queue, visited, n, k)
<1> DEFINE L == TypesWithin(type)
<1>1. PICK n, k \in Nat : IsBreadth(type, member, queue, visited, n, k)
  BY DEF Breadth
<1>2. CASE k # 0
  <2>1. k \in 0 .. Len(queue)
    BY <1>1 DEF IsBreadth
  <2>2. k \in 1 .. Len(queue)
    BY <1>2, <2>1
  <2>3. QED BY <1>1, <2>2
<1>3. CASE k = 0
  <2>1. queue \in Seq(UNION {L[i] : i \in Nat}) /\ Len(queue) \in Nat \ {0}
    BY <1>1, EmptySeq DEF IsBreadth
  <2>2. L[n] \subseteq visited
    BY <1>1, <1>3 DEF IsBreadth
  <2>3. L[n + 1] = WithKin(L[n]) /\ L[n + 1] \subseteq L[(n + 1) + 1]
    BY Levels, LevelsGrow
  <2>4. L[n + 1] \subseteq visited \cup {queue[i] : i \in 1 .. Len(queue)}
    BY <1>1, <2>2, <2>3 DEF IsBreadth, WithKin
  <2>5. \A i \in 1 .. Len(queue) : queue[i] \in L[n + 1] /\ queue[i] \in L[(n + 1) + 1]
    BY <1>1, <2>3 DEF IsBreadth
  <2>6. \A v \in visited :
           /\ MemberOf(v, member) = None
           /\ Kin(v) \subseteq visited \cup {queue[i] : i \in 1 .. Len(queue)}
    BY <1>1 DEF IsBreadth
  <2>7. (n + 1) - 1 = n /\ n + 1 \in Nat
    OBVIOUS
  <2>8. IsBreadth(type, member, queue, visited, n + 1, Len(queue))
    <3>1. Len(queue) \in 0 .. Len(queue) /\ n + 1 > 0
      BY <2>1
    <3>2. L[n + 1 - 1] \subseteq visited
      BY <2>2, <2>7
    <3> HIDE DEF L
    <3>3. QED BY <2>1, <2>4, <2>5, <2>6, <2>7, <3>1, <3>2 DEF IsBreadth, L
  <2>9. QED BY <2>1, <2>7, <2>8
<1>4. QED BY <1>2, <1>3

\* A turn that finds nothing goes on to the next: what it adds is a level further, and neither
\* what was to be visited nor what that leads to is forgotten.
LEMMA BreadthPasses ==
  ASSUME NEW type, NEW member, NEW queue, NEW visited, queue # <<>>,
         Breadth(type, member, queue, visited), MemberOf(Head(queue), member) = None,
         NEW behind \in Seq(Kin(Head(queue))),
         Head(queue) \in visited \/ ToSet(behind) = Kin(Head(queue))
  PROVE  Breadth(type, member, Tail(queue) \o behind, visited \cup {Head(queue)})
<1> DEFINE L == TypesWithin(type)
           U == UNION {L[i] : i \in Nat}
           head == Head(queue)
           rest == Tail(queue) \o behind
           left == Len(queue) - 1
<1>1. PICK n \in Nat, k \in 1 .. Len(queue) : IsBreadth(type, member, queue, visited, n, k)
  BY BreadthHead
<1>2. queue \in Seq(U) /\ Len(queue) \in Nat \ {0} /\ left \in Nat
  BY <1>1, EmptySeq DEF IsBreadth
<1>3. head = queue[1] /\ head \in L[n]
  BY <1>1, <1>2 DEF IsBreadth
<1>4. Kin(head) \subseteq L[n + 1]
  <2>1. L[n + 1] = WithKin(L[n])
    BY Levels
  <2> HIDE DEF L, head
  <2>2. QED BY <1>3, <2>1 DEF WithKin
<1>5. Kin(head) \subseteq U
  BY <1>4
<1>6. behind \in Seq(U)
  BY <1>5, SeqMonotonic
<1>7. rest \in Seq(U) /\ Len(rest) = left + Len(behind) /\ Len(behind) \in Nat
  BY <1>2, <1>6
<1>8. \A i \in 1 .. left : rest[i] = queue[i + 1]
  BY <1>2, <1>6
<1>9. \A i \in 1 .. Len(behind) : rest[left + i] = behind[i]
  BY <1>2, <1>6
<1>10. \A i \in 1 .. Len(behind) : behind[i] \in Kin(head)
  OBVIOUS
<1> HIDE DEF rest, head, L
<1>11. \A i \in 1 .. Len(rest) : rest[i] \in L[n + 1]
  <2> SUFFICES ASSUME NEW i \in 1 .. Len(rest) PROVE rest[i] \in L[n + 1]
    OBVIOUS
  <2>1. CASE i <= left
    <3>1. i + 1 \in 1 .. Len(queue) /\ rest[i] = queue[i + 1]
      BY <1>2, <1>8, <2>1
    <3>2. queue[i + 1] \in L[n + 1]
      BY <1>1, <3>1 DEF IsBreadth, L
    <3>3. QED BY <3>1, <3>2
  <2>2. CASE ~(i <= left)
    <3>1. i - left \in 1 .. Len(behind) /\ left + (i - left) = i
      BY <1>2, <1>7, <2>2
    <3>2. rest[i] \in Kin(head)
      BY <1>9, <1>10, <3>1
    <3>3. QED BY <1>4, <3>2
  <2>3. QED BY <2>1, <2>2
<1>12. \A i \in 1 .. k - 1 : rest[i] \in L[n]
  <2> SUFFICES ASSUME NEW i \in 1 .. k - 1 PROVE rest[i] \in L[n]
    OBVIOUS
  <2>1. i \in 1 .. left /\ i + 1 \in 1 .. k
    BY <1>2
  <2>2. QED BY <1>1, <1>8, <2>1 DEF IsBreadth, L
<1>13. {queue[i] : i \in 1 .. k} \subseteq {head} \cup {rest[i] : i \in 1 .. k - 1}
  <2> SUFFICES ASSUME NEW i \in 1 .. k, i # 1 PROVE queue[i] \in {rest[j] : j \in 1 .. k - 1}
    BY <1>3
  <2>1. i - 1 \in 1 .. left /\ i - 1 \in 1 .. k - 1 /\ (i - 1) + 1 = i
    BY <1>2
  <2>2. QED BY <1>8, <2>1
<1>14. {queue[i] : i \in 1 .. Len(queue)} \subseteq {head} \cup {rest[i] : i \in 1 .. Len(rest)}
  <2> SUFFICES ASSUME NEW i \in 1 .. Len(queue), i # 1 PROVE queue[i] \in {rest[j] : j \in 1 .. Len(rest)}
    BY <1>3
  <2>1. i - 1 \in 1 .. left /\ i - 1 \in 1 .. Len(rest) /\ (i - 1) + 1 = i
    BY <1>2, <1>7
  <2>2. QED BY <1>8, <2>1
<1>15. ToSet(behind) \subseteq {rest[i] : i \in 1 .. Len(rest)}
  <2> SUFFICES ASSUME NEW i \in DOMAIN behind PROVE behind[i] \in {rest[j] : j \in 1 .. Len(rest)}
    BY DEF ToSet
  <2>1. DOMAIN behind = 1 .. Len(behind)
    OBVIOUS
  <2>2. i \in 1 .. Len(behind)
    BY <2>1
  <2>3. left \in Nat /\ Len(behind) \in Nat /\ Len(rest) = left + Len(behind)
    BY <1>2, <1>7
  <2> HIDE DEF left
  <2>4. left + i \in 1 .. Len(rest)
    BY ONLY <2>2, <2>3
  <2>5. QED BY <1>9, <2>2, <2>4
<1>16. \A v \in visited \cup {head} :
         /\ MemberOf(v, member) = None
         /\ Kin(v) \subseteq (visited \cup {head}) \cup {rest[i] : i \in 1 .. Len(rest)}
  <2> SUFFICES ASSUME NEW v \in visited \cup {head}
               PROVE  /\ MemberOf(v, member) = None
                      /\ Kin(v) \subseteq (visited \cup {head}) \cup {rest[i] : i \in 1 .. Len(rest)}
    OBVIOUS
  <2>1. CASE v \in visited
    <3>1. MemberOf(v, member) = None /\ Kin(v) \subseteq visited \cup {queue[i] : i \in 1 .. Len(queue)}
      BY <1>1, <2>1 DEF IsBreadth
    <3>2. QED BY <1>14, <3>1
  <2>2. CASE v \notin visited
    <3>1. v = head /\ MemberOf(v, member) = None /\ Kin(v) = ToSet(behind)
      BY <2>2 DEF head
    <3>2. QED BY <1>15, <3>1
  <2>3. QED BY <2>1, <2>2
<1>17. L[n] \subseteq (visited \cup {head}) \cup {rest[i] : i \in 1 .. k - 1}
  <2>1. L[n] \subseteq visited \cup {queue[i] : i \in 1 .. k}
    BY <1>1 DEF IsBreadth, L
  <2>2. QED BY <1>13, <2>1
<1>18. n > 0 => L[n - 1] \subseteq visited \cup {head}
  BY <1>1 DEF IsBreadth, L
<1>19. k - 1 \in 0 .. Len(rest) /\ k - 1 \in Nat
  BY <1>2, <1>7
<1>20. IsBreadth(type, member, rest, visited \cup {head}, n, k - 1)
  BY <1>7, <1>11, <1>12, <1>16, <1>17, <1>18, <1>19 DEF IsBreadth, L
<1>21. QED BY <1>19, <1>20 DEF Breadth, rest, head

\* What a turn finds is nearest.
LEMMA FoundIsNearest ==
  ASSUME IsWalked, NEW type, NEW member, NEW queue, NEW visited, queue # <<>>,
         Breadth(type, member, queue, visited), Head(queue) \notin visited,
         MemberOf(Head(queue), member) # None
  PROVE  MemberOf(Head(queue), member) \in Nearest(type, member)
<1> DEFINE L == TypesWithin(type)
           head == Head(queue)
<1>1. PICK n \in Nat, k \in 1 .. Len(queue) : IsBreadth(type, member, queue, visited, n, k)
  BY BreadthHead
<1>2. head \in L[n]
  BY <1>1 DEF IsBreadth
<1>3. n <= Cardinality(Heirs)
  <2>1. CASE n = 0
    BY <2>1, HeirsAreFinite
  <2>2. CASE n # 0
    <3>1. L[n - 1] \subseteq visited
      BY <1>1, <2>2 DEF IsBreadth
    <3>2. L[n] # L[n - 1]
      BY <1>2, <3>1
    <3>3. QED BY <2>2, <3>2, LevelsStop
  <2>3. QED BY <2>1, <2>2
<1>4. ASSUME NEW m \in 0 .. n - 1, NEW u \in L[m] PROVE MemberOf(u, member) = None
  <2>1. n - 1 \in Nat /\ m \in Nat /\ m <= n - 1 /\ n > 0
    OBVIOUS
  <2>2. L[m] \subseteq L[n - 1]
    BY <2>1, LevelsGrow
  <2>3. L[n - 1] \subseteq visited
    BY <1>1, <2>1 DEF IsBreadth
  <2>4. QED BY <1>1, <2>2, <2>3 DEF IsBreadth
<1> HIDE DEF head
<1>5. MemberOf(head, member) # None
  BY DEF head
<1>6. QED BY <1>2, <1>3, <1>4, <1>5, NearestIs DEF head

\* A queue that runs empty leaves nothing near.
LEMMA EmptyFindsNothing ==
  ASSUME IsWalked, NEW type, NEW member, NEW visited, Breadth(type, member, <<>>, visited)
  PROVE  Nearest(type, member) = {}
<1> DEFINE L == TypesWithin(type)
<1>1. PICK n, k \in Nat : IsBreadth(type, member, <<>>, visited, n, k)
  BY DEF Breadth
<1>2. k = 0 /\ Len(<<>>) = 0
  BY <1>1 DEF IsBreadth
<1>3. L[n] \subseteq visited
  BY <1>1, <1>2 DEF IsBreadth
<1>4. type \in L[0] /\ L[0] \subseteq L[n]
  BY Levels, LevelsGrow
<1>5. \A v \in visited : MemberOf(v, member) = None /\ Kin(v) \subseteq visited
  BY <1>1, <1>2 DEF IsBreadth
<1> HIDE DEF L
<1>6. QED BY <1>3, <1>4, <1>5, NothingIsNearest
LEMMA JavaAnswers ==
  ASSUME NEW s, NEW for, NEW id
  PROVE  /\ Java(program)!Missed(s, for).type = None
         /\ LET found == Java(program)!Found(s, for, id)
            IN  found.type = None \/ (for = "factory" /\ found.for = "call")
<1>1. ASSUME NEW why PROVE Java(program)!Unresolved(why).type = None
  BY DEF Java!Unresolved, Java!Settled
<1>2. ASSUME NEW plan, plan.type = None PROVE Java(program)!OrLeaves(s, plan).type = None
  BY <1>2 DEF Java!OrLeaves, Java!External, Java!Settled
<1>3. Java(program)!StaticallyImported(s).type = None
  BY DEF Java!StaticallyImported, Java!BoundOr, Java!Unresolved, Java!Bound, Java!Settled
<1>4. Java(program)!Missed(s, for).type = None
  <2>1. CASE for = "call"
    BY <1>1, <1>2, <2>1 DEF Java!Missed
  <2>2. CASE for = "bare"
    BY <1>2, <1>3, <2>2 DEF Java!Missed
  <2>3. CASE for # "call" /\ for # "bare"
    BY <1>1, <1>2, <2>3 DEF Java!Missed
  <2>4. QED BY <2>1, <2>2, <2>3
<1>5. Java(program)!Found(s, for, id).type = None
      \/ (for = "factory" /\ Java(program)!Found(s, for, id).for = "call")
  <2> DEFINE returned == Java(program)!Lookup(s.file, Java(program)!ReturnType(id))
  <2>1. CASE for # "factory"
    BY <2>1 DEF Java!Found, Java!Bound, Java!Settled
  <2>2. CASE for = "factory" /\ returned = None
    BY <1>1, <1>2, <2>2 DEF Java!Found
  <2>3. CASE for = "factory" /\ returned # None
    BY <2>3 DEF Java!Found, Java!Walk
  <2>4. QED BY <2>1, <2>2, <2>3
<1>6. QED BY <1>4, <1>5

LEMMA PythonAndGoAnswers ==
  ASSUME NEW s, NEW for, NEW id
  PROVE  /\ Python(program)!Missed(s, for).type = None /\ Python(program)!Found(s, for, id).type = None
         /\ Go(program)!Missed(s, for).type = None /\ Go(program)!Found(s, for, id).type = None
  BY DEF Python!Missed, Python!Found, Python!Unresolved, Python!Bound, Python!Settled,
         Go!Missed, Go!Found, Go!Unresolved, Go!Bound, Go!Settled

\* Whatever a walk came to is the end of it, but for a factory's result; and that is
\* walked for the call itself.
LEMMA WalksEnd ==
  ASSUME language \in {"python", "java", "go"}, NEW s, NEW for, NEW id
  PROVE  /\ MissedFor(s, for).type = None
         /\ FoundFor(s, for, id).type = None \/ (for = "factory" /\ FoundFor(s, for, id).for = "call")
<1>1. CASE language = "python"
  <2>1. MissedFor(s, for) = Python(program)!Missed(s, for)
    BY <1>1 DEF MissedFor
  <2>2. FoundFor(s, for, id) = Python(program)!Found(s, for, id)
    BY <1>1 DEF FoundFor
  <2>3. QED BY <2>1, <2>2, PythonAndGoAnswers
<1>2. CASE language = "java"
  <2>1. MissedFor(s, for) = Java(program)!Missed(s, for)
    BY <1>2 DEF MissedFor
  <2>2. FoundFor(s, for, id) = Java(program)!Found(s, for, id)
    BY <1>2 DEF FoundFor
  <2>3. QED BY <2>1, <2>2, JavaAnswers
<1>3. CASE language = "go"
  <2>1. MissedFor(s, for) = Go(program)!Missed(s, for)
    BY <1>3 DEF MissedFor
  <2>2. FoundFor(s, for, id) = Go(program)!Found(s, for, id)
    BY <1>3 DEF FoundFor
  <2>3. QED BY <2>1, <2>2, PythonAndGoAnswers
<1>4. QED BY <1>1, <1>2, <1>3

\* What the type checker or the names of a TypeScript program come to is the end of it.
LEMMA CheckerAnswers ==
  ASSUME NEW s, NEW T, T = TypeScript(program, references)!CheckerBind(s), T # None
  PROVE  T.type = None
<1> DEFINE Leaving(origin) ==
             CASE origin = "language-builtin" -> TypeScript(program, references)!Unresolved("callee-is-language-builtin")
               [] origin = "outside-analysis" -> TypeScript(program, references)!Unresolved("callee-outside-analysis")
               [] OTHER -> TypeScript(program, references)!External
<1>1. \A why : TypeScript(program, references)!Unresolved(why).type = None
  BY DEF TypeScript!Unresolved, TypeScript!Settled
<1>2. TypeScript(program, references)!External.type = None
  BY DEF TypeScript!External, TypeScript!Settled
<1>3. \A id : TypeScript(program, references)!Bound(id).type = None
  BY DEF TypeScript!Bound, TypeScript!Settled
<1>4. ASSUME NEW origin PROVE Leaving(origin).type = None
  BY <1>1, <1>2
<1> HIDE DEF Leaving
<1>5. QED
  BY <1>3, <1>4 DEF TypeScript!CheckerBind, Leaving

LEMMA NamesAnswer ==
  ASSUME NEW s, NEW root, NEW external
  PROVE  TypeScript(program, references)!BindByName(s, root, external).type = None
<1>1. \A why : TypeScript(program, references)!Unresolved(why).type = None
  BY DEF TypeScript!Unresolved, TypeScript!Settled
<1>2. TypeScript(program, references)!External.type = None
  BY DEF TypeScript!External, TypeScript!Settled
<1>3. \A id : TypeScript(program, references)!Bound(id).type = None
  BY DEF TypeScript!Bound, TypeScript!Settled
<1>4. \A id, why : TypeScript(program, references)!BoundOr(id, why).type = None
  BY <1>1, <1>3 DEF TypeScript!BoundOr
<1>5. TypeScript(program, references)!UnboundReason(external).type = None
  BY <1>1, <1>2 DEF TypeScript!UnboundReason
<1>6. TypeScript(program, references)!BindConstruction(root, external).type = None
  BY <1>3, <1>5 DEF TypeScript!BindConstruction
<1>7. TypeScript(program, references)!BindBareName(s, root, external).type = None
  BY <1>1, <1>3, <1>5 DEF TypeScript!BindBareName
<1>8. TypeScript(program, references)!BindThisMember(s).type = None
  BY <1>1, <1>4 DEF TypeScript!BindThisMember
<1>9. \A owner, class, member : TypeScript(program, references)!BindMemberOf(owner, class, member).type = None
  BY <1>1, <1>4 DEF TypeScript!BindMemberOf
<1>10. TypeScript(program, references)!BindRootedMember(s, root, external).type = None
  BY <1>2, <1>4, <1>5, <1>9 DEF TypeScript!BindRootedMember
<1>11. QED BY <1>1, <1>6, <1>7, <1>8, <1>10 DEF TypeScript!BindByName

LEMMA TypeScriptSettles ==
  ASSUME language = "typescript", NEW s
  PROVE  PlanOf(s).type = None
<1>1. PlanOf(s) = TypeScript(program, references)!Plan(s)
  BY DEF PlanOf
<1>2. TypeScript(program, references)!Plan(s).type = None
  BY CheckerAnswers, NamesAnswer DEF TypeScript!Plan, TypeScript!OrElse
<1>3. QED BY <1>1, <1>2

-----------------------------------------------------------------------------
(* The walk under way *)

\* Whatever is looked up stays the same while the program does.
LEMMA RulesStay ==
  ASSUME UNCHANGED <<program, language, references>>, NEW s
  PROVE  /\ Ends(s)' = Ends(s) /\ PlanOf(s)' = PlanOf(s)
         /\ \A plan : AfterWalk(s, plan)' = AfterWalk(s, plan)
<1>1. Ends(s)' = Ends(s)
  BY DEF Ends, AfterWalk, Nearest, TypesWithin, Kin, Heirs, SuperClauses, PlanOf, FoundFor, MissedFor,
         SupersOf, MemberOf
<1>2. PlanOf(s)' = PlanOf(s)
  BY DEF PlanOf
<1>3. ASSUME NEW plan PROVE AfterWalk(s, plan)' = AfterWalk(s, plan)
  BY DEF AfterWalk, Nearest, TypesWithin, Kin, Heirs, SuperClauses, FoundFor, MissedFor,
         SupersOf, MemberOf
<1>4. QED BY <1>1, <1>2, <1>3

LEMMA BreadthStays ==
  ASSUME UNCHANGED <<program, language, references>>, NEW type, NEW member, NEW queue, NEW visited,
         Breadth(type, member, queue, visited)
  PROVE  Breadth(type, member, queue, visited)'
<1>1. TypesWithin(type)' = TypesWithin(type)
  BY DEF TypesWithin, Kin, SupersOf
<1>2. \A t : Kin(t)' = Kin(t)
  BY DEF Kin, SupersOf
<1>3. \A t : MemberOf(t, member)' = MemberOf(t, member)
  BY DEF MemberOf
<1>4. PICK n, k \in Nat : IsBreadth(type, member, queue, visited, n, k)
  BY DEF Breadth
<1>5. IsBreadth(type, member, queue, visited, n, k)'
  BY <1>1, <1>2, <1>3, <1>4 DEF IsBreadth
<1>6. QED BY <1>5 DEF Breadth
LEMMA WalkedStays ==
  ASSUME UNCHANGED <<program, language, references>>, IsWalked
  PROVE  IsWalked'
  BY DEF IsWalked, SuperClauses

\* The plan a walk follows: the site's own, or what that led to.
IsFollowed(s, plan) ==
  plan \in {PlanOf(s)} \cup AfterWalk(s, PlanOf(s)) /\ plan.type # None

IsUnderWay ==
  /\ IsWalked
  /\ walk = [queue |-> walk.queue, visited |-> walk.visited, member |-> walk.member, for |-> walk.for]
  /\ \E plan : /\ IsFollowed(Site, plan) /\ plan.member = walk.member /\ plan.for = walk.for
               /\ Breadth(plan.type, plan.member, walk.queue, walk.visited)

\* What is known of the program, of what is bound and of the walk.
BindingIsSound ==
  /\ (program = FactsGiven /\ walk = None) \/ language = "typescript" \/ IsWalked
  /\ \E outcomes : bound \in Seq(outcomes)
  /\ NearestDeclarationIsBound
  /\ walk # None => IsUnderWay

\* What a followed plan leads to is bound as it should be, or followed in turn.
LEMMA WhatIsNext ==
  ASSUME language \in Walking, NEW s, NEW plan, IsFollowed(s, plan), NEW next \in AfterWalk(s, plan)
  PROVE  IF next.type = None THEN next.outcome \in Ends(s) ELSE IsFollowed(s, next)
<1>1. CASE plan = PlanOf(s)
  <2>1. CASE next.type = None
    <3>1. next \in AfterWalk(s, next)
      BY <2>1 DEF AfterWalk
    <3>2. QED BY <1>1, <2>1, <3>1 DEF Ends
  <2>2. CASE next.type # None
    BY <1>1, <2>2 DEF IsFollowed
  <2>3. QED BY <2>1, <2>2
<1>2. CASE plan \in AfterWalk(s, PlanOf(s)) /\ plan # PlanOf(s)
  <2>1. plan.type # None
    BY DEF IsFollowed
  <2>2. PICK id : plan = FoundFor(s, PlanOf(s).for, id)
    BY <1>2, <2>1, WalksEnd DEF AfterWalk, Walking
  <2>3. plan.for = "call"
    BY <2>1, <2>2, WalksEnd DEF Walking
  <2>4. next.type = None
    BY <2>1, <2>3, WalksEnd DEF AfterWalk, Walking
  <2>5. QED BY <1>2, <2>4 DEF Ends
<1>3. QED BY <1>1, <1>2 DEF IsFollowed

LEMMA WhatIsFirst ==
  ASSUME NEW s
  PROVE  IF PlanOf(s).type = None THEN PlanOf(s).outcome \in Ends(s) ELSE IsFollowed(s, PlanOf(s))
<1>1. CASE PlanOf(s).type = None
  <2>1. AfterWalk(s, PlanOf(s)) = {PlanOf(s)}
    BY <1>1 DEF AfterWalk
  <2>2. QED BY <1>1, <2>1 DEF Ends
<1>2. QED BY <1>1 DEF IsFollowed

\* Following such a plan keeps what is known.
LEMMA FollowingIsSound ==
  ASSUME BindingIsSound, language = "typescript" \/ IsWalked, NEW plan, Follow(plan),
         language # "typescript" \/ plan.type = None,
         IF plan.type = None THEN plan.outcome \in Ends(Site) ELSE IsFollowed(Site, plan)
  PROVE  BindingIsSound'
<1>1. UNCHANGED <<program, language, references>>
  BY DEF Follow
<1>2. PICK outcomes : bound \in Seq(outcomes)
  BY DEF BindingIsSound
<1>3. (language = "typescript" \/ IsWalked)'
  BY <1>1, WalkedStays DEF BindingIsSound
<1>4. CASE plan.type = None
  <2>1. bound' = Append(bound, plan.outcome) /\ walk' = None
    BY <1>4 DEF Follow
  <2>2. bound' \in Seq(outcomes \cup {plan.outcome})
    BY <1>2, <2>1
  <2>3. ASSUME NEW i \in DOMAIN bound'
        PROVE  (bound[i] \in Ends(program.sites[i]))'
    <3>1. CASE i \in DOMAIN bound
      <4>1. bound'[i] = bound[i] /\ bound[i] \in Ends(program.sites[i])
        BY <1>2, <2>1, <3>1 DEF BindingIsSound, NearestDeclarationIsBound
      <4>2. QED BY <1>1, <4>1, RulesStay
    <3>2. CASE i \notin DOMAIN bound
      <4>1. i = Len(bound) + 1 /\ bound'[i] = plan.outcome
        BY <1>2, <2>1, <3>2
      <4>2. QED BY <1>1, <1>4, <4>1, RulesStay DEF Site
    <3>3. QED BY <3>1, <3>2
  <2>4. QED BY <1>3, <2>1, <2>2, <2>3 DEF BindingIsSound, NearestDeclarationIsBound
<1>5. CASE plan.type # None
  <2>1. /\ bound' = bound
        /\ walk' = [queue |-> <<plan.type>>, visited |-> {}, member |-> plan.member, for |-> plan.for]
    BY <1>5 DEF Follow
  <2>2. IsWalked'
    BY <1>1, <1>5, WalkedStays DEF BindingIsSound
  <2>3. Site' = Site
    BY <1>1, <2>1 DEF Site
  <2>4. IsFollowed(Site, plan)'
    BY <1>1, <1>5, <2>3, RulesStay DEF IsFollowed
  <2>5. Breadth(plan.type, plan.member, <<plan.type>>, {})'
    BY <1>1, BreadthBegins, BreadthStays
  <2>6. IsUnderWay'
    BY <2>1, <2>2, <2>4, <2>5 DEF IsUnderWay
  <2>7. NearestDeclarationIsBound'
    BY <1>1, <2>1, RulesStay DEF NearestDeclarationIsBound, BindingIsSound
  <2>8. QED BY <1>2, <1>3, <2>1, <2>6, <2>7 DEF BindingIsSound
<1>6. QED BY <1>4, <1>5
\* A turn that finds nothing keeps it, too.
LEMMA PassingIsSound ==
  ASSUME BindingIsSound, walk # None, walk.queue # <<>>, NEW visited, NEW behind,
         Pass(visited, behind), visited = walk.visited \cup {Head(walk.queue)},
         behind \in Seq(Kin(Head(walk.queue))),
         Head(walk.queue) \in walk.visited \/ ToSet(behind) = Kin(Head(walk.queue)),
         Head(walk.queue) \in walk.visited \/ MemberOf(Head(walk.queue), walk.member) = None
  PROVE  BindingIsSound'
<1>1. UNCHANGED <<program, language, references, bound>>
  BY DEF Pass
<1>2. IsUnderWay
  BY DEF BindingIsSound
<1>3. PICK plan : /\ IsFollowed(Site, plan) /\ plan.member = walk.member /\ plan.for = walk.for
                  /\ Breadth(plan.type, plan.member, walk.queue, walk.visited)
  BY <1>2 DEF IsUnderWay
<1>4. MemberOf(Head(walk.queue), plan.member) = None
  BY <1>3 DEF Breadth, IsBreadth
<1>. PICK queue : queue = Tail(walk.queue) \o behind
  OBVIOUS
<1>5. Breadth(plan.type, plan.member, queue, visited)
  BY <1>3, <1>4, BreadthPasses
<1>6. walk' = [queue |-> queue, visited |-> visited, member |-> walk.member, for |-> walk.for]
  BY <1>2 DEF Pass, IsUnderWay
<1>7. Breadth(plan.type, plan.member, queue, visited)'
  BY <1>1, <1>5, BreadthStays
<1>8. IsFollowed(Site, plan)'
  <2>1. Site' = Site
    BY <1>1 DEF Site
  <2>2. QED BY <1>1, <1>3, <2>1, RulesStay DEF IsFollowed
<1>9. IsUnderWay'
  BY <1>1, <1>2, <1>3, <1>6, <1>7, <1>8, WalkedStays DEF IsUnderWay
<1>10. NearestDeclarationIsBound'
  BY <1>1, RulesStay DEF NearestDeclarationIsBound, BindingIsSound
<1>11. QED BY <1>1, <1>2, <1>9, <1>10, WalkedStays DEF BindingIsSound, IsUnderWay

LEMMA BindingStepIsSound ==
  ASSUME BindingIsSound, language = "typescript" \/ IsWalked, BindingNext
  PROVE  BindingIsSound'
<1>1. CASE LookUp
  <2>1. Follow(PlanOf(Site))
    BY <1>1 DEF LookUp
  <2>2. language # "typescript" \/ PlanOf(Site).type = None
    BY TypeScriptSettles
  <2>3. QED BY <2>1, <2>2, WhatIsFirst, FollowingIsSound
<1>2. CASE Turn
  <2> DEFINE type  == Head(walk.queue)
             found == MemberOf(type, walk.member)
  <2>1. walk # None /\ walk.queue # <<>> /\ IsUnderWay
    BY <1>2 DEF Turn, BindingIsSound
  <2>2. IsWalked /\ language \in Walking
    BY <2>1 DEF IsUnderWay, IsWalked
  <2>3. CASE type \in walk.visited /\ Pass(walk.visited, <<>>)
    <3>1. walk.visited = walk.visited \cup {type} /\ <<>> \in Seq(Kin(type))
      BY <2>3
    <3>2. QED BY <2>1, <2>3, <3>1, PassingIsSound
  <2>4. CASE type \notin walk.visited /\ found # None /\ Follow(FoundFor(Site, walk.for, found))
    <3>1. PICK plan : /\ IsFollowed(Site, plan) /\ plan.member = walk.member /\ plan.for = walk.for
                      /\ Breadth(plan.type, plan.member, walk.queue, walk.visited)
      BY <2>1 DEF IsUnderWay
    <3>2. found \in Nearest(plan.type, plan.member)
      BY <2>1, <2>2, <2>4, <3>1, FoundIsNearest
    <3>3. FoundFor(Site, walk.for, found) \in AfterWalk(Site, plan)
      BY <3>1, <3>2 DEF AfterWalk, IsFollowed
    <3>4. language # "typescript"
      BY <2>2 DEF Walking
    <3>5. QED BY <2>2, <2>4, <3>1, <3>3, <3>4, WhatIsNext, FollowingIsSound
  <2>5. CASE type \notin walk.visited /\ found = None /\ Pass(walk.visited \cup {type}, SupersOf(type))
    <3>1. SupersOf(type) \in Seq(Kin(type)) /\ ToSet(SupersOf(type)) = Kin(type)
      BY <2>2, SupersAreListed DEF Kin
    <3>2. QED BY <2>1, <2>5, <3>1, PassingIsSound
  <2>6. QED BY <1>2, <2>3, <2>4, <2>5 DEF Turn
<1>3. CASE FindNothing
  <2>1. walk # None /\ walk.queue = <<>> /\ IsUnderWay
    BY <1>3 DEF FindNothing, BindingIsSound
  <2>2. IsWalked /\ language \in Walking /\ language # "typescript"
    BY <2>1 DEF IsUnderWay, IsWalked, Walking
  <2>3. Follow(MissedFor(Site, walk.for))
    BY <1>3 DEF FindNothing
  <2>4. PICK plan : /\ IsFollowed(Site, plan) /\ plan.member = walk.member /\ plan.for = walk.for
                    /\ Breadth(plan.type, plan.member, <<>>, walk.visited)
    BY <2>1 DEF IsUnderWay
  <2>5. Nearest(plan.type, plan.member) = {}
    BY <2>2, <2>4, EmptyFindsNothing
  <2>6. MissedFor(Site, walk.for) \in AfterWalk(Site, plan)
    BY <2>4, <2>5 DEF AfterWalk, IsFollowed
  <2>7. QED BY <2>2, <2>3, <2>4, <2>6, WhatIsNext, FollowingIsSound
<1>4. QED BY <1>1, <1>2, <1>3 DEF BindingNext

\* Nothing else than the loops' own steps changes what is known.
LEMMA NothingChanges ==
  ASSUME BindingIsSound, UNCHANGED vars
  PROVE  BindingIsSound'
<1>1. UNCHANGED <<program, language, references, bound, walk>>
  BY DEF vars
<1>2. NearestDeclarationIsBound'
  BY <1>1, RulesStay DEF NearestDeclarationIsBound, BindingIsSound
<1>3. ASSUME walk # None PROVE IsUnderWay'
  <2>1. IsUnderWay
    BY <1>3 DEF BindingIsSound
  <2>2. PICK plan : /\ IsFollowed(Site, plan) /\ plan.member = walk.member /\ plan.for = walk.for
                    /\ Breadth(plan.type, plan.member, walk.queue, walk.visited)
    BY <2>1 DEF IsUnderWay
  <2>3. Breadth(plan.type, plan.member, walk.queue, walk.visited)'
    BY <1>1, <2>2, BreadthStays
  <2>4. IsFollowed(Site, plan)'
    <3>1. Site' = Site
      BY <1>1 DEF Site
    <3>2. QED BY <1>1, <2>2, <3>1, RulesStay DEF IsFollowed
  <2>5. QED BY <1>1, <2>1, <2>2, <2>3, <2>4, WalkedStays DEF IsUnderWay
<1>4. QED BY <1>1, <1>2, <1>3, WalkedStays DEF BindingIsSound

LEMMA BindingBeginsSoundly == ProgramsAssumption /\ CInit => BindingIsSound
<1> SUFFICES ASSUME ProgramsAssumption, CInit PROVE BindingIsSound
  OBVIOUS
<1>1. bound = <<>> /\ walk = None
  BY DEF CInit, BindingInit
<1>2. bound \in Seq({}) /\ NearestDeclarationIsBound
  BY <1>1 DEF NearestDeclarationIsBound
<1>3. program = FactsGiven \/ language = "typescript" \/ IsWalked
  <2>1. CASE program = FactsGiven
    BY <2>1
  <2>2. CASE BindingInit
    <3>1. CASE language = "python" /\ program \in PythonPrograms
      BY <3>1 DEF IsWalked, Walking, SuperClauses, ProgramsAssumption
    <3>2. CASE language = "java" /\ program \in JavaPrograms
      BY <3>2 DEF IsWalked, Walking, SuperClauses, ProgramsAssumption
    <3>3. CASE language = "go" /\ program \in GoPrograms
      BY <3>3 DEF IsWalked, Walking, SuperClauses, ProgramsAssumption
    <3>4. QED BY <2>2, <3>1, <3>2, <3>3 DEF BindingInit
  <2>3. QED BY <2>1, <2>2 DEF CInit
<1>4. QED BY <1>1, <1>2, <1>3 DEF BindingIsSound

\* Where the facts are given there is no site to look up.
LEMMA CStepIsSound == BindingIsSound /\ [CNext]_allVars => BindingIsSound'
<1> SUFFICES ASSUME BindingIsSound, [CNext]_allVars PROVE BindingIsSound'
  OBVIOUS
<1>1. CASE Binds
  <2>1. ASSUME program = FactsGiven, walk = None PROVE FALSE
    <3>1. Len(program.sites) = 0 /\ Len(bound) \in Nat
      BY <2>1 DEF FactsGiven, BindingIsSound
    <3>2. LookUp
      BY <1>1, <2>1 DEF Binds, BindingNext, Turn, FindNothing
    <3>3. QED BY <3>1, <3>2 DEF LookUp
  <2>2. QED BY <1>1, <2>1, BindingStepIsSound DEF Binds, BindingIsSound
<1>2. CASE UNCHANGED vars
  BY <1>2, NothingChanges
<1>3. QED BY <1>1, <1>2 DEF CNext, BuildsProgram, Scans, allVars

\* A call on a type is bound to the member the type declares or else to a declaration at the end
\* of a shortest chain of proven supertypes, and is left unbound only if no chain leads to one:
\* for every program of the three languages that are walked, and any supertypes, cycles included.
THEOREM NearestDeclarationsAreBound == CSpec => []NearestDeclarationIsBound
<1>1. CInit => BindingIsSound
  BY BindingBeginsSoundly, ProgramsAssumption
<1>2. BindingIsSound /\ [CNext]_allVars => BindingIsSound'
  BY CStepIsSound
<1>3. BindingIsSound => NearestDeclarationIsBound
  BY DEF BindingIsSound
<1>4. QED BY <1>1, <1>2, <1>3, PTL DEF CSpec
=============================================================================
