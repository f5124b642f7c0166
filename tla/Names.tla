------------------------------- MODULE Names -------------------------------
(***************************************************************************)
(* What resolvePython, resolveJava and resolveGo have in common: the       *)
(* identifier of a declaration, and what looking at a call site comes to.  *)
(*                                                                         *)
(* A path, a dotted name and a container chain are sequences of segments.  *)
(* Locations, evidence, confidence and the kind of a call edge are left    *)
(* out.                                                                    *)
(***************************************************************************)
EXTENDS Sequences, FiniteSetsExt

CONSTANT None

-----------------------------------------------------------------------------
(* Sequences as the maps and lists of the resolvers use them *)

First(s) == IF s = <<>> THEN None ELSE s[1]
Final(s) == IF s = <<>> THEN None ELSE s[Len(s)]
Outer(s) == SubSeq(s, 1, Len(s) - 1)
Begins(start, s) == Len(start) <= Len(s) /\ SubSeq(s, 1, Len(start)) = start
OrElse(a, b) == IF a = None THEN b ELSE a          \* ??
\* The members of the members.
Chained(s) ==
  LET chained[n \in 0 .. Len(s)] == IF n = 0 THEN <<>> ELSE chained[n - 1] \o s[n]
  IN  chained[Len(s)]
\* Each member once, where it is first.
Unrepeated(s) ==
  LET IsFirst(i) == \A j \in 1 .. i - 1 : s[j] # s[i]
      places == SelectSeq([i \in DOMAIN s |-> i], IsFirst)
  IN  [k \in DOMAIN places |-> s[places[k]]]
Known(s) == LET IsKnown(x) == x # None IN SelectSeq(s, IsKnown)
\* The k-th of some positions.
Nth(positions, k) ==
  CHOOSE i \in positions : Cardinality({j \in positions : j <= i}) = k

-----------------------------------------------------------------------------
(* Identifiers *)

\* sym:<path>#<chain>
Id(file, chain) == [file |-> file, chain |-> chain]
Within(id, name) == Id(id.file, Append(id.chain, name))

Types == {"class", "interface", "enum"}

-----------------------------------------------------------------------------
(* What is known of a call site: the end of it, or the type a breadth-first *)
(* walk for the member starts at and what the walk was for.                 *)

Outcome(why, id)  == [why |-> why, to |-> id]
Settled(outcome)  == [type |-> None, outcome |-> outcome]
Bound(id)         == Settled(Outcome("bound", id))
External          == Settled(Outcome("external", None))
Unresolved(why)   == Settled(Outcome(why, None))
Walk(type, member, for) == [type |-> type, member |-> member, for |-> for]

BoundOr(id, why)  == IF id = None THEN Unresolved(why) ELSE Bound(id)
=============================================================================
