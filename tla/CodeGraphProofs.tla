---------------------------- MODULE CodeGraphProofs ----------------------------
(***************************************************************************)
(* A graph that was built and validated is stored, and stored as a whole,  *)
(* for every input that a scan can have gathered; and it is the same graph *)
(* in whichever order the analysers ran.                                   *)
(*                                                                         *)
(* 1. A replacement of the stored graph is a truncation and then sections  *)
(*    of insertions: nodes, files, edges, references, roles, regions.  A   *)
(*    section is sound if each of its rows refers to rows that statements  *)
(*    before it inserted and no two rows have one key.                     *)
(* 2. The sections of a graph are sound when the graph is storable: its    *)
(*    identifiers differ, its rows lie in files that are nodes, its edges  *)
(*    join nodes, and a file's node refers to no node but itself.          *)
(* 3. What Build makes of an input as OfAScan has it is storable if it is  *)
(*    valid: the builder keeps the first of each identifier and gives      *)
(*    every row a home among the files, and validation finds the rest.     *)
(* 4. So no statement violates a key, whatever the file held before and    *)
(*    wherever a transaction is interrupted: StoreIsSound, the invariant   *)
(*    of the store, relates the tables to the statements done so far.      *)
(* 5. Gathering in reverse shuffles what was found.  Every part of the     *)
(*    graph is made of the members alone, or keeps of a group what all its *)
(*    members agree on, their best or their number; only a name is that of *)
(*    the first, and only the linker reads names.                          *)
(***************************************************************************)
EXTENDS CodeGraph, FiniteSetTheorems, SequenceTheorems, WellFoundedInduction, TLAPS

-----------------------------------------------------------------------------
(* Numbers and sequences *)

\* A set of numbers that has a member has a least one.
LEMMA LeastIsThere ==
  ASSUME NEW S, S \subseteq Nat, S # {}
  PROVE  \E m \in S : \A n \in S : m <= n
<1> DEFINE Less == {p \in Nat \X Nat : p[1] < p[2]}
<1>1. Less = OpToRel(<, Nat)
  BY DEF OpToRel
<1>2. IsWellFoundedOn(Less, Nat)
  BY <1>1, NatLessThanWellFounded
<1> HIDE DEF Less
<1>3. \E x \in S : \A y \in S : <<y, x>> \notin Less
  BY <1>2, WFMin
<1>4. \A x, y \in S : <<y, x>> \notin Less => x <= y
  BY DEF Less
<1>5. QED BY <1>3, <1>4

\* What holds of 0 and passes from each number to the next holds of all.
LEMMA EveryNumber ==
  ASSUME NEW P, 0 \in P, \A n \in Nat : n \in P => n + 1 \in P
  PROVE  Nat \subseteq P
<1> SUFFICES ASSUME Nat \ P # {} PROVE FALSE
  OBVIOUS
<1>1. PICK m \in Nat \ P : \A n \in Nat \ P : m <= n
  BY LeastIsThere
<1>2. m # 0 /\ m - 1 \in Nat
  BY <1>1
<1>3. m - 1 \in P
  BY <1>1, <1>2
<1>4. QED BY <1>1, <1>2, <1>3

IsSeq(s) == \E S : s \in Seq(S)

\* The definition that FlattenSeq chooses by has a solution.
Flattens(f, n, ss) == f = [i \in 1 .. n |-> IF i = 1 THEN ss[i] ELSE f[i - 1] \o ss[i]]

\* Parts can be added up to a sequence one after another, however many there are.
LEMMA SomethingFlattens ==
  ASSUME NEW ss, NEW n \in Nat
  PROVE  \E f : Flattens(f, n, ss)
<1> DEFINE P == {m \in Nat : \E f : Flattens(f, m, ss)}
<1>1. 0 \in P
  <2>1. Flattens([i \in 1 .. 0 |-> 0], 0, ss)
    BY DEF Flattens
  <2> QED BY <2>1
<1>2. ASSUME NEW m \in Nat, m \in P PROVE m + 1 \in P
  <2>1. PICK f : Flattens(f, m, ss)
    BY <1>2
  <2> DEFINE g == [i \in 1 .. m + 1 |-> IF i = m + 1 THEN IF i = 1 THEN ss[i] ELSE f[m] \o ss[i] ELSE f[i]]
             h == [i \in 1 .. m + 1 |-> IF i = 1 THEN ss[i] ELSE g[i - 1] \o ss[i]]
  <2>2. ASSUME NEW i \in 1 .. m + 1 PROVE g[i] = h[i]
    <3>1. CASE i = m + 1 /\ i = 1
      BY <3>1
    <3>2. CASE i = m + 1 /\ i # 1
      <4>1. m \in 1 .. m + 1 /\ m # m + 1 /\ m = i - 1 /\ g[m] = f[m]
        BY <3>2
      <4>2. g[i] = f[m] \o ss[i] /\ h[i] = g[i - 1] \o ss[i]
        BY <3>2, <4>1
      <4> HIDE DEF g, h
      <4> QED BY <4>1, <4>2
    <3>3. CASE i # m + 1
      <4>1. i \in 1 .. m /\ g[i] = f[i]
        BY <3>3
      <4>2. f[i] = IF i = 1 THEN ss[i] ELSE f[i - 1] \o ss[i]
        BY <2>1, <4>1 DEF Flattens
      <4>3. i # 1 => i - 1 \in 1 .. m + 1 /\ i - 1 # m + 1 /\ g[i - 1] = f[i - 1]
        BY <4>1
      <4> HIDE DEF g
      <4> QED BY <4>1, <4>2, <4>3
    <3> QED BY <3>1, <3>2, <3>3
  <2>3. g = h
    BY <2>2
  <2>4. Flattens(g, m + 1, ss)
    BY <2>3 DEF Flattens
  <2> QED BY <2>4
<1>3. n \in P
  <2> HIDE DEF P
  <2> QED BY <1>1, <1>2, EveryNumber
<1> QED BY <1>3

\* FlattenSeq is such a sum, its last value.
LEMMA FlattenSeqIs ==
  ASSUME NEW ss, NEW n \in Nat \ {0}, Len(ss) = n
  PROVE  \E f : Flattens(f, n, ss) /\ FlattenSeq(ss) = f[n]
<1>1. \E f : Flattens(f, n, ss)
  BY SomethingFlattens
<1> DEFINE c == CHOOSE f : f = [i \in 1 .. n |-> IF i = 1 THEN ss[i] ELSE f[i - 1] \o ss[i]]
<1>2. Flattens(c, n, ss)
  BY <1>1 DEF Flattens
<1>3. FlattenSeq(ss) = c[n]
  BY DEF FlattenSeq
<1> QED BY <1>2, <1>3

\* What the concatenation of two sequences is.
LEMMA BothSeqs ==
  ASSUME NEW s, NEW t, IsSeq(s), IsSeq(t)
  PROVE  /\ IsSeq(s \o t) /\ Len(s) \in Nat /\ Len(t) \in Nat
         /\ Len(s \o t) = Len(s) + Len(t)
         /\ \A k \in 1 .. Len(s) : (s \o t)[k] = s[k]
         /\ \A k \in 1 .. Len(t) : (s \o t)[Len(s) + k] = t[k]
<1>1. PICK S, T : s \in Seq(S) /\ t \in Seq(T)
  BY DEF IsSeq
<1>2. s \in Seq(S \cup T) /\ t \in Seq(S \cup T)
  BY <1>1
<1>3. s \o t \in Seq(S \cup T)
  BY <1>2
<1> QED BY <1>2, <1>3 DEF IsSeq

-----------------------------------------------------------------------------
(* Concatenation *)

\* A concatenation has an offset for each of its parts.
Laid(flat, ss, off) ==
  /\ off \in [0 .. Len(ss) -> Nat] /\ off[0] = 0
  /\ \A i \in 1 .. Len(ss) : off[i] = off[i - 1] + Len(ss[i])
  /\ IsSeq(flat) /\ Len(flat) = off[Len(ss)]
  /\ \A i \in 1 .. Len(ss) : \A k \in 1 .. Len(ss[i]) : flat[off[i - 1] + k] = ss[i][k]

\* Offsets do not decrease, and every place is in one part.
LEMMA OffsetsGrow ==
  ASSUME NEW n \in Nat, NEW off \in [0 .. n -> Nat], off[0] = 0,
         \A i \in 1 .. n : off[i - 1] <= off[i]
  PROVE  /\ \A i, j \in 0 .. n : i <= j => off[i] <= off[j]
         /\ \A p \in 1 .. off[n] : \E i \in 1 .. n : off[i - 1] < p /\ p <= off[i]
<1>1. ASSUME NEW i \in 0 .. n, NEW j \in 0 .. n, i <= j PROVE off[i] <= off[j]
  <2> DEFINE Bad == {k \in i .. n : ~(off[i] <= off[k])}
  <2>1. Bad \subseteq Nat
    OBVIOUS
  <2>2. ASSUME Bad # {} PROVE FALSE
    <3>1. PICK k \in Bad : \A l \in Bad : k <= l
      BY <2>1, <2>2, LeastIsThere
    <3>2. k # i /\ k \in 1 .. n /\ k - 1 \in i .. n
      BY <3>1
    <3>3. off[i] <= off[k - 1] /\ off[k - 1] <= off[k]
      BY <3>1, <3>2
    <3>4. off[i] \in Nat /\ off[k] \in Nat /\ off[k - 1] \in Nat
      BY <3>2
    <3> QED BY <3>1, <3>3, <3>4
  <2>3. j \in i .. n
    BY <1>1
  <2>4. ~(off[i] <= off[j]) => j \in Bad
    BY <2>3
  <2> QED BY <2>2, <2>4
<1>2. ASSUME NEW p \in 1 .. off[n] PROVE \E i \in 1 .. n : off[i - 1] < p /\ p <= off[i]
  <2> DEFINE Far == {k \in 0 .. n : p <= off[k]}
  <2>1. Far \subseteq Nat /\ n \in Far
    OBVIOUS
  <2>2. PICK i \in Far : \A l \in Far : i <= l
    BY <2>1, LeastIsThere
  <2>3. i # 0 /\ i \in 1 .. n /\ i - 1 \in 0 .. n
    BY <2>2
  <2>4. ~(p <= off[i - 1]) /\ off[i - 1] \in Nat
    BY <2>2, <2>3
  <2> QED BY <2>2, <2>3, <2>4
<1> QED BY <1>1, <1>2

\* A concatenation holds each part at an offset of its own.
LEMMA FlattenIsLaid ==
  ASSUME NEW ss, IsSeq(ss), \A i \in 1 .. Len(ss) : IsSeq(ss[i])
  PROVE  \E off : Laid(FlattenSeq(ss), ss, off)
<1> DEFINE n == Len(ss)
<1>0. n \in Nat
  BY DEF IsSeq
<1>1. CASE n = 0
  <2>1. ss = <<>> /\ FlattenSeq(ss) = <<>>
    BY <1>1 DEF IsSeq, FlattenSeq
  <2>2. IsSeq(<<>>)
    <3>1. <<>> \in Seq({})
      OBVIOUS
    <3> QED BY <3>1 DEF IsSeq
  <2>3. Laid(<<>>, <<>>, [i \in 0 .. 0 |-> 0])
    BY <2>2 DEF Laid
  <2> QED BY <2>1, <2>3
<1>2. CASE n # 0
  <2>1. PICK f : Flattens(f, n, ss) /\ FlattenSeq(ss) = f[n]
    BY <1>0, <1>2, FlattenSeqIs
  <2>0. \A i \in 1 .. n : IsSeq(ss[i])
    OBVIOUS
  <2> HIDE DEF n
  <2>2. f[1] = ss[1] /\ \A i \in 2 .. n : i - 1 \in 1 .. n /\ f[i] = f[i - 1] \o ss[i]
    <3>1. \A i \in 1 .. n : f[i] = IF i = 1 THEN ss[i] ELSE f[i - 1] \o ss[i]
      BY <2>1 DEF Flattens
    <3>2. f[1] = ss[1]
      <4>1. 1 \in 1 .. n
        BY <1>0, <1>2
      <4> QED BY <3>1, <4>1
    <3>3. ASSUME NEW i \in 2 .. n PROVE i - 1 \in 1 .. n /\ f[i] = f[i - 1] \o ss[i]
      <4>1. i \in 1 .. n /\ i # 1 /\ i - 1 \in 1 .. n
        BY <1>0
      <4> QED BY <3>1, <4>1
    <3> QED BY <3>2, <3>3
  <2>3. \A i \in 1 .. n : IsSeq(f[i])
    <3> DEFINE Bad == {i \in 1 .. n : ~IsSeq(f[i])}
    <3> SUFFICES ASSUME Bad # {} PROVE FALSE
      OBVIOUS
    <3>1. Bad \subseteq Nat
      BY <1>0
    <3>2. PICK k \in Bad : \A l \in Bad : k <= l
      BY <3>1, LeastIsThere
    <3>3. k # 1 /\ k \in 2 .. n /\ k - 1 \in 1 .. n
      BY <1>0, <1>2, <2>0, <2>2, <3>2
    <3>4. IsSeq(f[k - 1]) /\ IsSeq(ss[k])
      BY <1>0, <2>0, <3>2, <3>3
    <3>5. IsSeq(f[k - 1] \o ss[k])
      BY <3>4, BothSeqs
    <3>6. f[k] = f[k - 1] \o ss[k]
      BY <2>2, <3>3
    <3> QED BY <3>2, <3>5, <3>6
  <2> DEFINE off == [i \in 0 .. n |-> IF i = 0 THEN 0 ELSE Len(f[i])]
  <2>4. \A i \in 1 .. n : IsSeq(ss[i]) /\ Len(ss[i]) \in Nat
    BY <2>0 DEF IsSeq
  <2>5. off \in [0 .. n -> Nat] /\ off[0] = 0 /\ off[n] = Len(f[n])
    <3>1. \A i \in 1 .. n : Len(f[i]) \in Nat
      BY <2>3 DEF IsSeq
    <3> QED BY <1>0, <1>2, <3>1
  <2>6. ASSUME NEW i \in 1 .. n
        PROVE  /\ off[i] = off[i - 1] + Len(ss[i])
               /\ \A k \in 1 .. Len(ss[i]) : f[i][off[i - 1] + k] = ss[i][k]
               /\ \A p \in 1 .. off[i - 1] : f[i][p] = f[i - 1][p]
    <3>1. CASE i = 1
      <4>1. off[i - 1] = 0 /\ off[i] = Len(ss[1]) /\ f[i] = ss[1] /\ Len(ss[1]) \in Nat
        BY <1>0, <2>2, <2>4, <3>1
      <4> HIDE DEF off
      <4> QED BY <3>1, <4>1
    <3>2. CASE i # 1
      <4>1. i \in 2 .. n /\ i - 1 \in 1 .. n /\ off[i - 1] = Len(f[i - 1]) /\ off[i] = Len(f[i])
        BY <1>0, <3>2
      <4>2. f[i] = f[i - 1] \o ss[i] /\ IsSeq(f[i - 1]) /\ IsSeq(ss[i])
        BY <2>2, <2>3, <2>4, <4>1
      <4> DEFINE a == f[i - 1]
                 b == ss[i]
                 c == f[i]
      <4>3. c = a \o b /\ IsSeq(a) /\ IsSeq(b) /\ off[i - 1] = Len(a) /\ off[i] = Len(c)
        BY <4>1, <4>2
      <4> HIDE DEF off, a, b, c
      <4>4. /\ off[i] = off[i - 1] + Len(b)
            /\ \A k \in 1 .. Len(b) : c[off[i - 1] + k] = b[k]
            /\ \A p \in 1 .. off[i - 1] : c[p] = a[p]
        BY <4>3, BothSeqs
      <4> QED BY <4>4 DEF a, b, c
    <3> QED BY <3>1, <3>2
  <2> HIDE DEF off
  <2>7. \A i \in 1 .. n : off[i - 1] <= off[i]
    <3> SUFFICES ASSUME NEW i \in 1 .. n PROVE off[i - 1] <= off[i]
      OBVIOUS
    <3>1. i - 1 \in 0 .. n /\ off[i - 1] \in Nat /\ Len(ss[i]) \in Nat
      BY <1>0, <2>4, <2>5
    <3>2. off[i] = off[i - 1] + Len(ss[i])
      BY <2>6
    <3> QED BY <3>1, <3>2
  <2>8. \A i, j \in 0 .. n : i <= j => off[i] <= off[j]
    BY <1>0, <2>5, <2>7, OffsetsGrow
  <2>9. ASSUME NEW i \in 1 .. n, NEW k \in 1 .. Len(ss[i]) PROVE f[n][off[i - 1] + k] = ss[i][k]
    <3> DEFINE p == off[i - 1] + k
               Bad == {m \in i .. n : f[m][p] # ss[i][k]}
    <3> SUFFICES ASSUME Bad # {} PROVE FALSE
      BY <1>0
    <3>1. Bad \subseteq Nat
      BY <1>0
    <3>2. PICK m \in Bad : \A l \in Bad : m <= l
      BY <3>1, LeastIsThere
    <3>3. m # i /\ m \in 1 .. n /\ m - 1 \in i .. n
      BY <1>0, <2>6, <3>2
    <3>4. f[m - 1][p] = ss[i][k]
      BY <3>2, <3>3
    <3>5. p \in 1 .. off[i]
      <4>1. i - 1 \in 0 .. n /\ off[i - 1] \in Nat /\ Len(ss[i]) \in Nat
        BY <1>0, <2>4, <2>5
      <4>2. off[i] = off[i - 1] + Len(ss[i])
        BY <2>6
      <4> QED BY <4>1, <4>2
    <3>6. off[i] <= off[m - 1] /\ off[i] \in Nat /\ off[m - 1] \in Nat
      BY <1>0, <2>5, <2>8, <3>3
    <3>7. p \in 1 .. off[m - 1]
      BY <3>5, <3>6
    <3> HIDE DEF p
    <3> QED BY <2>6, <3>2, <3>3, <3>4, <3>7
  <2>10. Laid(f[n], ss, off)
    BY <1>0, <1>2, <2>3, <2>5, <2>6, <2>9 DEF Laid, n
  <2> QED BY <2>1, <2>10
<1> QED BY <1>1, <1>2

\* A sequence with its members.
LEMMA SeqIs ==
  ASSUME NEW s, IsSeq(s)
  PROVE  Len(s) \in Nat /\ DOMAIN s = 1 .. Len(s) /\ s = [i \in 1 .. Len(s) |-> s[i]]
BY DEF IsSeq

\* A function on 1 .. n is a sequence of length n.
LEMMA FunctionIsSeq ==
  ASSUME NEW n \in Nat, NEW s, s = [i \in 1 .. n |-> s[i]]
  PROVE  IsSeq(s) /\ Len(s) = n
<1>1. s \in [1 .. n -> {s[i] : i \in 1 .. n}]
  OBVIOUS
<1>2. s \in Seq({s[i] : i \in 1 .. n})
  BY <1>1
<1> DEFINE S == {s[i] : i \in 1 .. n}
<1>3. IsSeq(s) /\ Len(s) \in Nat /\ DOMAIN s = 1 .. Len(s) /\ DOMAIN s = 1 .. n
  <2>1. s \in Seq(S) /\ s \in [1 .. n -> S]
    BY <1>1, <1>2
  <2> HIDE DEF S
  <2>2. DOMAIN s = 1 .. n
    BY <2>1
  <2>3. IsSeq(s)
    BY <2>1 DEF IsSeq
  <2> QED BY <2>2, <2>3, SeqIs
<1>4. (n # 0 => n \in 1 .. Len(s)) /\ (Len(s) # 0 => Len(s) \in 1 .. n)
  BY <1>3
<1> QED BY <1>3, <1>4

\* The sequences with no member and with one.
LEMMA ShortSeqs ==
  /\ IsSeq(<<>>) /\ Len(<<>>) = 0
  /\ \A x : IsSeq(<<x>>) /\ Len(<<x>>) = 1 /\ <<x>>[1] = x
<1>1. <<>> \in Seq({})
  OBVIOUS
<1>2. \A x : <<x>> \in Seq({x})
  OBVIOUS
<1> QED BY <1>1, <1>2 DEF IsSeq

\* Each place of a concatenation is a place of a part, in their order, and none is left out.
Placed(flat, ss, part, at) ==
  /\ part \in [1 .. Len(flat) -> 1 .. Len(ss)]
  /\ at = [p \in 1 .. Len(flat) |-> at[p]]
  /\ \A p \in 1 .. Len(flat) : at[p] \in 1 .. Len(ss[part[p]]) /\ flat[p] = ss[part[p]][at[p]]
  /\ \A p, q \in 1 .. Len(flat) :
       p < q => part[p] < part[q] \/ (part[p] = part[q] /\ at[p] < at[q])
  /\ \A i \in 1 .. Len(ss) : \A k \in 1 .. Len(ss[i]) :
       \E p \in 1 .. Len(flat) : part[p] = i /\ at[p] = k

\* Each place of a concatenation is one place of one part, in the order of the parts.
LEMMA FlattenIsPlaced ==
  ASSUME NEW ss, IsSeq(ss), \A i \in 1 .. Len(ss) : IsSeq(ss[i])
  PROVE  /\ IsSeq(FlattenSeq(ss))
         /\ \E part, at : Placed(FlattenSeq(ss), ss, part, at)
<1> DEFINE n == Len(ss)
           flat == FlattenSeq(ss)
<1>1. PICK off : Laid(flat, ss, off)
  BY FlattenIsLaid
<1>2. n \in Nat /\ \A i \in 1 .. n : Len(ss[i]) \in Nat
  BY SeqIs
<1> HIDE DEF flat
<1>3. /\ off \in [0 .. n -> Nat] /\ off[0] = 0
      /\ \A i \in 1 .. n : off[i] = off[i - 1] + Len(ss[i])
      /\ IsSeq(flat) /\ Len(flat) = off[n]
      /\ \A i \in 1 .. n : \A k \in 1 .. Len(ss[i]) : flat[off[i - 1] + k] = ss[i][k]
  BY <1>1 DEF Laid
<1> HIDE DEF n
<1>4. \A i \in 1 .. n : i - 1 \in 0 .. n /\ i \in 0 .. n /\ off[i - 1] \in Nat /\ off[i] \in Nat
                        /\ off[i - 1] <= off[i]
  <2> SUFFICES ASSUME NEW i \in 1 .. n
               PROVE  i - 1 \in 0 .. n /\ i \in 0 .. n /\ off[i - 1] \in Nat /\ off[i] \in Nat
                      /\ off[i - 1] <= off[i]
    OBVIOUS
  <2>1. i - 1 \in 0 .. n /\ i \in 0 .. n
    BY <1>2
  <2>2. off[i - 1] \in Nat /\ off[i] \in Nat
    BY <1>3, <2>1
  <2>3. off[i] = off[i - 1] + Len(ss[i]) /\ Len(ss[i]) \in Nat
    BY <1>2, <1>3
  <2> QED BY <2>1, <2>2, <2>3
<1>5. /\ \A i, j \in 0 .. n : i <= j => off[i] <= off[j]
      /\ \A p \in 1 .. off[n] : \E i \in 1 .. n : off[i - 1] < p /\ p <= off[i]
  BY <1>2, <1>3, <1>4, OffsetsGrow
<1> DEFINE part == [p \in 1 .. Len(flat) |-> CHOOSE i \in 1 .. n : off[i - 1] < p /\ p <= off[i]]
           at   == [p \in 1 .. Len(flat) |-> p - off[part[p] - 1]]
<1>6. ASSUME NEW p \in 1 .. Len(flat)
      PROVE  part[p] \in 1 .. n /\ off[part[p] - 1] < p /\ p <= off[part[p]]
  BY <1>3, <1>5
<1>7. ASSUME NEW p \in 1 .. Len(flat)
      PROVE  at[p] = p - off[part[p] - 1] /\ at[p] \in 1 .. Len(ss[part[p]])
  <2> DEFINE i == part[p]
  <2>1. i \in 1 .. n /\ off[i - 1] < p /\ p <= off[i] /\ p \in Nat
    <3>1. p \in Nat
      BY <1>3, SeqIs
    <3> QED BY <1>6, <3>1
  <2>2. at[p] = p - off[i - 1]
    OBVIOUS
  <2> HIDE DEF i, at
  <2>3. off[i - 1] \in Nat /\ off[i] \in Nat /\ off[i] = off[i - 1] + Len(ss[i]) /\ Len(ss[i]) \in Nat
    BY <1>2, <1>3, <1>4, <2>1
  <2>4. at[p] \in 1 .. Len(ss[i])
    BY <2>1, <2>2, <2>3
  <2> QED BY <2>2, <2>4 DEF i
<1> HIDE DEF part, at
<1>8. ASSUME NEW p \in 1 .. Len(flat) PROVE flat[p] = ss[part[p]][at[p]]
  <2>1. part[p] \in 1 .. n /\ off[part[p] - 1] \in Nat /\ p \in Nat
    BY <1>3, <1>4, <1>6, SeqIs
  <2>2. p = off[part[p] - 1] + at[p]
    BY <1>7, <2>1
  <2> QED BY <1>3, <1>7, <2>1, <2>2
<1>9. ASSUME NEW p \in 1 .. Len(flat), NEW q \in 1 .. Len(flat), p < q
      PROVE  part[p] < part[q] \/ (part[p] = part[q] /\ at[p] < at[q])
  <2>1. /\ part[p] \in 1 .. n /\ part[q] \in 1 .. n /\ p \in Nat /\ q \in Nat
        /\ off[part[p] - 1] < p /\ q <= off[part[q]]
    BY <1>3, <1>4, <1>6, SeqIs
  <2>2. CASE part[q] < part[p]
    <3>1. part[q] <= part[p] - 1 /\ part[q] \in 0 .. n /\ part[p] - 1 \in 0 .. n
      BY <1>2, <2>1, <2>2
    <3>2. off[part[q]] <= off[part[p] - 1] /\ off[part[q]] \in Nat /\ off[part[p] - 1] \in Nat
      BY <1>3, <1>5, <3>1
    <3> QED BY <1>9, <2>1, <3>2
  <2>3. CASE part[q] = part[p]
    <3>1. at[p] = p - off[part[p] - 1] /\ at[q] = q - off[part[p] - 1] /\ off[part[p] - 1] \in Nat
      BY <1>4, <1>7, <2>1, <2>3
    <3>2. at[p] < at[q]
      BY <1>9, <2>1, <3>1
    <3> QED BY <2>3, <3>2
  <2> QED BY <1>2, <2>1, <2>2, <2>3
<1>10. ASSUME NEW i \in 1 .. n, NEW k \in 1 .. Len(ss[i])
       PROVE  \E p \in 1 .. Len(flat) : part[p] = i /\ at[p] = k
  <2> DEFINE p == off[i - 1] + k
  <2>1. off[i - 1] \in Nat /\ off[i] \in Nat /\ off[i] = off[i - 1] + Len(ss[i]) /\ Len(ss[i]) \in Nat
    BY <1>2, <1>3, <1>4
  <2>2. n \in 0 .. n /\ i \in 0 .. n /\ i <= n
    BY <1>2
  <2>3. off[i] <= off[n] /\ off[n] \in Nat
    BY <1>3, <1>5, <2>2
  <2>4. p \in 1 .. Len(flat) /\ p \in Nat /\ off[i - 1] < p /\ p <= off[i] /\ k = p - off[i - 1]
    BY <1>3, <2>1, <2>3
  <2> HIDE DEF p
  <2>5. part[p] \in 1 .. n /\ off[part[p] - 1] < p /\ p <= off[part[p]]
    BY <1>6, <2>4
  <2>6. part[p] = i
    <3>1. ASSUME NEW a \in 1 .. n, NEW b \in 1 .. n, a < b, p <= off[a], off[b - 1] < p PROVE FALSE
      <4>1. a \in 0 .. n /\ b - 1 \in 0 .. n /\ a <= b - 1
        BY <1>2, <3>1
      <4>2. off[a] <= off[b - 1] /\ off[a] \in Nat /\ off[b - 1] \in Nat
        BY <1>3, <1>5, <4>1
      <4> QED BY <2>4, <3>1, <4>2
    <3>2. ~(part[p] < i) /\ ~(i < part[p])
      BY <2>4, <2>5, <3>1
    <3> QED BY <1>2, <2>5, <3>2
  <2>7. at[p] = k
    BY <1>7, <2>4, <2>6
  <2> QED BY <2>4, <2>6, <2>7
<1>11. at = [p \in 1 .. Len(flat) |-> at[p]]
  BY DEF at
<1>12. part \in [1 .. Len(flat) -> 1 .. n]
  <2>1. part = [p \in 1 .. Len(flat) |-> part[p]]
    BY DEF part
  <2> QED BY <1>6, <2>1
<1>13. Placed(flat, ss, part, at)
  BY <1>7, <1>8, <1>9, <1>10, <1>11, <1>12 DEF Placed, n
<1> QED BY <1>3, <1>13 DEF flat

\* What a concatenation holds.
LEMMA FlattenHolds ==
  ASSUME NEW ss, IsSeq(ss), \A i \in 1 .. Len(ss) : IsSeq(ss[i])
  PROVE  /\ IsSeq(FlattenSeq(ss))
         /\ \A x : x \in ToSet(FlattenSeq(ss)) <=> \E i \in 1 .. Len(ss) : x \in ToSet(ss[i])
<1> DEFINE flat == FlattenSeq(ss)
<1>1. IsSeq(flat) /\ \E part, at : Placed(flat, ss, part, at)
  BY FlattenIsPlaced
<1>2. PICK part, at : Placed(flat, ss, part, at)
  BY <1>1
<1>3. DOMAIN flat = 1 .. Len(flat) /\ \A i \in 1 .. Len(ss) : DOMAIN ss[i] = 1 .. Len(ss[i])
  BY <1>1, SeqIs
<1> HIDE DEF flat
<1>4. ASSUME NEW x, x \in ToSet(flat) PROVE \E i \in 1 .. Len(ss) : x \in ToSet(ss[i])
  <2>1. PICK p \in 1 .. Len(flat) : x = flat[p]
    BY <1>3, <1>4 DEF ToSet
  <2>2. part[p] \in 1 .. Len(ss) /\ at[p] \in 1 .. Len(ss[part[p]]) /\ x = ss[part[p]][at[p]]
    BY <1>2, <2>1 DEF Placed
  <2> QED BY <1>3, <2>2 DEF ToSet
<1>5. ASSUME NEW i \in 1 .. Len(ss), NEW x \in ToSet(ss[i]) PROVE x \in ToSet(flat)
  <2>1. PICK k \in 1 .. Len(ss[i]) : x = ss[i][k]
    BY <1>3 DEF ToSet
  <2>2. PICK p \in 1 .. Len(flat) : part[p] = i /\ at[p] = k
    BY <1>2 DEF Placed
  <2>3. flat[p] = ss[part[p]][at[p]]
    BY <1>2 DEF Placed
  <2> QED BY <1>3, <2>1, <2>2, <2>3 DEF ToSet
<1> QED BY <1>1, <1>4, <1>5 DEF flat

\* What two sequences together hold.
LEMMA BothHold ==
  ASSUME NEW s, NEW t, IsSeq(s), IsSeq(t)
  PROVE  IsSeq(s \o t) /\ ToSet(s \o t) = ToSet(s) \cup ToSet(t)
<1>1. /\ IsSeq(s \o t) /\ Len(s) \in Nat /\ Len(t) \in Nat
      /\ Len(s \o t) = Len(s) + Len(t)
      /\ \A k \in 1 .. Len(s) : (s \o t)[k] = s[k]
      /\ \A k \in 1 .. Len(t) : (s \o t)[Len(s) + k] = t[k]
  BY BothSeqs
<1>2. DOMAIN s = 1 .. Len(s) /\ DOMAIN t = 1 .. Len(t) /\ DOMAIN (s \o t) = 1 .. Len(s \o t)
  BY <1>1, SeqIs
<1> DEFINE u == s \o t
<1> HIDE DEF u
<1>3. ASSUME NEW x \in ToSet(u) PROVE x \in ToSet(s) \cup ToSet(t)
  <2>1. PICK k \in 1 .. Len(s) + Len(t) : x = u[k]
    BY <1>1, <1>2 DEF u, ToSet
  <2>2. CASE k \in 1 .. Len(s)
    BY <1>1, <1>2, <2>1, <2>2 DEF u, ToSet
  <2>3. CASE k \notin 1 .. Len(s)
    <3>1. k - Len(s) \in 1 .. Len(t) /\ Len(s) + (k - Len(s)) = k
      BY <1>1, <2>3
    <3>2. x = t[k - Len(s)]
      BY <1>1, <2>1, <3>1 DEF u
    <3> QED BY <1>2, <3>1, <3>2 DEF ToSet
  <2> QED BY <2>2, <2>3
<1>4. ASSUME NEW x \in ToSet(s) \cup ToSet(t) PROVE x \in ToSet(u)
  <2>1. CASE x \in ToSet(s)
    <3>1. PICK k \in 1 .. Len(s) : x = s[k]
      BY <1>2, <2>1 DEF ToSet
    <3>2. k \in 1 .. Len(u) /\ x = u[k]
      BY <1>1, <3>1 DEF u
    <3> QED BY <1>2, <3>2 DEF u, ToSet
  <2>2. CASE x \in ToSet(t)
    <3>1. PICK k \in 1 .. Len(t) : x = t[k]
      BY <1>2, <2>2 DEF ToSet
    <3>2. Len(s) + k \in 1 .. Len(u) /\ x = u[Len(s) + k]
      BY <1>1, <3>1 DEF u
    <3> QED BY <1>2, <3>2 DEF u, ToSet
  <2> QED BY <2>1, <2>2
<1> QED BY <1>1, <1>3, <1>4 DEF u

-----------------------------------------------------------------------------
(* Statements that insert *)

\* The tables whose rows refer to revisions, to nodes and to regions.
OfRevisions == {"nodes", "file_revisions", "edges", "unresolved_references", "regions"}
OfNodes     == {"nodes", "node_locations", "node_roles", "file_revisions", "edges", "unresolved_references"}
OfRegions   == {"region_languages", "region_ecosystems"}

\* A row refers only to where its table does, and the node of a file only to itself.
RowStands(t, r) ==
  \A f \in r.refs :
    /\ \/ f[1] = "revisions" /\ t \in OfRevisions
       \/ f[1] = "nodes" /\ t \in OfNodes
       \/ f[1] = "regions" /\ t \in OfRegions
    /\ t = "nodes" /\ r.kind = "File" /\ f[1] = "nodes" => f[2] = r.key

RefOf(st) == <<st.table, st.row.key>>
Named(T)  == {RefOf(T[i]) : i \in 1 .. Len(T)}

\* Rows of different keys, each of which refers to what is given or was inserted no later.
Sound(T, given) ==
  /\ IsSeq(T)
  /\ \A i \in 1 .. Len(T) : /\ T[i].does = "insert" /\ T[i].table \in G!Tables
                            /\ RowStands(T[i].table, T[i].row)
  /\ \A i, j \in 1 .. Len(T) : i # j => RefOf(T[i]) # RefOf(T[j])
  /\ \A j \in 1 .. Len(T) : \A f \in T[j].row.refs : f \in given \/ \E i \in 1 .. j : f = RefOf(T[i])

\* No statement needs nothing and names nothing.
LEMMA NothingIsSound == \A given : Sound(<<>>, given) /\ Named(<<>>) = {}
BY ShortSeqs DEF Sound, Named

\* One insertion.
LEMMA OneIsSound ==
  ASSUME NEW t \in G!Tables, NEW key, NEW kind, NEW refs, NEW scanned, NEW given,
         RowStands(t, [key |-> key, kind |-> kind, refs |-> refs, of |-> scanned]),
         refs \subseteq given \cup {<<t, key>>}
  PROVE  Sound(G!Insert(t, key, kind, refs, scanned), given)
         /\ Named(G!Insert(t, key, kind, refs, scanned)) = {<<t, key>>}
<1> DEFINE r == [key |-> key, kind |-> kind, refs |-> refs, of |-> scanned]
           st == [does |-> "insert", table |-> t, row |-> r]
<1>1. G!Insert(t, key, kind, refs, scanned) = <<st>>
  BY DEF G!Insert
<1>2. st.does = "insert" /\ st.table = t /\ st.row = r /\ RefOf(st) = <<t, key>> /\ r.refs = refs
  BY DEF RefOf
<1> HIDE DEF st, r
<1>3. IsSeq(<<st>>) /\ Len(<<st>>) = 1 /\ <<st>>[1] = st
  BY ShortSeqs
<1> DEFINE T == <<st>>
<1> HIDE DEF T
<1>4. IsSeq(T) /\ Len(T) = 1 /\ T[1] = st
  BY <1>3 DEF T
<1>5. 1 .. Len(T) = {1}
  BY <1>4
<1>6. RowStands(t, r)
  BY DEF r
<1>7. Sound(T, given)
  BY <1>2, <1>4, <1>5, <1>6 DEF Sound
<1>8. Named(T) = {<<t, key>>}
  BY <1>2, <1>4, <1>5 DEF Named
<1> QED BY <1>1, <1>7, <1>8 DEF T

\* Insertions after others.
LEMMA BothAreSound ==
  ASSUME NEW A, NEW B, NEW given, NEW later, Sound(A, given), Sound(B, later),
         later \subseteq given \cup Named(A), Named(A) \cap Named(B) = {}
  PROVE  Sound(A \o B, given) /\ Named(A \o B) = Named(A) \cup Named(B)
<1> DEFINE T == A \o B
           a == Len(A)
           b == Len(B)
<1>1. /\ IsSeq(T) /\ a \in Nat /\ b \in Nat /\ Len(T) = a + b
      /\ \A k \in 1 .. a : T[k] = A[k]
      /\ \A k \in 1 .. b : T[a + k] = B[k]
  BY BothSeqs DEF Sound
<1>2. /\ \A i \in 1 .. a : /\ A[i].does = "insert" /\ A[i].table \in G!Tables
                           /\ RowStands(A[i].table, A[i].row)
      /\ \A i, j \in 1 .. a : i # j => RefOf(A[i]) # RefOf(A[j])
      /\ \A j \in 1 .. a : \A f \in A[j].row.refs : f \in given \/ \E i \in 1 .. j : f = RefOf(A[i])
      /\ \A i \in 1 .. a : RefOf(A[i]) \in Named(A)
      /\ \A x \in Named(A) : \E i \in 1 .. a : x = RefOf(A[i])
  BY DEF Sound, Named
<1>3. /\ \A i \in 1 .. b : /\ B[i].does = "insert" /\ B[i].table \in G!Tables
                           /\ RowStands(B[i].table, B[i].row)
      /\ \A i, j \in 1 .. b : i # j => RefOf(B[i]) # RefOf(B[j])
      /\ \A j \in 1 .. b : \A f \in B[j].row.refs : f \in later \/ \E i \in 1 .. j : f = RefOf(B[i])
      /\ \A i \in 1 .. b : RefOf(B[i]) \in Named(B)
      /\ \A x \in Named(B) : \E i \in 1 .. b : x = RefOf(B[i])
  BY DEF Sound, Named
<1> HIDE DEF T, a, b
<1>4. \A i \in 1 .. Len(T) : \/ i \in 1 .. a /\ T[i] = A[i]
                             \/ i - a \in 1 .. b /\ i \in Nat /\ i > a /\ T[i] = B[i - a]
  <2> SUFFICES ASSUME NEW i \in 1 .. Len(T), i \notin 1 .. a
               PROVE  i - a \in 1 .. b /\ i \in Nat /\ i > a /\ T[i] = B[i - a]
    BY <1>1
  <2>1. i - a \in 1 .. b /\ a + (i - a) = i /\ i \in Nat /\ i > a
    BY <1>1
  <2> QED BY <1>1, <2>1
<1>5. \A i \in 1 .. Len(T) : /\ T[i].does = "insert" /\ T[i].table \in G!Tables
                             /\ RowStands(T[i].table, T[i].row)
  BY <1>2, <1>3, <1>4
<1>6. ASSUME NEW i \in 1 .. Len(T), NEW j \in 1 .. Len(T), i # j PROVE RefOf(T[i]) # RefOf(T[j])
  <2>1. CASE i \in 1 .. a /\ T[i] = A[i] /\ j \in 1 .. a /\ T[j] = A[j]
    BY <1>2, <1>6, <2>1
  <2>2. CASE i \in 1 .. a /\ T[i] = A[i] /\ j - a \in 1 .. b /\ T[j] = B[j - a]
    BY <1>2, <1>3, <2>2
  <2>3. CASE i - a \in 1 .. b /\ T[i] = B[i - a] /\ j \in 1 .. a /\ T[j] = A[j]
    BY <1>2, <1>3, <2>3
  <2>4. CASE i - a \in 1 .. b /\ T[i] = B[i - a] /\ j - a \in 1 .. b /\ T[j] = B[j - a]
    <3>1. i - a # j - a
      BY <1>1, <1>6
    <3> QED BY <1>3, <2>4, <3>1
  <2> QED BY <1>4, <2>1, <2>2, <2>3, <2>4
<1>7. ASSUME NEW j \in 1 .. Len(T), NEW f \in T[j].row.refs
      PROVE  f \in given \/ \E i \in 1 .. j : f = RefOf(T[i])
  <2>1. CASE j \in 1 .. a /\ T[j] = A[j]
    <3>1. f \in given \/ \E i \in 1 .. j : f = RefOf(A[i])
      BY <1>2, <2>1
    <3>2. \A i \in 1 .. j : T[i] = A[i]
      BY <1>1, <2>1
    <3> QED BY <3>1, <3>2
  <2>2. CASE j - a \in 1 .. b /\ j > a /\ T[j] = B[j - a]
    <3>1. f \in later \/ \E i \in 1 .. j - a : f = RefOf(B[i])
      BY <1>3, <2>2
    <3>2. CASE f \in Named(A)
      <4>1. PICK i \in 1 .. a : f = RefOf(A[i])
        BY <1>2, <3>2
      <4>2. i \in 1 .. j /\ T[i] = A[i]
        BY <1>1, <2>2
      <4> QED BY <4>1, <4>2
    <3>3. CASE \E i \in 1 .. j - a : f = RefOf(B[i])
      <4>1. PICK i \in 1 .. j - a : f = RefOf(B[i])
        BY <3>3
      <4>2. i \in 1 .. b /\ a + i \in 1 .. j
        BY <1>1, <2>2
      <4>3. T[a + i] = B[i]
        BY <1>1, <4>2
      <4> QED BY <4>1, <4>2, <4>3
    <3> QED BY <3>1, <3>2, <3>3
  <2> QED BY <1>4, <2>1, <2>2
<1>8. Sound(T, given)
  BY <1>1, <1>5, <1>6, <1>7 DEF Sound
<1>9. Named(T) = Named(A) \cup Named(B)
  <2>1. ASSUME NEW i \in 1 .. Len(T) PROVE RefOf(T[i]) \in Named(A) \cup Named(B)
    BY <1>2, <1>3, <1>4
  <2>2. ASSUME NEW x \in Named(A) PROVE x \in Named(T)
    <3>1. PICK i \in 1 .. a : x = RefOf(A[i])
      BY <1>2
    <3>2. i \in 1 .. Len(T) /\ T[i] = A[i]
      BY <1>1
    <3> QED BY <3>1, <3>2 DEF Named
  <2>3. ASSUME NEW x \in Named(B) PROVE x \in Named(T)
    <3>1. PICK i \in 1 .. b : x = RefOf(B[i])
      BY <1>3
    <3>2. a + i \in 1 .. Len(T) /\ T[a + i] = B[i]
      BY <1>1
    <3> QED BY <3>1, <3>2 DEF Named
  <2>4. \A x \in Named(T) : \E i \in 1 .. Len(T) : x = RefOf(T[i])
    BY DEF Named
  <2> QED BY <2>1, <2>2, <2>3, <2>4
<1> QED BY <1>8, <1>9 DEF T

\* Insertions group by group, of which each may refer to those before it.
LEMMA GroupsAreSound ==
  ASSUME NEW ss, IsSeq(ss), NEW given, NEW later,
         \A i \in 1 .. Len(ss) :
           Sound(ss[i], later[i]) /\ later[i] \subseteq given \cup UNION {Named(ss[j]) : j \in 1 .. i - 1},
         \A i, j \in 1 .. Len(ss) : i # j => Named(ss[i]) \cap Named(ss[j]) = {}
  PROVE  /\ Sound(FlattenSeq(ss), given)
         /\ \A x : x \in Named(FlattenSeq(ss)) <=> \E i \in 1 .. Len(ss) : x \in Named(ss[i])
<1> DEFINE T == FlattenSeq(ss)
           n == Len(ss)
<1>1. IsSeq(T) /\ \E part, at : Placed(T, ss, part, at)
  BY FlattenIsPlaced DEF Sound
<1>2. PICK part, at : Placed(T, ss, part, at)
  BY <1>1
<1>3. n \in Nat /\ Len(T) \in Nat /\ \A i \in 1 .. n : Len(ss[i]) \in Nat
  BY <1>1, SeqIs DEF Sound
<1> HIDE DEF T
<1>4. /\ part \in [1 .. Len(T) -> 1 .. n]
      /\ \A p \in 1 .. Len(T) : at[p] \in 1 .. Len(ss[part[p]]) /\ T[p] = ss[part[p]][at[p]]
      /\ \A p, q \in 1 .. Len(T) :
           p < q => part[p] < part[q] \/ (part[p] = part[q] /\ at[p] < at[q])
      /\ \A i \in 1 .. n : \A k \in 1 .. Len(ss[i]) :
           \E p \in 1 .. Len(T) : part[p] = i /\ at[p] = k
  BY <1>2 DEF Placed
<1>5. ASSUME NEW i \in 1 .. n
      PROVE  /\ \A k \in 1 .. Len(ss[i]) : /\ ss[i][k].does = "insert" /\ ss[i][k].table \in G!Tables
                                           /\ RowStands(ss[i][k].table, ss[i][k].row)
                                           /\ RefOf(ss[i][k]) \in Named(ss[i])
             /\ \A k, l \in 1 .. Len(ss[i]) : k # l => RefOf(ss[i][k]) # RefOf(ss[i][l])
             /\ \A l \in 1 .. Len(ss[i]) : \A f \in ss[i][l].row.refs :
                  f \in later[i] \/ \E k \in 1 .. l : f = RefOf(ss[i][k])
             /\ \A x \in Named(ss[i]) : \E k \in 1 .. Len(ss[i]) : x = RefOf(ss[i][k])
  BY DEF Sound, Named
<1>6. ASSUME NEW p \in 1 .. Len(T), NEW q \in 1 .. Len(T), p < q PROVE RefOf(T[p]) # RefOf(T[q])
  <2>1. part[p] \in 1 .. n /\ part[q] \in 1 .. n
    BY <1>4
  <2>2. CASE part[p] < part[q]
    <3>1. RefOf(T[p]) \in Named(ss[part[p]]) /\ RefOf(T[q]) \in Named(ss[part[q]])
      BY <1>4, <1>5, <2>1
    <3>2. part[p] # part[q]
      BY <2>1, <2>2
    <3> QED BY <2>1, <3>1, <3>2
  <2>3. CASE part[p] = part[q] /\ at[p] < at[q]
    <3>1. at[p] \in 1 .. Len(ss[part[p]]) /\ at[q] \in 1 .. Len(ss[part[p]]) /\ at[p] # at[q]
      BY <1>3, <1>4, <2>1, <2>3
    <3>2. RefOf(ss[part[p]][at[p]]) # RefOf(ss[part[p]][at[q]])
      BY <1>5, <2>1, <3>1
    <3> QED BY <1>4, <2>3, <3>2
  <2> QED BY <1>4, <1>6, <2>2, <2>3
<1>7. ASSUME NEW i \in 1 .. n, NEW k \in 1 .. Len(ss[i]), NEW q \in 1 .. Len(T),
             i < part[q] \/ (i = part[q] /\ k <= at[q])
      PROVE  \E p \in 1 .. q : RefOf(ss[i][k]) = RefOf(T[p])
  <2>1. PICK p \in 1 .. Len(T) : part[p] = i /\ at[p] = k
    BY <1>4
  <2>2. T[p] = ss[i][k]
    BY <1>4, <2>1
  <2>3. ~(q < p)
    <3> SUFFICES ASSUME q < p PROVE FALSE
      OBVIOUS
    <3>1. part[q] < part[p] \/ (part[q] = part[p] /\ at[q] < at[p])
      BY <1>4
    <3>2. part[p] \in 1 .. n /\ part[q] \in 1 .. n
          /\ at[p] \in 1 .. Len(ss[part[p]]) /\ at[q] \in 1 .. Len(ss[part[q]])
      BY <1>4
    <3>3. part[p] \in Nat /\ part[q] \in Nat /\ at[p] \in Nat /\ at[q] \in Nat
      BY <1>3, <3>2
    <3> QED BY <1>7, <2>1, <3>1, <3>3
  <2>4. p \in 1 .. q
    BY <1>3, <2>3
  <2> QED BY <2>2, <2>4
<1>8. ASSUME NEW q \in 1 .. Len(T), NEW f \in T[q].row.refs
      PROVE  f \in given \/ \E p \in 1 .. q : f = RefOf(T[p])
  <2>1. part[q] \in 1 .. n /\ at[q] \in 1 .. Len(ss[part[q]]) /\ T[q] = ss[part[q]][at[q]]
    BY <1>4
  <2>2. f \in later[part[q]] \/ \E k \in 1 .. at[q] : f = RefOf(ss[part[q]][k])
    BY <1>5, <2>1
  <2>3. CASE \E k \in 1 .. at[q] : f = RefOf(ss[part[q]][k])
    <3>1. PICK k \in 1 .. at[q] : f = RefOf(ss[part[q]][k])
      BY <2>3
    <3>2. k \in 1 .. Len(ss[part[q]]) /\ k <= at[q]
      BY <1>3, <2>1
    <3>3. \E p \in 1 .. q : RefOf(ss[part[q]][k]) = RefOf(T[p])
      BY <1>7, <2>1, <3>2
    <3> QED BY <3>1, <3>3
  <2>4. CASE \E j \in 1 .. part[q] - 1 : f \in Named(ss[j])
    <3>1. PICK j \in 1 .. part[q] - 1 : f \in Named(ss[j])
      BY <2>4
    <3>2. j \in 1 .. n /\ j < part[q]
      BY <1>3, <2>1
    <3>3. PICK k \in 1 .. Len(ss[j]) : f = RefOf(ss[j][k])
      BY <1>5, <3>1, <3>2
    <3>4. \E p \in 1 .. q : RefOf(ss[j][k]) = RefOf(T[p])
      BY <1>7, <3>2
    <3> QED BY <3>3, <3>4
  <2> QED BY <2>1, <2>2, <2>3, <2>4
<1>9. Sound(T, given)
  <2>1. \A i \in 1 .. Len(T) : /\ T[i].does = "insert" /\ T[i].table \in G!Tables
                               /\ RowStands(T[i].table, T[i].row)
    BY <1>4, <1>5
  <2>2. \A p, q \in 1 .. Len(T) : p # q => RefOf(T[p]) # RefOf(T[q])
    <3> SUFFICES ASSUME NEW p \in 1 .. Len(T), NEW q \in 1 .. Len(T), p # q
                 PROVE  RefOf(T[p]) # RefOf(T[q])
      OBVIOUS
    <3>1. p < q \/ q < p
      BY <1>3
    <3> QED BY <1>6, <3>1
  <2> QED BY <1>1, <1>8, <2>1, <2>2 DEF Sound
<1>10. ASSUME NEW x PROVE x \in Named(T) <=> \E i \in 1 .. n : x \in Named(ss[i])
  <2>1. ASSUME NEW p \in 1 .. Len(T), x = RefOf(T[p]) PROVE \E i \in 1 .. n : x \in Named(ss[i])
    <3>1. part[p] \in 1 .. n /\ at[p] \in 1 .. Len(ss[part[p]]) /\ T[p] = ss[part[p]][at[p]]
      BY <1>4
    <3> QED BY <1>5, <2>1, <3>1
  <2>2. ASSUME NEW i \in 1 .. n, x \in Named(ss[i]) PROVE x \in Named(T)
    <3>1. PICK k \in 1 .. Len(ss[i]) : x = RefOf(ss[i][k])
      BY <1>5, <2>2
    <3>2. PICK p \in 1 .. Len(T) : part[p] = i /\ at[p] = k
      BY <1>4
    <3>3. T[p] = ss[i][k]
      BY <1>4, <3>2
    <3> QED BY <3>1, <3>3 DEF Named
  <2> QED BY <2>1, <2>2 DEF Named
<1> QED BY <1>9, <1>10 DEF T

-----------------------------------------------------------------------------
(* Truncation *)

RowsStand(ts) == \A t \in G!Tables : \A r \in ts[t] : RowStands(t, r)

Truncates == G!TruncateStatements

\* What truncation deletes, table by table, in the order of the code.
LEMMA TruncateIs ==
  /\ IsSeq(Truncates) /\ Len(Truncates) = 12
  /\ Truncates[1] = G!Delete("edges", {})
  /\ Truncates[2] = G!Delete("unresolved_references", {})
  /\ Truncates[3] = G!Delete("region_languages", {})
  /\ Truncates[4] = G!Delete("region_ecosystems", {})
  /\ Truncates[5] = G!Delete("regions", {})
  /\ Truncates[6] = G!Delete("node_roles", {})
  /\ Truncates[7] = G!Delete("node_locations", {})
  /\ Truncates[8] = G!Delete("file_revisions", {})
  /\ Truncates[9] = G!Delete("nodes", {"File"})
  /\ Truncates[10] = G!Delete("nodes", {})
  /\ Truncates[11] = G!Delete("revisions", {})
  /\ Truncates[12] = G!Delete("repository", {})
<1> DEFINE d(n) == Truncates[n]
<1>1. Truncates \in Seq({d(n) : n \in 1 .. 12}) /\ Len(Truncates) = 12
  BY DEF Truncates, G!TruncateStatements
<1>2. IsSeq(Truncates)
  BY <1>1 DEF IsSeq
<1> QED BY <1>1, <1>2 DEF Truncates, G!TruncateStatements

\* The tables that have been emptied after so many statements.
Emptied(k) ==
  {t \in G!Tables :
     \/ k >= 1 /\ t = "edges"
     \/ k >= 2 /\ t = "unresolved_references"
     \/ k >= 3 /\ t = "region_languages"
     \/ k >= 4 /\ t = "region_ecosystems"
     \/ k >= 5 /\ t = "regions"
     \/ k >= 6 /\ t = "node_roles"
     \/ k >= 7 /\ t = "node_locations"
     \/ k >= 8 /\ t = "file_revisions"
     \/ k >= 10 /\ t = "nodes"
     \/ k >= 11 /\ t = "revisions"
     \/ k >= 12 /\ t = "repository"}

\* Rows of a table may go when the tables that refer to it are empty; and those that stay of a
\* table that refers to itself refer to themselves.
LEMMA DeleteUpholds ==
  ASSUME NEW ts, ts = [t \in G!Tables |-> ts[t]], G!Upheld(ts), RowsStand(ts),
         NEW d \in G!Tables, NEW spared, spared \in {{}, {"File"}},
         d = "nodes" => \A t \in OfNodes \ {"nodes"} : ts[t] = {},
         d = "revisions" => \A t \in OfRevisions : ts[t] = {},
         d = "regions" => \A t \in OfRegions : ts[t] = {}
  PROVE  LET after == G!After(ts, G!Delete(d, spared))
         IN  /\ G!Upheld(after) /\ after = [t \in G!Tables |-> after[t]]
             /\ \A t \in G!Tables : after[t] \subseteq ts[t]
             /\ spared = {} => after[d] = {}
<1> DEFINE left  == {r \in ts[d] : r.kind \in spared}
           gone  == {<<d, r.key>> : r \in ts[d] \ left}
           after == [t \in G!Tables |-> IF t = d THEN left
                                        ELSE IF t \in G!Cascading THEN {r \in ts[t] : r.refs \cap gone = {}}
                                        ELSE ts[t]]
<1>1. G!After(ts, G!Delete(d, spared)) = after
  BY DEF G!After, G!Delete
<1>2. \A t \in G!Tables : after[t] \subseteq ts[t]
  OBVIOUS
<1>3. \A t \in G!Tables \ ({d} \cup G!Cascading) : after[t] = ts[t]
  OBVIOUS
<1>4. after[d] = left
  OBVIOUS
<1>5. spared = {} => left = {}
  OBVIOUS
<1>6. after = [t \in G!Tables |-> after[t]]
  OBVIOUS
<1> HIDE DEF after
<1>7. ASSUME NEW t \in G!Tables, NEW r \in after[t], NEW f \in r.refs
      PROVE  f[2] \in G!Keys(after, f[1])
  <2>1. r \in ts[t] /\ f[2] \in G!Keys(ts, f[1]) /\ RowStands(t, r)
    BY <1>2 DEF G!Upheld, RowsStand
  <2>2. \/ f[1] = "revisions" /\ t \in OfRevisions
        \/ f[1] = "nodes" /\ t \in OfNodes
        \/ f[1] = "regions" /\ t \in OfRegions
    BY <2>1 DEF RowStands
  <2>3. f[1] \in G!Tables \ G!Cascading
    BY <2>2 DEF G!Tables, G!Cascading
  <2>4. CASE f[1] # d
    <3>1. after[f[1]] = ts[f[1]]
      BY <1>3, <2>3, <2>4
    <3> QED BY <2>1, <3>1 DEF G!Keys
  <2>5. CASE f[1] = d
    <3>1. d = "nodes" /\ t = "nodes"
      BY <2>1, <2>2, <2>5
    <3>2. r.kind = "File"
      BY <1>4, <3>1
    <3>3. f[2] = r.key
      BY <2>1, <2>5, <3>1, <3>2 DEF RowStands
    <3> QED BY <2>5, <3>1, <3>3 DEF G!Keys
  <2> QED BY <2>4, <2>5
<1>8. G!Upheld(after)
  BY <1>7 DEF G!Upheld
<1> QED BY <1>1, <1>2, <1>4, <1>5, <1>6, <1>8

\* Where a truncation has come to.
Truncating(ts, k) ==
  /\ ts = [t \in G!Tables |-> ts[t]] /\ G!Upheld(ts) /\ RowsStand(ts)
  /\ \A t \in Emptied(k) : ts[t] = {}

\* Each deletion of the truncation leaves the keys whole and empties one table more.
LEMMA TruncationGoesOn ==
  ASSUME NEW ts, NEW k \in 0 .. 11, Truncating(ts, k)
  PROVE  /\ Truncating(G!After(ts, Truncates[k + 1]), k + 1)
         /\ ~G!Violates(ts, Truncates[k + 1])
         /\ Truncates[k + 1].does = "delete"
<1>1. ASSUME NEW d \in G!Tables, NEW spared, spared \in {{}, {"File"}},
             Truncates[k + 1] = G!Delete(d, spared),
             d = "nodes" => OfNodes \ {"nodes"} \subseteq Emptied(k),
             d = "revisions" => OfRevisions \subseteq Emptied(k),
             d = "regions" => OfRegions \subseteq Emptied(k),
             \A t \in Emptied(k + 1) : t \in Emptied(k) \/ (t = d /\ spared = {})
      PROVE  /\ Truncating(G!After(ts, Truncates[k + 1]), k + 1)
             /\ ~G!Violates(ts, Truncates[k + 1])
             /\ Truncates[k + 1].does = "delete"
  <2> DEFINE after == G!After(ts, G!Delete(d, spared))
  <2>1. /\ G!Upheld(after) /\ after = [t \in G!Tables |-> after[t]]
        /\ \A t \in G!Tables : after[t] \subseteq ts[t]
        /\ spared = {} => after[d] = {}
    BY <1>1, DeleteUpholds DEF Truncating
  <2>2. G!Delete(d, spared).does = "delete"
    BY DEF G!Delete
  <2> HIDE DEF after
  <2>3. RowsStand(after)
    BY <2>1 DEF RowsStand, Truncating
  <2>4. \A t \in Emptied(k + 1) : after[t] = {}
    BY <1>1, <2>1 DEF Truncating, Emptied
  <2>5. Truncating(after, k + 1)
    BY <2>1, <2>3, <2>4 DEF Truncating
  <2>6. ~G!Violates(ts, G!Delete(d, spared))
    BY <2>1, <2>2 DEF G!Violates, after
  <2> QED BY <1>1, <2>2, <2>5, <2>6 DEF after
<1>2. k \in {0, 1, 2, 3, 4, 5, 6, 7, 8, 9, 10, 11}
  OBVIOUS
<1>3. "edges" \in G!Tables /\ "unresolved_references" \in G!Tables /\ "region_languages" \in G!Tables
      /\ "region_ecosystems" \in G!Tables /\ "regions" \in G!Tables /\ "node_roles" \in G!Tables
      /\ "node_locations" \in G!Tables /\ "file_revisions" \in G!Tables /\ "nodes" \in G!Tables
      /\ "revisions" \in G!Tables /\ "repository" \in G!Tables
  BY DEF G!Tables
<1>4. CASE k = 0  BY <1>1, <1>3, <1>4, TruncateIs DEF Emptied, OfNodes, OfRevisions, OfRegions
<1>5. CASE k = 1  BY <1>1, <1>3, <1>5, TruncateIs DEF Emptied, OfNodes, OfRevisions, OfRegions
<1>6. CASE k = 2  BY <1>1, <1>3, <1>6, TruncateIs DEF Emptied, OfNodes, OfRevisions, OfRegions
<1>7. CASE k = 3  BY <1>1, <1>3, <1>7, TruncateIs DEF Emptied, OfNodes, OfRevisions, OfRegions
<1>8. CASE k = 4  BY <1>1, <1>3, <1>8, TruncateIs DEF Emptied, OfNodes, OfRevisions, OfRegions
<1>9. CASE k = 5  BY <1>1, <1>3, <1>9, TruncateIs DEF Emptied, OfNodes, OfRevisions, OfRegions
<1>10. CASE k = 6  BY <1>1, <1>3, <1>10, TruncateIs DEF Emptied, OfNodes, OfRevisions, OfRegions
<1>11. CASE k = 7  BY <1>1, <1>3, <1>11, TruncateIs DEF Emptied, OfNodes, OfRevisions, OfRegions
<1>12. CASE k = 8  BY <1>1, <1>3, <1>12, TruncateIs DEF Emptied, OfNodes, OfRevisions, OfRegions
<1>13. CASE k = 9  BY <1>1, <1>3, <1>13, TruncateIs DEF Emptied, OfNodes, OfRevisions, OfRegions
<1>14. CASE k = 10  BY <1>1, <1>3, <1>14, TruncateIs DEF Emptied, OfNodes, OfRevisions, OfRegions
<1>15. CASE k = 11  BY <1>1, <1>3, <1>15, TruncateIs DEF Emptied, OfNodes, OfRevisions, OfRegions
<1> QED BY <1>2, <1>4, <1>5, <1>6, <1>7, <1>8, <1>9, <1>10, <1>11, <1>12, <1>13, <1>14, <1>15

-----------------------------------------------------------------------------
(* Insertion *)

\* What the first k insertions leave in tables that were empty.
Inserted(T, k) == [t \in G!Tables |-> {T[i].row : i \in {j \in 1 .. k : T[j].table = t}}]

\* What sound statements have inserted refers to what they have inserted.
LEMMA InsertedIsUpheld ==
  ASSUME NEW T, Sound(T, {}), NEW k \in 0 .. Len(T)
  PROVE  G!Upheld(Inserted(T, k)) /\ RowsStand(Inserted(T, k))
<1> DEFINE ts == Inserted(T, k)
<1>1. Len(T) \in Nat /\ k \in Nat
  BY SeqIs DEF Sound
<1>2. /\ \A i \in 1 .. k : /\ T[i].table \in G!Tables
                           /\ RowStands(T[i].table, T[i].row)
      /\ \A j \in 1 .. k : \A f \in T[j].row.refs : \E i \in 1 .. j : f = RefOf(T[i])
  BY <1>1 DEF Sound
<1>3. \A t \in G!Tables : \A r \in ts[t] : \E i \in 1 .. k : r = T[i].row /\ T[i].table = t
  BY DEF Inserted
<1>4. \A i \in 1 .. k : T[i].row \in ts[T[i].table]
  BY <1>2 DEF Inserted
<1> HIDE DEF ts
<1>5. ASSUME NEW t \in G!Tables, NEW r \in ts[t] PROVE RowStands(t, r)
  BY <1>2, <1>3
<1>6. ASSUME NEW t \in G!Tables, NEW r \in ts[t], NEW f \in r.refs PROVE f[2] \in G!Keys(ts, f[1])
  <2>1. PICK j \in 1 .. k : r = T[j].row
    BY <1>3
  <2>2. PICK i \in 1 .. j : f = RefOf(T[i])
    BY <1>2, <2>1
  <2>3. i \in 1 .. k
    BY <1>1
  <2>4. f[1] = T[i].table /\ f[2] = T[i].row.key
    BY <2>2 DEF RefOf
  <2> QED BY <1>4, <2>3, <2>4 DEF G!Keys
<1> QED BY <1>5, <1>6 DEF G!Upheld, RowsStand, ts

\* Each sound insertion puts in one row more, and a table's key is still one row's.
LEMMA InsertionGoesOn ==
  ASSUME NEW T, Sound(T, {}), NEW k \in Nat, k < Len(T)
  PROVE  /\ G!After(Inserted(T, k), T[k + 1]) = Inserted(T, k + 1)
         /\ ~G!Violates(Inserted(T, k), T[k + 1])
         /\ T[k + 1].does = "insert"
<1> DEFINE ts == Inserted(T, k)
           s == T[k + 1]
           after == [ts EXCEPT ![s.table] = @ \cup {s.row}]
<1>1. Len(T) \in Nat /\ k + 1 \in 1 .. Len(T) /\ k + 1 \in 0 .. Len(T)
  BY SeqIs DEF Sound
<1>2. s.does = "insert" /\ s.table \in G!Tables
      /\ \A i, j \in 1 .. Len(T) : i # j => RefOf(T[i]) # RefOf(T[j])
  BY <1>1 DEF Sound
<1>3. after = Inserted(T, k + 1)
  <2>1. ts = [t \in G!Tables |-> ts[t]]
    BY DEF Inserted
  <2>2. ASSUME NEW t \in G!Tables PROVE after[t] = Inserted(T, k + 1)[t]
    <3>1. after[t] = IF t = s.table THEN ts[t] \cup {s.row} ELSE ts[t]
      BY <2>1, <1>2
    <3>2. ts[t] = {T[i].row : i \in {j \in 1 .. k : T[j].table = t}}
      BY DEF Inserted
    <3>3. Inserted(T, k + 1)[t] = {T[i].row : i \in {j \in 1 .. k + 1 : T[j].table = t}}
      BY DEF Inserted
    <3>4. 1 .. k + 1 = (1 .. k) \cup {k + 1}
      OBVIOUS
    <3> QED BY <3>1, <3>2, <3>3, <3>4
  <2>3. after = [t \in G!Tables |-> after[t]]
    BY <2>1
  <2>4. Inserted(T, k + 1) = [t \in G!Tables |-> Inserted(T, k + 1)[t]]
    BY DEF Inserted
  <2> HIDE DEF after
  <2> QED BY <2>2, <2>3, <2>4
<1>4. G!After(ts, s) = after
  BY <1>2 DEF G!After
<1>5. s.row.key \notin G!Keys(ts, s.table)
  <2> SUFFICES ASSUME s.row.key \in G!Keys(ts, s.table) PROVE FALSE
    OBVIOUS
  <2>1. PICK r \in ts[s.table] : r.key = s.row.key
    BY DEF G!Keys
  <2>2. PICK i \in 1 .. k : r = T[i].row /\ T[i].table = s.table
    BY <1>2, <2>1 DEF Inserted
  <2>3. i \in 1 .. Len(T) /\ i # k + 1 /\ RefOf(T[i]) = RefOf(s)
    BY <1>1, <2>1, <2>2 DEF RefOf
  <2> QED BY <1>1, <1>2, <2>3
<1>6. G!Upheld(Inserted(T, k + 1))
  BY <1>1, InsertedIsUpheld
<1> HIDE DEF ts, s, after
<1>7. ~G!Violates(ts, s)
  BY <1>3, <1>4, <1>5, <1>6 DEF G!Violates
<1> QED BY <1>2, <1>3, <1>4, <1>7 DEF ts, s

\* Before the first insertion no table has a row.
LEMMA InsertionBegins ==
  ASSUME NEW T, NEW ts, Truncating(ts, 12)
  PROVE  ts = Inserted(T, 0)
<1>1. Emptied(12) = G!Tables
  BY DEF Emptied, G!Tables
<1>2. \A t \in G!Tables : ts[t] = {} /\ Inserted(T, 0)[t] = {}
  BY <1>1 DEF Truncating, Inserted
<1>3. ts = [t \in G!Tables |-> ts[t]] /\ Inserted(T, 0) = [t \in G!Tables |-> Inserted(T, 0)[t]]
  BY DEF Truncating, Inserted
<1> QED BY <1>2, <1>3

-----------------------------------------------------------------------------
(* The transaction *)

\* A replacement empties the tables and inserts what can be inserted into empty ones.
Replaces(R, T) == R = Truncates \o T /\ Sound(T, {})

\* The statements of a replacement: first the truncation, then insertions.
LEMMA ReplacementStatements ==
  ASSUME NEW R, NEW T, Replaces(R, T)
  PROVE  /\ IsSeq(R) /\ Len(T) \in Nat /\ Len(R) = 12 + Len(T)
         /\ \A j \in 1 .. 12 : R[j] = Truncates[j]
         /\ \A j \in 1 .. Len(T) : R[12 + j] = T[j]
<1>1. IsSeq(T)
  BY DEF Replaces, Sound
<1>2. R = Truncates \o T
  BY DEF Replaces
<1> DEFINE P == Truncates
<1>3. IsSeq(P)
  BY TruncateIs
<1>4. Len(P) = 12
  BY TruncateIs
<1> HIDE DEF P
<1>5. IsSeq(P \o T) /\ Len(P) \in Nat /\ Len(T) \in Nat /\ Len(P \o T) = Len(P) + Len(T)
  BY ONLY <1>1, <1>3, BothSeqs
<1>6. \A j \in 1 .. Len(P) : (P \o T)[j] = P[j]
  BY ONLY <1>1, <1>3, BothSeqs
<1>7. \A j \in 1 .. Len(T) : (P \o T)[Len(P) + j] = T[j]
  BY ONLY <1>1, <1>3, BothSeqs
<1>8. R = P \o T /\ \A j \in 1 .. 12 : P[j] = Truncates[j]
  BY <1>2 DEF P
<1> QED BY ONLY <1>4, <1>5, <1>6, <1>7, <1>8

\* The tables when j statements of it have been executed.
Reached(R, T, j, ts) ==
  /\ j \in 0 .. Len(R)
  /\ j <= 12 => Truncating(ts, j)
  /\ j >= 12 => ts = Inserted(T, j - 12)

\* A statement of a replacement never violates a key and leads to the state of the next.
LEMMA ExecutionGoesOn ==
  ASSUME NEW R, NEW T, Replaces(R, T), NEW j \in Nat, j < Len(R), NEW ts, Reached(R, T, j, ts)
  PROVE  ~G!Violates(ts, R[j + 1]) /\ Reached(R, T, j + 1, G!After(ts, R[j + 1]))
<1>1. /\ Len(T) \in Nat /\ Len(R) = 12 + Len(T) /\ Sound(T, {})
      /\ \A i \in 1 .. 12 : R[i] = Truncates[i]
      /\ \A i \in 1 .. Len(T) : R[12 + i] = T[i]
  BY ReplacementStatements DEF Replaces
<1>2. CASE j < 12
  <2>1. j \in 0 .. 11 /\ R[j + 1] = Truncates[j + 1] /\ Truncating(ts, j)
    BY <1>1, <1>2 DEF Reached
  <2>2. Truncating(G!After(ts, R[j + 1]), j + 1) /\ ~G!Violates(ts, R[j + 1])
    BY <2>1, TruncationGoesOn
  <2>3. j + 1 >= 12 => j + 1 = 12
    BY <1>2
  <2>4. j + 1 >= 12 => G!After(ts, R[j + 1]) = Inserted(T, (j + 1) - 12)
    BY <2>2, <2>3, InsertionBegins
  <2> QED BY <2>2, <2>4 DEF Reached
<1>3. CASE j >= 12
  <2>1. j - 12 \in Nat /\ j - 12 < Len(T) /\ (j - 12) + 1 = (j + 1) - 12
    BY <1>1, <1>3
  <2>2. R[j + 1] = T[(j - 12) + 1]
    <3>1. (j - 12) + 1 \in 1 .. Len(T) /\ 12 + ((j - 12) + 1) = j + 1
      BY <1>1, <2>1
    <3> QED BY <1>1, <3>1
  <2>3. ts = Inserted(T, j - 12)
    BY <1>3 DEF Reached
  <2>4. G!After(ts, R[j + 1]) = Inserted(T, (j + 1) - 12) /\ ~G!Violates(ts, R[j + 1])
    BY <1>1, <2>1, <2>2, <2>3, InsertionGoesOn
  <2> QED BY <1>1, <1>3, <2>4 DEF Reached
<1> QED BY <1>2, <1>3

\* The instance's concatenation is the library's.
LEMMA OneFlattenSeq == \A ss : G!FlattenSeq(ss) = FlattenSeq(ss)
BY DEF FlattenSeq, G!FlattenSeq

\* A replacement, section by section, in the order writeGraph has them.
LEMMA ReplacementIs ==
  ASSUME NEW g, NEW n
  PROVE  LET files == G!FilesFirst(g.nodes)
             nodes == g.nodes
             R1 == Truncates \o G!Insert("revisions", 1, "", {}, n) \o G!Insert("repository", 1, "", {}, n)
             R2 == R1 \o FlattenSeq(<<>> \o [i \in DOMAIN files |-> G!NodeRows(files[i], n)])
             R3 == R2 \o FlattenSeq(<<>> \o [i \in DOMAIN nodes |-> G!FileRow(nodes[i], n)])
             R4 == R3 \o FlattenSeq(<<>> \o [i \in DOMAIN g.edges |-> G!EdgeRow(g.edges[i], n)])
             R5 == R4 \o FlattenSeq(<<>> \o [i \in DOMAIN g.unresolved |-> G!ReferenceRow(g.unresolved[i], n)])
             R6 == R5 \o FlattenSeq(<<>> \o [i \in DOMAIN g.roles |-> G!RoleRow(g.roles[i], n)])
         IN  G!Replacement(g, n) = R6 \o FlattenSeq(<<>> \o [i \in DOMAIN g.regions |-> G!RegionRows(g.regions[i], n)])
BY OneFlattenSeq DEF G!Replacement, G!Each, Truncates

\* The rows of a region: itself, its languages, its ecosystems.
LEMMA RegionRowsIs ==
  ASSUME NEW r, NEW n
  PROVE  G!RegionRows(r, n) =
           G!Insert("regions", r.path, "", {G!Revision}, n)
           \o FlattenSeq(<<>> \o [i \in DOMAIN r.languages |->
                 G!Insert("region_languages", <<r.path, r.languages[i]>>, "", {<<"regions", r.path>>}, n)])
           \o FlattenSeq(<<>> \o [i \in DOMAIN r.ecosystems |->
                 G!Insert("region_ecosystems", <<r.path, r.ecosystems[i]>>, "", {<<"regions", r.path>>}, n)])
BY OneFlattenSeq DEF G!RegionRows, G!Each

-----------------------------------------------------------------------------
(* Selection *)

Picked(s, P) == FlattenSeq([i \in DOMAIN s |-> IF i \in P THEN <<s[i]>> ELSE <<>>])

\* What is picked comes from increasing positions, from each of those meant.
Picks(q, s, P, at) ==
  /\ at \in [1 .. Len(q) -> P]
  /\ \A k \in 1 .. Len(q) : q[k] = s[at[k]]
  /\ \A k, l \in 1 .. Len(q) : k < l => at[k] < at[l]
  /\ \A i \in P : \E k \in 1 .. Len(q) : at[k] = i

\* A selection keeps each selected place once, in order, and nothing else.
LEMMA PickedIs ==
  ASSUME NEW s, IsSeq(s), NEW P, P \subseteq 1 .. Len(s)
  PROVE  IsSeq(Picked(s, P)) /\ \E at : Picks(Picked(s, P), s, P, at)
<1> DEFINE n == Len(s)
           ss == [i \in DOMAIN s |-> IF i \in P THEN <<s[i]>> ELSE <<>>]
           q == FlattenSeq(ss)
<1>1. n \in Nat /\ DOMAIN s = 1 .. n
  BY SeqIs
<1>2. ss = [i \in 1 .. n |-> ss[i]] /\ \A i \in 1 .. n : ss[i] = IF i \in P THEN <<s[i]>> ELSE <<>>
  BY <1>1
<1>3. q = Picked(s, P)
  BY DEF Picked
<1> HIDE DEF ss, q
<1>4. IsSeq(ss) /\ Len(ss) = n
  BY <1>1, <1>2, FunctionIsSeq
<1>5. \A i \in 1 .. n : IsSeq(ss[i]) /\ Len(ss[i]) \in {0, 1} /\ (Len(ss[i]) = 1 => ss[i][1] = s[i])
                        /\ (Len(ss[i]) = 1 <=> i \in P)
  <2> TAKE i \in 1 .. n
  <2>1. CASE i \in P
    <3> DEFINE x == s[i]
    <3>1. ss[i] = <<x>>
      BY <1>2, <2>1
    <3> HIDE DEF x
    <3>2. IsSeq(<<x>>) /\ Len(<<x>>) = 1 /\ <<x>>[1] = x
      BY ShortSeqs
    <3>3. IsSeq(ss[i]) /\ Len(ss[i]) = 1 /\ ss[i][1] = x
      BY <3>1, <3>2
    <3> QED BY <2>1, <3>3 DEF x
  <2>2. CASE i \notin P
    <3>1. ss[i] = <<>>
      BY <1>2, <2>2
    <3>2. IsSeq(ss[i]) /\ Len(ss[i]) = 0
      BY <3>1, ShortSeqs
    <3> QED BY <2>2, <3>2
  <2> QED BY <2>1, <2>2
<1>6. IsSeq(q) /\ \E part, at : Placed(q, ss, part, at)
  BY <1>4, <1>5, FlattenIsPlaced DEF q
<1>7. PICK part, at : Placed(q, ss, part, at)
  BY <1>6
<1>8. Len(q) \in Nat
  BY <1>6, SeqIs
<1>9. /\ part \in [1 .. Len(q) -> 1 .. n]
      /\ \A p \in 1 .. Len(q) : at[p] \in 1 .. Len(ss[part[p]]) /\ q[p] = ss[part[p]][at[p]]
      /\ \A p, r \in 1 .. Len(q) :
           p < r => part[p] < part[r] \/ (part[p] = part[r] /\ at[p] < at[r])
      /\ \A i \in 1 .. n : \A k \in 1 .. Len(ss[i]) :
           \E p \in 1 .. Len(q) : part[p] = i /\ at[p] = k
  BY <1>4, <1>7 DEF Placed
<1>10. ASSUME NEW p \in 1 .. Len(q) PROVE part[p] \in P /\ at[p] = 1 /\ q[p] = s[part[p]]
  <2>1. part[p] \in 1 .. n /\ at[p] \in 1 .. Len(ss[part[p]]) /\ q[p] = ss[part[p]][at[p]]
    BY <1>9
  <2>2. Len(ss[part[p]]) = 1
    BY <1>5, <2>1
  <2>3. at[p] = 1
    BY <2>1, <2>2
  <2> QED BY <1>5, <2>1, <2>2, <2>3
<1>11. part \in [1 .. Len(q) -> P]
  BY <1>9, <1>10
<1>12. \A k, l \in 1 .. Len(q) : k < l => part[k] < part[l]
  <2> TAKE k, l \in 1 .. Len(q)
  <2> HAVE k < l
  <2>1. at[k] = 1 /\ at[l] = 1
    BY <1>10
  <2>2. part[k] < part[l] \/ (part[k] = part[l] /\ at[k] < at[l])
    BY <1>9
  <2> QED BY <2>1, <2>2
<1>13. \A i \in P : \E k \in 1 .. Len(q) : part[k] = i
  <2> TAKE i \in P
  <2>0. i \in 1 .. n
    OBVIOUS
  <2>1. Len(ss[i]) = 1
    BY <1>5, <2>0
  <2>2. 1 \in 1 .. Len(ss[i])
    BY <2>1
  <2> QED BY <1>9, <2>0, <2>2
<1>14. Picks(q, s, P, part)
  BY <1>10, <1>11, <1>12, <1>13 DEF Picks
<1> QED BY <1>3, <1>6, <1>14

\* All nodes, each once, those of files before the others.
Sorted(f, nodes, at) ==
  /\ at \in [1 .. Len(f) -> 1 .. Len(nodes)]
  /\ \A k \in 1 .. Len(f) : f[k] = nodes[at[k]]
  /\ \A k, l \in 1 .. Len(f) : k # l => at[k] # at[l]
  /\ \A i \in 1 .. Len(nodes) : \E k \in 1 .. Len(f) : at[k] = i
  /\ \A k \in 1 .. Len(f) : \A i \in 1 .. Len(nodes) :
       nodes[at[k]].kind # "File" /\ nodes[i].kind = "File" => \E l \in 1 .. k - 1 : at[l] = i

\* Sorting files first keeps every node once, and puts no file after another node.
LEMMA FilesFirstIs ==
  ASSUME NEW nodes, IsSeq(nodes)
  PROVE  IsSeq(G!FilesFirst(nodes)) /\ \E at : Sorted(G!FilesFirst(nodes), nodes, at)
<1> DEFINE P == {i \in 1 .. Len(nodes) : nodes[i].kind = "File"}
           Q == {i \in 1 .. Len(nodes) : nodes[i].kind # "File"}
           a == Picked(nodes, P)
           b == Picked(nodes, Q)
           f == a \o b
<1>1. Len(nodes) \in Nat /\ DOMAIN nodes = 1 .. Len(nodes)
  BY SeqIs
<1>2. f = G!FilesFirst(nodes)
  <2>1. [i \in DOMAIN nodes |-> IF i \in P THEN <<nodes[i]>> ELSE <<>>]
          = [i \in DOMAIN nodes |-> IF nodes[i].kind = "File" THEN <<nodes[i]>> ELSE <<>>]
    BY <1>1
  <2>2. [i \in DOMAIN nodes |-> IF i \in Q THEN <<nodes[i]>> ELSE <<>>]
          = [i \in DOMAIN nodes |-> IF nodes[i].kind # "File" THEN <<nodes[i]>> ELSE <<>>]
    BY <1>1
  <2> DEFINE A == FlattenSeq([i \in DOMAIN nodes |-> IF nodes[i].kind = "File" THEN <<nodes[i]>> ELSE <<>>])
             B == FlattenSeq([i \in DOMAIN nodes |-> IF nodes[i].kind # "File" THEN <<nodes[i]>> ELSE <<>>])
  <2>3. G!FilesFirst(nodes) = A \o B
    BY OneFlattenSeq DEF G!FilesFirst, G!Selected
  <2>4. a = A /\ b = B
    BY <2>1, <2>2 DEF Picked
  <2> HIDE DEF A, B, a, b
  <2> QED BY <2>3, <2>4
<1>3. P \subseteq 1 .. Len(nodes) /\ Q \subseteq 1 .. Len(nodes)
  OBVIOUS
<1> HIDE DEF P, Q
<1>4. IsSeq(a) /\ \E at : Picks(a, nodes, P, at)
  BY <1>3, PickedIs
<1>5. IsSeq(b) /\ \E at : Picks(b, nodes, Q, at)
  BY <1>3, PickedIs
<1> HIDE DEF a, b
<1>6. PICK x, y : Picks(a, nodes, P, x) /\ Picks(b, nodes, Q, y)
  BY <1>4, <1>5
<1>7. /\ IsSeq(f) /\ Len(a) \in Nat /\ Len(b) \in Nat /\ Len(f) = Len(a) + Len(b)
      /\ \A k \in 1 .. Len(a) : f[k] = a[k]
      /\ \A k \in 1 .. Len(b) : f[Len(a) + k] = b[k]
  BY <1>4, <1>5, BothSeqs
<1> HIDE DEF f
<1> DEFINE at == [k \in 1 .. Len(f) |-> IF k <= Len(a) THEN x[k] ELSE y[k - Len(a)]]
<1>8. /\ \A i \in P : i \in 1 .. Len(nodes) /\ i \in Nat /\ i \notin Q /\ nodes[i].kind = "File"
      /\ \A i \in Q : i \in 1 .. Len(nodes) /\ i \in Nat /\ nodes[i].kind # "File"
      /\ \A i \in 1 .. Len(nodes) : i \in P \/ i \in Q
  BY DEF P, Q
<1>9. \A k \in 1 .. Len(a) : k \in 1 .. Len(f) /\ at[k] = x[k] /\ x[k] \in P
  <2> TAKE k \in 1 .. Len(a)
  <2>1. k \in 1 .. Len(f) /\ k <= Len(a)
    BY <1>7
  <2>2. x[k] \in P
    BY <1>6 DEF Picks
  <2> QED BY <2>1, <2>2
<1>10. \A k \in 1 .. Len(f) : k \notin 1 .. Len(a) => k - Len(a) \in 1 .. Len(b) /\ at[k] = y[k - Len(a)]
                                                     /\ y[k - Len(a)] \in Q /\ Len(a) + (k - Len(a)) = k
  <2> TAKE k \in 1 .. Len(f)
  <2> HAVE k \notin 1 .. Len(a)
  <2>1. k - Len(a) \in 1 .. Len(b) /\ ~(k <= Len(a)) /\ Len(a) + (k - Len(a)) = k
    BY <1>7
  <2>2. y[k - Len(a)] \in Q
    BY <1>6, <2>1 DEF Picks
  <2> QED BY <2>1, <2>2
<1>11. \A k \in 1 .. Len(b) : Len(a) + k \in 1 .. Len(f) /\ at[Len(a) + k] = y[k]
  <2> TAKE k \in 1 .. Len(b)
  <2>1. Len(a) + k \in 1 .. Len(f) /\ Len(a) + k \notin 1 .. Len(a) /\ (Len(a) + k) - Len(a) = k
    BY <1>7
  <2> HIDE DEF at
  <2> QED BY <1>10, <2>1
<1>12. at \in [1 .. Len(f) -> 1 .. Len(nodes)]
  <2>1. \A k \in 1 .. Len(f) : at[k] \in 1 .. Len(nodes)
    BY <1>8, <1>9, <1>10
  <2> QED BY <2>1
<1> HIDE DEF at
<1>13. \A k \in 1 .. Len(f) : f[k] = nodes[at[k]]
  <2> TAKE k \in 1 .. Len(f)
  <2>1. CASE k \in 1 .. Len(a)
    <3>1. f[k] = a[k] /\ a[k] = nodes[x[k]]
      BY <1>6, <1>7, <2>1 DEF Picks
    <3> QED BY <1>9, <2>1, <3>1
  <2>2. CASE k \notin 1 .. Len(a)
    <3>1. k - Len(a) \in 1 .. Len(b) /\ at[k] = y[k - Len(a)] /\ f[k] = b[k - Len(a)]
      BY <1>7, <1>10, <2>2
    <3>2. b[k - Len(a)] = nodes[y[k - Len(a)]]
      BY <1>6, <3>1 DEF Picks
    <3> QED BY <3>1, <3>2
  <2> QED BY <2>1, <2>2
<1>14. ASSUME NEW k \in 1 .. Len(f), NEW l \in 1 .. Len(f), k < l PROVE at[k] # at[l]
  <2>1. CASE l \in 1 .. Len(a)
    <3>1. k \in 1 .. Len(a)
      BY <1>7, <1>14, <2>1
    <3>2. x[k] < x[l]
      BY <1>6, <1>14, <2>1, <3>1 DEF Picks
    <3>3. x[k] \in Nat /\ x[l] \in Nat
      BY <1>8, <1>9, <2>1, <3>1
    <3> QED BY <1>9, <2>1, <3>1, <3>2, <3>3
  <2>2. CASE l \notin 1 .. Len(a) /\ k \in 1 .. Len(a)
    BY <1>8, <1>9, <1>10, <2>2
  <2>3. CASE l \notin 1 .. Len(a) /\ k \notin 1 .. Len(a)
    <3>1. k - Len(a) \in 1 .. Len(b) /\ l - Len(a) \in 1 .. Len(b) /\ k - Len(a) < l - Len(a)
          /\ at[k] = y[k - Len(a)] /\ at[l] = y[l - Len(a)]
      BY <1>7, <1>10, <1>14, <2>3
    <3>3. y[k - Len(a)] < y[l - Len(a)]
      BY <1>6, <3>1 DEF Picks
    <3>4. y[k - Len(a)] \in Q /\ y[l - Len(a)] \in Q
      BY <1>10, <2>3
    <3>2. at[k] < at[l] /\ at[k] \in Nat /\ at[l] \in Nat
      BY <1>8, <3>1, <3>3, <3>4
    <3> QED BY <3>2
  <2> QED BY <2>1, <2>2, <2>3
<1>15. \A i \in 1 .. Len(nodes) : \E k \in 1 .. Len(f) : at[k] = i
  <2> TAKE i \in 1 .. Len(nodes)
  <2>1. CASE i \in P
    <3>1. PICK k \in 1 .. Len(a) : x[k] = i
      BY <1>6, <2>1 DEF Picks
    <3> QED BY <1>9, <3>1
  <2>2. CASE i \in Q
    <3>1. PICK k \in 1 .. Len(b) : y[k] = i
      BY <1>6, <2>2 DEF Picks
    <3> QED BY <1>11, <3>1
  <2> QED BY <1>8, <2>1, <2>2
<1>16. ASSUME NEW k \in 1 .. Len(f), NEW i \in 1 .. Len(nodes), nodes[at[k]].kind # "File", nodes[i].kind = "File"
       PROVE  \E l \in 1 .. k - 1 : at[l] = i
  <2>1. k \notin 1 .. Len(a)
    <3> SUFFICES ASSUME k \in 1 .. Len(a) PROVE FALSE
      OBVIOUS
    <3>1. at[k] = x[k] /\ x[k] \in P
      BY <1>9
    <3> QED BY <1>8, <1>16, <3>1
  <2>2. i \in P
    BY <1>8, <1>16
  <2>3. PICK l \in 1 .. Len(a) : x[l] = i
    BY <1>6, <2>2 DEF Picks
  <2>4. l \in 1 .. k - 1 /\ at[l] = i
    BY <1>7, <1>9, <2>1, <2>3
  <2> QED BY <2>4
<1>17. \A k, l \in 1 .. Len(f) : k # l => at[k] # at[l]
  <2> TAKE k, l \in 1 .. Len(f)
  <2>1. k # l => k < l \/ l < k
    BY <1>7
  <2> QED BY <1>14, <2>1
<1>18. Sorted(f, nodes, at)
  BY <1>12, <1>13, <1>15, <1>16, <1>17 DEF Sorted
<1> QED BY <1>2, <1>7, <1>18

-----------------------------------------------------------------------------
(* The sections of a replacement *)

\* Insertions into certain tables.
Sect(T, given, ts) == Sound(T, given) /\ \A x \in Named(T) : x[1] \in ts

\* A section and one that refers to what it inserted are a section.
LEMMA SectionsJoin ==
  ASSUME NEW A, NEW B, NEW given, NEW later, NEW ts, NEW us, NEW all,
         Sect(A, given, ts), Sect(B, later, us), later \subseteq given \cup Named(A),
         ts \cap us = {}, ts \subseteq all, us \subseteq all
  PROVE  Sect(A \o B, given, all) /\ Named(A \o B) = Named(A) \cup Named(B)
<1>1. Named(A) \cap Named(B) = {}
  BY DEF Sect
<1>2. Sound(A \o B, given) /\ Named(A \o B) = Named(A) \cup Named(B)
  BY <1>1, BothAreSound DEF Sect
<1> QED BY <1>2 DEF Sect

RowOf(key, kind, refs, scanned) == [key |-> key, kind |-> kind, refs |-> refs, of |-> scanned]

\* One insertion is a section.
LEMMA InsertIsSection ==
  ASSUME NEW t \in G!Tables, NEW key, NEW kind, NEW refs, NEW scanned, NEW given,
         RowStands(t, RowOf(key, kind, refs, scanned)),
         refs \subseteq given \cup {<<t, key>>}, NEW ts, t \in ts
  PROVE  Sect(G!Insert(t, key, kind, refs, scanned), given, ts)
         /\ Named(G!Insert(t, key, kind, refs, scanned)) = {<<t, key>>}
<1>1. Sound(G!Insert(t, key, kind, refs, scanned), given)
      /\ Named(G!Insert(t, key, kind, refs, scanned)) = {<<t, key>>}
  BY OneIsSound DEF RowOf
<1>2. <<t, key>>[1] = t
  OBVIOUS
<1> QED BY <1>1, <1>2 DEF Sect

\* A function on the places of a sequence is a sequence of the same length.
LEMMA MapIs ==
  ASSUME NEW s, IsSeq(s), NEW F, F = [i \in DOMAIN s |-> F[i]]
  PROVE  <<>> \o F = F /\ IsSeq(F) /\ Len(F) = Len(s)
<1>1. Len(s) \in Nat /\ DOMAIN s = 1 .. Len(s)
  BY SeqIs
<1>2. F = [i \in 1 .. Len(s) |-> F[i]]
  BY <1>1
<1>3. IsSeq(F) /\ Len(F) = Len(s)
  BY <1>1, <1>2, FunctionIsSeq
<1>4. <<>> \o F = F
  BY <1>3, ConcatEmptySeq DEF IsSeq
<1> QED BY <1>3, <1>4

\* At each place one row of a table, or none.
OneTable(F, given, t, key) ==
  /\ IsSeq(F)
  /\ \A i \in 1 .. Len(F) : F[i] = <<>> \/ (Sound(F[i], given) /\ Named(F[i]) = {<<t, key[i]>>})
  /\ \A i, j \in 1 .. Len(F) : i # j => key[i] # key[j]

\* The rows that were inserted are of those keys.
Holds(T, t, key, n) == \A x \in Named(T) : \E i \in 1 .. n : x = <<t, key[i]>>

\* One section for each member, with keys that differ, is a section.
LEMMA RowsAreSection ==
  ASSUME NEW F, NEW given, NEW t, NEW key, NEW ts, t \in ts, OneTable(F, given, t, key)
  PROVE  Sect(FlattenSeq(F), given, ts) /\ Holds(FlattenSeq(F), t, key, Len(F))
<1>0. /\ IsSeq(F)
      /\ \A i \in 1 .. Len(F) : F[i] = <<>> \/ (Sound(F[i], given) /\ Named(F[i]) = {<<t, key[i]>>})
      /\ \A i, j \in 1 .. Len(F) : i # j => key[i] # key[j]
  BY DEF OneTable
<1> DEFINE later == [i \in 1 .. Len(F) |-> given]
<1>1. \A i \in 1 .. Len(F) : Sound(F[i], given) /\ Named(F[i]) \subseteq {<<t, key[i]>>}
  BY <1>0, NothingIsSound
<1>2. \A i \in 1 .. Len(F) :
        Sound(F[i], later[i]) /\ later[i] \subseteq given \cup UNION {Named(F[j]) : j \in 1 .. i - 1}
  BY <1>1
<1> HIDE DEF later
<1>3. \A i, j \in 1 .. Len(F) : i # j => Named(F[i]) \cap Named(F[j]) = {}
  BY <1>0, <1>1
<1>4. /\ Sound(FlattenSeq(F), given)
      /\ \A x : x \in Named(FlattenSeq(F)) <=> \E i \in 1 .. Len(F) : x \in Named(F[i])
  BY <1>0, <1>2, <1>3, GroupsAreSound
<1>5. \A x \in Named(FlattenSeq(F)) : \E i \in 1 .. Len(F) : x = <<t, key[i]>>
  BY <1>1, <1>4
<1>6. \A x \in Named(FlattenSeq(F)) : x[1] = t
  BY <1>5
<1> QED BY <1>4, <1>5, <1>6 DEF Sect, Holds

-----------------------------------------------------------------------------
(* The rows of a graph *)

NodeIds(g) == {g.nodes[i].id : i \in 1 .. Len(g.nodes)}
FileIds(g) == {g.nodes[i].id : i \in {j \in 1 .. Len(g.nodes) : g.nodes[j].kind = "File"}}

Apart(s) == \A i, j \in 1 .. Len(s) : i # j => s[i] # s[j]
ApartById(s) == \A i, j \in 1 .. Len(s) : i # j => s[i].id # s[j].id

\* What the schema asks of a graph.
Storable(g) ==
  /\ IsSeq(g.nodes) /\ ApartById(g.nodes)
  /\ IsSeq(g.edges) /\ ApartById(g.edges)
  /\ IsSeq(g.unresolved) /\ ApartById(g.unresolved)
  /\ IsSeq(g.roles) /\ \A i, j \in 1 .. Len(g.roles) :
       i # j => <<g.roles[i].node, g.roles[i].role>> # <<g.roles[j].node, g.roles[j].role>>
  /\ IsSeq(g.regions) /\ \A i, j \in 1 .. Len(g.regions) : i # j => g.regions[i].path # g.regions[j].path
  /\ \A i \in 1 .. Len(g.nodes) :
       /\ g.nodes[i].places \in Nat
       /\ {g.nodes[i].file, g.nodes[i].home} \ {None} \subseteq FileIds(g)
       /\ g.nodes[i].kind = "File" => {g.nodes[i].file, g.nodes[i].home} \ {None} \subseteq {g.nodes[i].id}
  /\ \A i \in 1 .. Len(g.edges) :
       {g.edges[i].source, g.edges[i].target, g.edges[i].home} \ {None} \subseteq NodeIds(g)
  /\ \A i \in 1 .. Len(g.unresolved) :
       {g.unresolved[i].source, g.unresolved[i].home} \ {None} \subseteq NodeIds(g)
  /\ \A i \in 1 .. Len(g.roles) : g.roles[i].node \in NodeIds(g)
  /\ \A i \in 1 .. Len(g.regions) :
       /\ IsSeq(g.regions[i].languages) /\ Apart(g.regions[i].languages)
       /\ IsSeq(g.regions[i].ecosystems) /\ Apart(g.regions[i].ecosystems)

\* What all rows but those of nodes may refer to.
Base(g) == {<<"revisions", 1>>} \cup {<<"nodes", id>> : id \in NodeIds(g)}

\* Which tables refer to revisions, to nodes and to regions.
LEMMA TablesAre ==
  /\ "edges" \in G!Tables /\ "unresolved_references" \in G!Tables /\ "region_languages" \in G!Tables
  /\ "region_ecosystems" \in G!Tables /\ "regions" \in G!Tables /\ "node_roles" \in G!Tables
  /\ "node_locations" \in G!Tables /\ "file_revisions" \in G!Tables /\ "nodes" \in G!Tables
  /\ "revisions" \in G!Tables /\ "repository" \in G!Tables
BY DEF G!Tables

\* References to the revision and to nodes.
LEMMA NodesAreReferredTo ==
  ASSUME NEW t \in OfRevisions \cap OfNodes, NEW key, NEW kind, NEW scanned, NEW ids,
         t = "nodes" /\ kind = "File" => ids \ {None} \subseteq {key}
  PROVE  RowStands(t, RowOf(key, kind, {G!Revision} \cup G!ToNodes(ids), scanned))
<1> DEFINE r == [key |-> key, kind |-> kind, refs |-> {G!Revision} \cup G!ToNodes(ids), of |-> scanned]
<1>1. r.key = key /\ r.kind = kind /\ r.refs = {G!Revision} \cup G!ToNodes(ids)
  OBVIOUS
<1> HIDE DEF r
<1>2. \A f \in r.refs : (f[1] = "revisions") \/ (f[1] = "nodes" /\ f[2] \in ids \ {None})
  BY <1>1 DEF G!Revision, G!ToNodes
<1>3. RowStands(t, r)
  BY <1>1, <1>2 DEF RowStands
<1> QED BY <1>3 DEF r, RowOf

\* References to nodes only.
LEMMA NodesAloneAreReferredTo ==
  ASSUME NEW t \in OfNodes \ {"nodes"}, NEW key, NEW kind, NEW scanned, NEW ids
  PROVE  RowStands(t, RowOf(key, kind, G!ToNodes(ids), scanned))
<1> DEFINE r == [key |-> key, kind |-> kind, refs |-> G!ToNodes(ids), of |-> scanned]
<1>1. r.key = key /\ r.kind = kind /\ r.refs = G!ToNodes(ids)
  OBVIOUS
<1> HIDE DEF r
<1>2. \A f \in r.refs : f[1] = "nodes"
  BY <1>1 DEF G!ToNodes
<1>3. RowStands(t, r)
  BY <1>1, <1>2 DEF RowStands
<1> QED BY <1>3 DEF r, RowOf

NodeTables == {"nodes", "node_locations"}

\* The rows of one node.
LEMMA NodeRowsAre ==
  ASSUME NEW m, NEW n, NEW given, m.places \in Nat, <<"revisions", 1>> \in given,
         G!ToNodes({m.file, m.home}) \subseteq given \cup {<<"nodes", m.id>>},
         m.kind = "File" => {m.file, m.home} \ {None} \subseteq {m.id}
  PROVE  /\ Sect(G!NodeRows(m, n), given, NodeTables)
         /\ <<"nodes", m.id>> \in Named(G!NodeRows(m, n))
         /\ \A x \in Named(G!NodeRows(m, n)) :
              (x = <<"nodes", m.id>>) \/ (\E i \in Nat : x = <<"node_locations", <<m.id, i>>>>)
<1> DEFINE a == G!Insert("nodes", m.id, m.kind, {G!Revision} \cup G!ToNodes({m.file, m.home}), n)
           F == [i \in 1 .. m.places |-> G!Insert("node_locations", <<m.id, i>>, "", G!ToNodes({m.id}), n)]
           key == [i \in 1 .. m.places |-> <<m.id, i>>]
           later == {<<"nodes", m.id>>}
<1>1. G!NodeRows(m, n) = a \o FlattenSeq(F)
  BY OneFlattenSeq DEF G!NodeRows
<1> DEFINE ts == {"nodes"}
           us == {"node_locations"}
<1> HIDE DEF F, later
<1>2. Sect(a, given, ts) /\ Named(a) = {<<"nodes", m.id>>}
  <2> DEFINE t == "nodes"
             ids == {m.file, m.home}
             kind == m.kind
             refs == {G!Revision} \cup G!ToNodes(ids)
             own == m.id
  <2>0. t \in OfRevisions \cap OfNodes /\ t \in G!Tables
    BY TablesAre DEF OfRevisions, OfNodes
  <2>1. (t = "nodes" /\ kind = "File") => ids \ {None} \subseteq {own}
    OBVIOUS
  <2>2. refs \subseteq given \cup {<<t, own>>}
    BY DEF G!Revision
  <2>3. a = G!Insert(t, own, kind, refs, n)
    OBVIOUS
  <2>6. t \in ts
    OBVIOUS
  <2> HIDE DEF t, kind, ids, own, a, ts
  <2>4. RowStands(t, RowOf(own, kind, refs, n))
    BY <2>0, <2>1, NodesAreReferredTo
  <2> HIDE DEF refs
  <2>7. /\ Sect(G!Insert(t, own, kind, refs, n), given, ts)
        /\ Named(G!Insert(t, own, kind, refs, n)) = {<<t, own>>}
    BY ONLY <2>0, <2>2, <2>4, <2>6, InsertIsSection, Zenon
  <2>5. Sect(a, given, ts) /\ Named(a) = {<<t, own>>}
    BY ONLY <2>3, <2>7, Zenon
  <2> QED BY <2>5 DEF t, own
<1>3. IsSeq(F) /\ Len(F) = m.places
  BY FunctionIsSeq DEF F
<1>4. ASSUME NEW i \in 1 .. m.places
      PROVE  Sound(F[i], later) /\ Named(F[i]) = {<<"node_locations", key[i]>>}
  <2> DEFINE t == "node_locations"
             ids == {m.id}
             refs == G!ToNodes(ids)
             kind == ""
             k == <<m.id, i>>
  <2>0. t \in OfNodes \ {"nodes"} /\ t \in G!Tables
    BY TablesAre DEF OfNodes
  <2>1. refs \subseteq later \cup {<<t, k>>}
    BY DEF G!ToNodes, later
  <2>2. F[i] = G!Insert(t, k, kind, refs, n) /\ key[i] = k
    BY DEF F
  <2>5. t \in us
    OBVIOUS
  <2> HIDE DEF t, k, kind, ids, key, us
  <2>3. RowStands(t, RowOf(k, kind, refs, n))
    BY <2>0, NodesAloneAreReferredTo
  <2> HIDE DEF refs
  <2>6. /\ Sect(G!Insert(t, k, kind, refs, n), later, us)
        /\ Named(G!Insert(t, k, kind, refs, n)) = {<<t, k>>}
    BY ONLY <2>0, <2>1, <2>3, <2>5, InsertIsSection, Zenon
  <2>4. Sect(F[i], later, us) /\ Named(F[i]) = {<<t, k>>}
    BY ONLY <2>2, <2>6, Zenon
  <2> QED BY <2>2, <2>4 DEF t, Sect
<1>5. \A i, j \in 1 .. m.places : i # j => key[i] # key[j]
  OBVIOUS
<1>6. \A i \in 1 .. m.places : key[i] = <<m.id, i>> /\ i \in Nat
  OBVIOUS
<1> DEFINE b == FlattenSeq(F)
<1>7. Sect(b, later, us) /\ \A x \in Named(b) : \E i \in 1 .. m.places : x = <<"node_locations", key[i]>>
  <2> DEFINE t == "node_locations"
  <2> HIDE DEF key
  <2>1. \A i \in 1 .. Len(F) : F[i] = <<>> \/ (Sound(F[i], later) /\ Named(F[i]) = {<<t, key[i]>>})
    BY <1>3, <1>4
  <2>2. \A i, j \in 1 .. Len(F) : i # j => key[i] # key[j]
    BY <1>3, <1>5
  <2>4. t \in us
    OBVIOUS
  <2>5. IsSeq(F)
    BY <1>3
  <2> HIDE DEF us, t, b
  <2>3. Sect(FlattenSeq(F), later, us) /\ Holds(FlattenSeq(F), t, key, Len(F))
    <3>1. OneTable(F, later, t, key)
      BY <2>1, <2>2, <2>5 DEF OneTable
    <3> QED BY <2>4, <3>1, RowsAreSection
  <2> QED BY <1>3, <2>3 DEF t, b, Holds
<1>8. later \subseteq given \cup Named(a)
  BY <1>2 DEF later
<1>9. ts \cap us = {} /\ ts \subseteq NodeTables /\ us \subseteq NodeTables
  BY DEF NodeTables
<1> HIDE DEF key, a, b, ts, us
<1>10. Sect(a \o b, given, NodeTables) /\ Named(a \o b) = Named(a) \cup Named(b)
  BY <1>2, <1>7, <1>8, <1>9, SectionsJoin
<1>12. G!NodeRows(m, n) = a \o b
  BY <1>1 DEF b, F
<1> QED BY <1>2, <1>6, <1>7, <1>10, <1>12

\* The section of the nodes, those of files before those that refer to them.
LEMMA NodesAreSection ==
  ASSUME NEW g, NEW n, Storable(g), NEW given, <<"revisions", 1>> \in given
  PROVE  LET files == G!FilesFirst(g.nodes)
             T == FlattenSeq(<<>> \o [i \in DOMAIN files |-> G!NodeRows(files[i], n)])
         IN  /\ Sect(T, given, NodeTables)
             /\ \A id \in NodeIds(g) : <<"nodes", id>> \in Named(T)
<1> DEFINE nodes == g.nodes
           files == G!FilesFirst(g.nodes)
           F == [i \in DOMAIN files |-> G!NodeRows(files[i], n)]
           later == [i \in 1 .. Len(files) |-> given \cup UNION {Named(F[j]) : j \in 1 .. i - 1}]
<1>1. IsSeq(nodes) /\ ApartById(nodes)
  BY DEF Storable
<1>2. IsSeq(files) /\ \E at : Sorted(files, nodes, at)
  BY <1>1, FilesFirstIs
<1>3. PICK at : Sorted(files, nodes, at)
  BY <1>2
<1>4. Len(files) \in Nat /\ DOMAIN files = 1 .. Len(files) /\ Len(nodes) \in Nat
  BY <1>1, <1>2, SeqIs
<1>5. \A i \in 1 .. Len(files) : F[i] = G!NodeRows(files[i], n)
  BY <1>4
<1>6. F = [i \in DOMAIN files |-> F[i]]
  OBVIOUS
<1> HIDE DEF F
<1>7. <<>> \o F = F /\ IsSeq(F) /\ Len(F) = Len(files)
  BY <1>2, <1>6, MapIs
<1>8. \A i \in 1 .. Len(files) : later[i] = given \cup UNION {Named(F[j]) : j \in 1 .. i - 1}
  OBVIOUS
<1> HIDE DEF later, files, nodes
<1>9. \A i \in 1 .. Len(files) : at[i] \in 1 .. Len(nodes) /\ files[i] = nodes[at[i]]
  BY <1>3 DEF Sorted
<1>10. \A i, j \in 1 .. Len(files) : i # j => files[i].id # files[j].id
  BY <1>1, <1>3, <1>9 DEF Sorted, ApartById
<1>11. \A k \in 1 .. Len(nodes) :
         /\ nodes[k].places \in Nat
         /\ {nodes[k].file, nodes[k].home} \ {None} \subseteq FileIds(g)
         /\ nodes[k].kind = "File" => {nodes[k].file, nodes[k].home} \ {None} \subseteq {nodes[k].id}
  BY DEF Storable, nodes
<1>12. ASSUME NEW i \in 1 .. Len(files)
       PROVE  /\ Sect(F[i], later[i], NodeTables)
              /\ <<"nodes", files[i].id>> \in Named(F[i])
              /\ \A x \in Named(F[i]) : (x = <<"nodes", files[i].id>>)
                                        \/ (\E k \in Nat : x = <<"node_locations", <<files[i].id, k>>>>)
  <2> DEFINE m == files[i]
  <2> HIDE DEF m
  <2>1. m = nodes[at[i]] /\ at[i] \in 1 .. Len(nodes) /\ m = files[i]
    BY <1>9 DEF m
  <2>2. m.places \in Nat /\ (m.kind = "File" => {m.file, m.home} \ {None} \subseteq {m.id})
        /\ {m.file, m.home} \ {None} \subseteq FileIds(g)
    BY <1>11, <2>1
  <2>3. <<"revisions", 1>> \in later[i]
    BY <1>8
  <2>4. ASSUME NEW j \in 1 .. Len(files) PROVE <<"nodes", files[j].id>> \in Named(F[j])
    <3> DEFINE p == files[j]
               all == {<<"revisions", 1>>} \cup G!ToNodes({p.file, p.home})
    <3>1. at[j] \in 1 .. Len(nodes) /\ p = nodes[at[j]]
      BY <1>9
    <3> HIDE DEF p
    <3>2. p.places \in Nat /\ (p.kind = "File" => {p.file, p.home} \ {None} \subseteq {p.id})
      BY <1>11, <3>1
    <3>4. <<"revisions", 1>> \in all /\ G!ToNodes({p.file, p.home}) \subseteq all \cup {<<"nodes", p.id>>}
      OBVIOUS
    <3> HIDE DEF all
    <3>3. <<"nodes", p.id>> \in Named(G!NodeRows(p, n))
      BY <3>2, <3>4, NodeRowsAre
    <3> QED BY <1>5, <3>3 DEF p
  <2>5. G!ToNodes({m.file, m.home}) \subseteq later[i] \cup {<<"nodes", m.id>>}
    <3>1. CASE m.kind = "File"
      BY <2>2, <3>1 DEF G!ToNodes
    <3>2. CASE m.kind # "File"
      <4> SUFFICES ASSUME NEW x \in G!ToNodes({m.file, m.home}) PROVE x \in later[i]
        OBVIOUS
      <4>1. PICK id \in {m.file, m.home} \ {None} : x = <<"nodes", id>>
        BY DEF G!ToNodes
      <4>2. id \in FileIds(g)
        BY <2>2, <4>1
      <4>3. PICK k \in 1 .. Len(nodes) : nodes[k].kind = "File" /\ nodes[k].id = id
        BY <4>2 DEF FileIds, nodes
      <4>8. nodes[at[i]].kind # "File"
        BY <2>1, <3>2
      <4>4. PICK l \in 1 .. i - 1 : at[l] = k
        BY <1>3, <4>3, <4>8 DEF Sorted
      <4>5. l \in 1 .. Len(files)
        BY <1>4
      <4>6. files[l].id = id
        BY <1>9, <4>3, <4>4, <4>5
      <4>7. x \in Named(F[l])
        BY <2>4, <4>1, <4>5, <4>6
      <4> QED BY <1>8, <4>4, <4>7
    <3> QED BY <3>1, <3>2
  <2>6. /\ Sect(G!NodeRows(m, n), later[i], NodeTables)
        /\ <<"nodes", m.id>> \in Named(G!NodeRows(m, n))
        /\ \A x \in Named(G!NodeRows(m, n)) :
             (x = <<"nodes", m.id>>) \/ (\E k \in Nat : x = <<"node_locations", <<m.id, k>>>>)
    BY <2>2, <2>3, <2>5, NodeRowsAre
  <2> QED BY <1>5, <2>1, <2>6
<1>13. \A i, j \in 1 .. Len(F) : i # j => Named(F[i]) \cap Named(F[j]) = {}
  <2> SUFFICES ASSUME NEW i \in 1 .. Len(files), NEW j \in 1 .. Len(files), i # j,
                      NEW x \in Named(F[i]), x \in Named(F[j])
               PROVE  FALSE
    BY <1>7
  <2>1. files[i].id # files[j].id
    BY <1>10
  <2>2. (x = <<"nodes", files[i].id>>) \/ (\E k \in Nat : x = <<"node_locations", <<files[i].id, k>>>>)
    BY <1>12
  <2>3. (x = <<"nodes", files[j].id>>) \/ (\E k \in Nat : x = <<"node_locations", <<files[j].id, k>>>>)
    BY <1>12
  <2> QED BY <2>1, <2>2, <2>3
<1>14. \A i \in 1 .. Len(F) :
         Sound(F[i], later[i]) /\ later[i] \subseteq given \cup UNION {Named(F[j]) : j \in 1 .. i - 1}
  BY <1>7, <1>8, <1>12 DEF Sect
<1>15. /\ Sound(FlattenSeq(F), given)
       /\ \A x : x \in Named(FlattenSeq(F)) <=> \E i \in 1 .. Len(F) : x \in Named(F[i])
  BY <1>7, <1>13, <1>14, GroupsAreSound
<1>16. \A x \in Named(FlattenSeq(F)) : x[1] \in NodeTables
  BY <1>7, <1>12, <1>15 DEF Sect
<1>17. \A id \in NodeIds(g) : <<"nodes", id>> \in Named(FlattenSeq(F))
  <2> TAKE id \in NodeIds(g)
  <2>1. PICK k \in 1 .. Len(nodes) : nodes[k].id = id
    BY DEF NodeIds, nodes
  <2>2. PICK i \in 1 .. Len(files) : at[i] = k
    BY <1>3 DEF Sorted
  <2>3. files[i].id = id
    BY <1>9, <2>1, <2>2
  <2> QED BY <1>7, <1>12, <1>15, <2>2, <2>3
<1>18. Sect(FlattenSeq(<<>> \o F), given, NodeTables)
       /\ \A id \in NodeIds(g) : <<"nodes", id>> \in Named(FlattenSeq(<<>> \o F))
  BY <1>7, <1>15, <1>16, <1>17 DEF Sect
<1> QED BY <1>18 DEF F, files

\* One row for each member of a sequence, or none.
PlainRows(F, s, t, key, refs, n, given) ==
  /\ IsSeq(s) /\ F = [i \in DOMAIN s |-> F[i]] /\ t \in G!Tables
  /\ \A i \in 1 .. Len(s) : (F[i] = <<>>) \/ (F[i] = G!Insert(t, key[i], "", refs[i], n))
  /\ \A i \in 1 .. Len(s) : RowStands(t, RowOf(key[i], "", refs[i], n)) /\ refs[i] \subseteq given
  /\ \A i, j \in 1 .. Len(s) : i # j => key[i] # key[j]

\* One row for each member, with keys that differ, is a section.
LEMMA PlainRowsAreSection ==
  ASSUME NEW F, NEW s, NEW t, NEW key, NEW refs, NEW n, NEW given, PlainRows(F, s, t, key, refs, n, given),
         NEW ts, t \in ts
  PROVE  Sect(FlattenSeq(<<>> \o F), given, ts) /\ Holds(FlattenSeq(<<>> \o F), t, key, Len(s))
<1>0. /\ IsSeq(s) /\ F = [i \in DOMAIN s |-> F[i]] /\ t \in G!Tables
      /\ \A i \in 1 .. Len(s) : (F[i] = <<>>) \/ (F[i] = G!Insert(t, key[i], "", refs[i], n))
      /\ \A i \in 1 .. Len(s) : RowStands(t, RowOf(key[i], "", refs[i], n)) /\ refs[i] \subseteq given
      /\ \A i, j \in 1 .. Len(s) : i # j => key[i] # key[j]
  BY DEF PlainRows
<1>1. <<>> \o F = F /\ IsSeq(F) /\ Len(F) = Len(s)
  BY <1>0, MapIs
<1>2. ASSUME NEW i \in 1 .. Len(s)
      PROVE  F[i] = <<>> \/ (Sound(F[i], given) /\ Named(F[i]) = {<<t, key[i]>>})
  <2> DEFINE k == key[i]
             rs == refs[i]
             kind == ""
  <2>1. (F[i] = <<>>) \/ (F[i] = G!Insert(t, k, kind, rs, n))
    BY <1>0
  <2>2. RowStands(t, RowOf(k, kind, rs, n)) /\ rs \subseteq given \cup {<<t, k>>}
    BY <1>0
  <2> HIDE DEF k, rs, kind
  <2>3. Sect(G!Insert(t, k, kind, rs, n), given, ts) /\ Named(G!Insert(t, k, kind, rs, n)) = {<<t, k>>}
    BY <1>0, <2>2, InsertIsSection
  <2> QED BY <2>1, <2>3 DEF Sect, k
<1>3. OneTable(F, given, t, key)
  BY <1>0, <1>1, <1>2 DEF OneTable
<1>4. Sect(FlattenSeq(F), given, ts) /\ Holds(FlattenSeq(F), t, key, Len(F))
  BY <1>3, RowsAreSection
<1> QED BY <1>1, <1>4

\* The sections of one table whose rows refer to the revision and to nodes.
LEMMA PlainSections ==
  ASSUME NEW g, NEW n, Storable(g)
  PROVE  /\ Sect(FlattenSeq(<<>> \o [i \in DOMAIN g.nodes |-> G!FileRow(g.nodes[i], n)]), Base(g), {"file_revisions"})
         /\ Sect(FlattenSeq(<<>> \o [i \in DOMAIN g.edges |-> G!EdgeRow(g.edges[i], n)]), Base(g), {"edges"})
         /\ Sect(FlattenSeq(<<>> \o [i \in DOMAIN g.unresolved |-> G!ReferenceRow(g.unresolved[i], n)]), Base(g),
                 {"unresolved_references"})
         /\ Sect(FlattenSeq(<<>> \o [i \in DOMAIN g.roles |-> G!RoleRow(g.roles[i], n)]), Base(g), {"node_roles"})
<1>2. ASSUME NEW ids, ids \{None} \subseteq NodeIds(g)
      PROVE  G!ToNodes(ids) \subseteq Base(g) /\ {G!Revision} \cup G!ToNodes(ids) \subseteq Base(g)
  BY <1>2 DEF G!ToNodes, G!Revision, Base
<1>3. Sect(FlattenSeq(<<>> \o [i \in DOMAIN g.nodes |-> G!FileRow(g.nodes[i], n)]), Base(g), {"file_revisions"})
  <2> DEFINE s == g.nodes
             F == [i \in DOMAIN s |-> G!FileRow(s[i], n)]
             t == "file_revisions"
             ts == {"file_revisions"}
             key == [i \in 1 .. Len(s) |-> s[i].id]
             refs == [i \in 1 .. Len(s) |-> {G!Revision} \cup G!ToNodes({s[i].id})]
  <2>1. IsSeq(s) /\ F = [i \in DOMAIN s |-> F[i]] /\ t \in ts /\ t \in G!Tables
    BY TablesAre DEF Storable
  <2>2. DOMAIN s = 1 .. Len(s)
    BY <2>1, SeqIs
  <2>3. \A i \in 1 .. Len(s) : (F[i] = <<>>) \/ (F[i] = G!Insert(t, key[i], "", refs[i], n))
    BY <2>2 DEF G!FileRow
  <2>4. \A i, j \in 1 .. Len(s) : i # j => key[i] # key[j]
    BY DEF Storable, ApartById
  <2>5. t \in OfRevisions \cap OfNodes /\ t # "nodes"
    BY DEF OfRevisions, OfNodes
  <2>6. ASSUME NEW i \in 1 .. Len(s) PROVE RowStands(t, RowOf(key[i], "", refs[i], n)) /\ refs[i] \subseteq Base(g)
    <3> DEFINE ids == {s[i].id}
               k == s[i].id
               kind == ""
    <3>1. refs[i] = {G!Revision} \cup G!ToNodes(ids) /\ key[i] = k
      OBVIOUS
    <3>2. ids \ {None} \subseteq NodeIds(g)
      BY DEF NodeIds
    <3> HIDE DEF ids, k, kind, t, refs, key
    <3>3. refs[i] \subseteq Base(g)
      BY <1>2, <3>1, <3>2
    <3>4. RowStands(t, RowOf(k, kind, {G!Revision} \cup G!ToNodes(ids), n))
      BY <2>5, NodesAreReferredTo
    <3>5. RowStands(t, RowOf(key[i], kind, refs[i], n))
      BY <3>1, <3>4
    <3> QED BY <3>3, <3>5 DEF kind
  <2> HIDE DEF F, t, ts, key, refs, s
  <2>8. PlainRows(F, s, t, key, refs, n, Base(g))
    BY <2>1, <2>3, <2>4, <2>6 DEF PlainRows
  <2>7. Sect(FlattenSeq(<<>> \o F), Base(g), ts)
    BY <2>1, <2>8, PlainRowsAreSection
  <2> QED BY <2>7 DEF F, ts, s
<1>4. Sect(FlattenSeq(<<>> \o [i \in DOMAIN g.edges |-> G!EdgeRow(g.edges[i], n)]), Base(g), {"edges"})
  <2> DEFINE s == g.edges
             F == [i \in DOMAIN s |-> G!EdgeRow(s[i], n)]
             t == "edges"
             ts == {"edges"}
             key == [i \in 1 .. Len(s) |-> s[i].id]
             refs == [i \in 1 .. Len(s) |-> {G!Revision} \cup G!ToNodes({s[i].source, s[i].target, s[i].home})]
  <2>1. IsSeq(s) /\ F = [i \in DOMAIN s |-> F[i]] /\ t \in ts /\ t \in G!Tables
    BY TablesAre DEF Storable
  <2>2. DOMAIN s = 1 .. Len(s)
    BY <2>1, SeqIs
  <2>3. \A i \in 1 .. Len(s) : (F[i] = <<>>) \/ (F[i] = G!Insert(t, key[i], "", refs[i], n))
    BY <2>2 DEF G!EdgeRow
  <2>4. \A i, j \in 1 .. Len(s) : i # j => key[i] # key[j]
    BY DEF Storable, ApartById
  <2>5. t \in OfRevisions \cap OfNodes /\ t # "nodes"
    BY DEF OfRevisions, OfNodes
  <2>6. ASSUME NEW i \in 1 .. Len(s) PROVE RowStands(t, RowOf(key[i], "", refs[i], n)) /\ refs[i] \subseteq Base(g)
    <3> DEFINE ids == {s[i].source, s[i].target, s[i].home}
               k == s[i].id
               kind == ""
    <3>1. refs[i] = {G!Revision} \cup G!ToNodes(ids) /\ key[i] = k
      OBVIOUS
    <3>2. ids \ {None} \subseteq NodeIds(g)
      BY DEF Storable
    <3> HIDE DEF ids, k, kind, t, refs, key
    <3>3. refs[i] \subseteq Base(g)
      BY <1>2, <3>1, <3>2
    <3>4. RowStands(t, RowOf(k, kind, {G!Revision} \cup G!ToNodes(ids), n))
      BY <2>5, NodesAreReferredTo
    <3>5. RowStands(t, RowOf(key[i], kind, refs[i], n))
      BY <3>1, <3>4
    <3> QED BY <3>3, <3>5 DEF kind
  <2> HIDE DEF F, t, ts, key, refs, s
  <2>8. PlainRows(F, s, t, key, refs, n, Base(g))
    BY <2>1, <2>3, <2>4, <2>6 DEF PlainRows
  <2>7. Sect(FlattenSeq(<<>> \o F), Base(g), ts)
    BY <2>1, <2>8, PlainRowsAreSection
  <2> QED BY <2>7 DEF F, ts, s
<1>5. Sect(FlattenSeq(<<>> \o [i \in DOMAIN g.unresolved |-> G!ReferenceRow(g.unresolved[i], n)]), Base(g),
           {"unresolved_references"})
  <2> DEFINE s == g.unresolved
             F == [i \in DOMAIN s |-> G!ReferenceRow(s[i], n)]
             t == "unresolved_references"
             ts == {"unresolved_references"}
             key == [i \in 1 .. Len(s) |-> s[i].id]
             refs == [i \in 1 .. Len(s) |-> {G!Revision} \cup G!ToNodes({s[i].source, s[i].home})]
  <2>1. IsSeq(s) /\ F = [i \in DOMAIN s |-> F[i]] /\ t \in ts /\ t \in G!Tables
    BY TablesAre DEF Storable
  <2>2. DOMAIN s = 1 .. Len(s)
    BY <2>1, SeqIs
  <2>3. \A i \in 1 .. Len(s) : (F[i] = <<>>) \/ (F[i] = G!Insert(t, key[i], "", refs[i], n))
    BY <2>2 DEF G!ReferenceRow
  <2>4. \A i, j \in 1 .. Len(s) : i # j => key[i] # key[j]
    BY DEF Storable, ApartById
  <2>5. t \in OfRevisions \cap OfNodes /\ t # "nodes"
    BY DEF OfRevisions, OfNodes
  <2>6. ASSUME NEW i \in 1 .. Len(s) PROVE RowStands(t, RowOf(key[i], "", refs[i], n)) /\ refs[i] \subseteq Base(g)
    <3> DEFINE ids == {s[i].source, s[i].home}
               k == s[i].id
               kind == ""
    <3>1. refs[i] = {G!Revision} \cup G!ToNodes(ids) /\ key[i] = k
      OBVIOUS
    <3>2. ids \ {None} \subseteq NodeIds(g)
      BY DEF Storable
    <3> HIDE DEF ids, k, kind, t, refs, key
    <3>3. refs[i] \subseteq Base(g)
      BY <1>2, <3>1, <3>2
    <3>4. RowStands(t, RowOf(k, kind, {G!Revision} \cup G!ToNodes(ids), n))
      BY <2>5, NodesAreReferredTo
    <3>5. RowStands(t, RowOf(key[i], kind, refs[i], n))
      BY <3>1, <3>4
    <3> QED BY <3>3, <3>5 DEF kind
  <2> HIDE DEF F, t, ts, key, refs, s
  <2>8. PlainRows(F, s, t, key, refs, n, Base(g))
    BY <2>1, <2>3, <2>4, <2>6 DEF PlainRows
  <2>7. Sect(FlattenSeq(<<>> \o F), Base(g), ts)
    BY <2>1, <2>8, PlainRowsAreSection
  <2> QED BY <2>7 DEF F, ts, s
<1>6. Sect(FlattenSeq(<<>> \o [i \in DOMAIN g.roles |-> G!RoleRow(g.roles[i], n)]), Base(g), {"node_roles"})
  <2> DEFINE s == g.roles
             F == [i \in DOMAIN s |-> G!RoleRow(s[i], n)]
             t == "node_roles"
             ts == {"node_roles"}
             key == [i \in 1 .. Len(s) |-> <<s[i].node, s[i].role>>]
             refs == [i \in 1 .. Len(s) |-> G!ToNodes({s[i].node})]
  <2>1. IsSeq(s) /\ F = [i \in DOMAIN s |-> F[i]] /\ t \in ts /\ t \in G!Tables
    BY TablesAre DEF Storable
  <2>2. DOMAIN s = 1 .. Len(s)
    BY <2>1, SeqIs
  <2>3. \A i \in 1 .. Len(s) : (F[i] = <<>>) \/ (F[i] = G!Insert(t, key[i], "", refs[i], n))
    BY <2>2 DEF G!RoleRow
  <2>4. \A i, j \in 1 .. Len(s) : i # j => key[i] # key[j]
    BY DEF Storable
  <2>5. t \in OfNodes \ {"nodes"}
    BY DEF OfNodes
  <2>6. ASSUME NEW i \in 1 .. Len(s) PROVE RowStands(t, RowOf(key[i], "", refs[i], n)) /\ refs[i] \subseteq Base(g)
    <3> DEFINE ids == {s[i].node}
               k == key[i]
               kind == ""
    <3>1. refs[i] = G!ToNodes(ids)
      OBVIOUS
    <3>2. ids \ {None} \subseteq NodeIds(g)
      BY DEF Storable
    <3> HIDE DEF ids, k, kind, t, refs, key
    <3>3. refs[i] \subseteq Base(g)
      BY <1>2, <3>1, <3>2
    <3>4. RowStands(t, RowOf(k, kind, G!ToNodes(ids), n))
      BY <2>5, NodesAloneAreReferredTo
    <3>5. RowStands(t, RowOf(key[i], kind, refs[i], n))
      BY <3>1, <3>4 DEF k
    <3> QED BY <3>3, <3>5 DEF kind
  <2> HIDE DEF F, t, ts, key, refs, s
  <2>8. PlainRows(F, s, t, key, refs, n, Base(g))
    BY <2>1, <2>3, <2>4, <2>6 DEF PlainRows
  <2>7. Sect(FlattenSeq(<<>> \o F), Base(g), ts)
    BY <2>1, <2>8, PlainRowsAreSection
  <2> QED BY <2>7 DEF F, ts, s
<1> QED BY <1>3, <1>4, <1>5, <1>6

RegionTables == {"regions", "region_languages", "region_ecosystems"}

\* The rows that were inserted are of keys of a region.
HoldsOf(T, t, path) == \A x \in Named(T) : \E l : x = <<t, <<path, l>>>>

\* The languages or ecosystems of a region.
RegionInserts(F, s, t, path, to, n) == F = [i \in DOMAIN s |-> G!Insert(t, <<path, s[i]>>, "", to, n)]

\* The languages or the ecosystems of one region.
LEMMA RegionPart ==
  ASSUME NEW s, IsSeq(s), Apart(s), NEW t \in OfRegions, NEW path, NEW n, NEW to, to = {<<"regions", path>>},
         NEW F, RegionInserts(F, s, t, path, to, n), NEW ts, t \in ts
  PROVE  Sect(FlattenSeq(<<>> \o F), to, ts) /\ HoldsOf(FlattenSeq(<<>> \o F), t, path)
<1> DEFINE key == [i \in 1 .. Len(s) |-> <<path, s[i]>>]
           refs == [i \in 1 .. Len(s) |-> to]
<1>1. Len(s) \in Nat /\ DOMAIN s = 1 .. Len(s)
  BY SeqIs
<1>2. \A i \in 1 .. Len(s) : key[i] = <<path, s[i]>> /\ refs[i] = to
  OBVIOUS
<1>3. \A i \in 1 .. Len(s) : F[i] = G!Insert(t, key[i], "", refs[i], n)
  BY <1>1, <1>2 DEF RegionInserts
<1>4. F = [i \in DOMAIN s |-> F[i]]
  BY DEF RegionInserts
<1>5. \A i, j \in 1 .. Len(s) : i # j => key[i] # key[j]
  BY DEF Apart
<1> HIDE DEF key, refs
<1>6. ASSUME NEW i \in 1 .. Len(s) PROVE RowStands(t, RowOf(key[i], "", refs[i], n)) /\ refs[i] \subseteq to
  <2> DEFINE row == RowOf(key[i], "", refs[i], n)
  <2>1. row.refs = to
    BY <1>2 DEF RowOf
  <2> HIDE DEF row
  <2>2. \A f \in to : f[1] = "regions"
    <3> TAKE f \in to
    <3>1. f = <<"regions", path>>
      OBVIOUS
    <3> QED BY <3>1
  <2>3. t # "nodes"
    BY DEF OfRegions
  <2>4. RowStands(t, row)
    BY <2>1, <2>2, <2>3 DEF RowStands
  <2> QED BY <1>2, <2>4 DEF row
<1>7. t \in G!Tables
  BY TablesAre DEF OfRegions
<1>8. PlainRows(F, s, t, key, refs, n, to)
  BY <1>3, <1>4, <1>5, <1>6, <1>7 DEF PlainRows
<1>9. Sect(FlattenSeq(<<>> \o F), to, ts) /\ Holds(FlattenSeq(<<>> \o F), t, key, Len(s))
  BY <1>8, PlainRowsAreSection
<1>10. HoldsOf(FlattenSeq(<<>> \o F), t, path)
  BY <1>2, <1>9 DEF Holds, HoldsOf
<1> QED BY <1>9, <1>10

\* The rows of one region.
LEMMA RegionRowsAre ==
  ASSUME NEW r, NEW n, NEW given, <<"revisions", 1>> \in given,
         IsSeq(r.languages), Apart(r.languages), IsSeq(r.ecosystems), Apart(r.ecosystems)
  PROVE  /\ Sect(G!RegionRows(r, n), given, RegionTables)
         /\ \A x \in Named(G!RegionRows(r, n)) :
              (x = <<"regions", r.path>>)
              \/ (\E l : (x = <<"region_languages", <<r.path, l>>>>) \/ (x = <<"region_ecosystems", <<r.path, l>>>>))
<1> DEFINE a == G!Insert("regions", r.path, "", {G!Revision}, n)
           to == {<<"regions", r.path>>}
           X == [i \in DOMAIN r.languages |-> G!Insert("region_languages", <<r.path, r.languages[i]>>, "", to, n)]
           Y == [i \in DOMAIN r.ecosystems |-> G!Insert("region_ecosystems", <<r.path, r.ecosystems[i]>>, "", to, n)]
           b == FlattenSeq(<<>> \o X)
           c == FlattenSeq(<<>> \o Y)
           ts == {"regions"}
           us == {"region_languages"}
           vs == {"region_ecosystems"}
           ab == {"regions", "region_languages"}
<1>1. G!RegionRows(r, n) = a \o b \o c
  BY RegionRowsIs
<1>2. Sect(a, given, ts) /\ Named(a) = {<<"regions", r.path>>}
  <2> DEFINE t == "regions"
             kind == ""
             refs == {G!Revision}
             key == r.path
  <2>1. t \in G!Tables /\ t \in ts
    BY TablesAre
  <2>2. refs \subseteq given \cup {<<t, key>>}
    BY DEF G!Revision
  <2>3. RowStands(t, RowOf(key, kind, refs, n))
    <3> DEFINE row == RowOf(key, kind, refs, n)
    <3>1. row.refs = {<<"revisions", 1>>}
      BY DEF RowOf, G!Revision
    <3> HIDE DEF row
    <3>2. RowStands(t, row)
      BY <3>1 DEF RowStands, OfRevisions
    <3> QED BY <3>2 DEF row
  <2>4. a = G!Insert(t, key, kind, refs, n)
    OBVIOUS
  <2> HIDE DEF t, kind, refs, key, a, ts
  <2>5. Sect(a, given, ts) /\ Named(a) = {<<t, key>>}
    BY <2>1, <2>2, <2>3, <2>4, InsertIsSection
  <2> QED BY <2>5 DEF t, key
<1>4. Sect(b, to, us) /\ \A x \in Named(b) : \E l : x = <<"region_languages", <<r.path, l>>>>
  <2> DEFINE s == r.languages
             path == r.path
             t == "region_languages"
  <2>1. IsSeq(s) /\ Apart(s) /\ t \in OfRegions /\ t \in us /\ to = {<<"regions", path>>}
    BY DEF OfRegions
  <2>2. RegionInserts(X, s, t, path, to, n)
    BY DEF RegionInserts
  <2>3. b = FlattenSeq(<<>> \o X)
    OBVIOUS
  <2> HIDE DEF s, path, t, X, b, us, to
  <2>4. Sect(FlattenSeq(<<>> \o X), to, us) /\ HoldsOf(FlattenSeq(<<>> \o X), t, path)
    BY ONLY <2>1, <2>2, RegionPart
  <2> QED BY <2>3, <2>4 DEF t, path, HoldsOf
<1>5. Sect(c, to, vs) /\ \A x \in Named(c) : \E l : x = <<"region_ecosystems", <<r.path, l>>>>
  <2> DEFINE s == r.ecosystems
             path == r.path
             t == "region_ecosystems"
  <2>1. IsSeq(s) /\ Apart(s) /\ t \in OfRegions /\ t \in vs /\ to = {<<"regions", path>>}
    BY DEF OfRegions
  <2>2. RegionInserts(Y, s, t, path, to, n)
    BY DEF RegionInserts
  <2>3. c = FlattenSeq(<<>> \o Y)
    OBVIOUS
  <2> HIDE DEF s, path, t, Y, c, vs, to
  <2>4. Sect(FlattenSeq(<<>> \o Y), to, vs) /\ HoldsOf(FlattenSeq(<<>> \o Y), t, path)
    BY ONLY <2>1, <2>2, RegionPart
  <2> QED BY <2>3, <2>4 DEF t, path, HoldsOf
<1>6. to \subseteq given \cup Named(a) /\ to \subseteq given \cup Named(a \o b)
  <2>1. to \subseteq Named(a)
    BY <1>2
  <2>2. Named(a) \subseteq Named(a \o b)
    <3>1. Sound(a, given) /\ Sound(b, to) /\ Named(a) \cap Named(b) = {}
      BY <1>2, <1>4 DEF Sect
    <3> HIDE DEF a, b, to
    <3> QED BY <2>1, <3>1, BothAreSound
  <2> QED BY <2>1, <2>2
<1>7. ts \cap us = {} /\ ts \subseteq ab /\ us \subseteq ab /\ ab \cap vs = {} /\ ab \subseteq RegionTables
      /\ vs \subseteq RegionTables
  BY DEF RegionTables
<1> HIDE DEF a, b, c, to, ts, us, vs, ab
<1>8. Sect(a \o b, given, ab) /\ Named(a \o b) = Named(a) \cup Named(b)
  BY <1>2, <1>4, <1>6, <1>7, SectionsJoin
<1> DEFINE p == a \o b
<1> HIDE DEF p
<1>9. Sect(p, given, ab) /\ Named(p) = Named(a) \cup Named(b) /\ to \subseteq given \cup Named(p)
  BY <1>6, <1>8 DEF p
<1>10. Sect(p \o c, given, RegionTables) /\ Named(p \o c) = Named(p) \cup Named(c)
  BY <1>5, <1>7, <1>9, SectionsJoin
<1>11. G!RegionRows(r, n) = p \o c
  BY <1>1 DEF p
<1> QED BY <1>2, <1>4, <1>5, <1>9, <1>10, <1>11

\* The section of the regions, whose paths differ.
LEMMA RegionsAreSection ==
  ASSUME NEW g, NEW n, Storable(g)
  PROVE  Sect(FlattenSeq(<<>> \o [i \in DOMAIN g.regions |-> G!RegionRows(g.regions[i], n)]), Base(g), RegionTables)
<1> DEFINE s == g.regions
           F == [i \in DOMAIN s |-> G!RegionRows(s[i], n)]
           given == Base(g)
           later == [i \in 1 .. Len(s) |-> given]
<1>1. IsSeq(s) /\ F = [i \in DOMAIN s |-> F[i]]
  BY DEF Storable
<1>2. DOMAIN s = 1 .. Len(s)
  BY <1>1, SeqIs
<1>3. \A i \in 1 .. Len(s) : F[i] = G!RegionRows(s[i], n)
  BY <1>2
<1> HIDE DEF F
<1>4. <<>> \o F = F /\ IsSeq(F) /\ Len(F) = Len(s)
  BY <1>1, MapIs
<1>5. <<"revisions", 1>> \in given
  BY DEF Base
<1> HIDE DEF given
<1>6. ASSUME NEW i \in 1 .. Len(s)
      PROVE  /\ Sect(F[i], given, RegionTables)
             /\ \A x \in Named(F[i]) :
                  (x = <<"regions", s[i].path>>)
                  \/ (\E l : (x = <<"region_languages", <<s[i].path, l>>>>) \/ (x = <<"region_ecosystems", <<s[i].path, l>>>>))
  <2> DEFINE r == s[i]
  <2>1. IsSeq(r.languages) /\ Apart(r.languages) /\ IsSeq(r.ecosystems) /\ Apart(r.ecosystems)
    BY DEF Storable
  <2>2. F[i] = G!RegionRows(r, n)
    BY <1>3
  <2> HIDE DEF r
  <2>3. /\ Sect(G!RegionRows(r, n), given, RegionTables)
        /\ \A x \in Named(G!RegionRows(r, n)) :
              (x = <<"regions", r.path>>)
              \/ (\E l : (x = <<"region_languages", <<r.path, l>>>>) \/ (x = <<"region_ecosystems", <<r.path, l>>>>))
    BY ONLY <1>5, <2>1, RegionRowsAre
  <2> QED BY <2>2, <2>3 DEF r
<1>7. \A i, j \in 1 .. Len(F) : i # j => Named(F[i]) \cap Named(F[j]) = {}
  <2> SUFFICES ASSUME NEW i \in 1 .. Len(s), NEW j \in 1 .. Len(s), i # j, NEW x \in Named(F[i]), x \in Named(F[j])
               PROVE  FALSE
    BY <1>4
  <2>1. s[i].path # s[j].path
    BY DEF Storable
  <2>2. (x = <<"regions", s[i].path>>)
        \/ (\E l : (x = <<"region_languages", <<s[i].path, l>>>>) \/ (x = <<"region_ecosystems", <<s[i].path, l>>>>))
    BY <1>6
  <2>3. (x = <<"regions", s[j].path>>)
        \/ (\E l : (x = <<"region_languages", <<s[j].path, l>>>>) \/ (x = <<"region_ecosystems", <<s[j].path, l>>>>))
    BY <1>6
  <2>4. x = <<"regions", s[i].path>> \/ x[2][1] = s[i].path
    BY <2>2
  <2>5. x = <<"regions", s[j].path>> \/ x[2][1] = s[j].path
    BY <2>3
  <2>6. x[1] = "regions" <=> x = <<"regions", s[i].path>>
    BY <2>2
  <2>7. x[1] = "regions" <=> x = <<"regions", s[j].path>>
    BY <2>3
  <2> QED BY <2>1, <2>4, <2>5, <2>6, <2>7
<1>8. \A i \in 1 .. Len(F) :
        Sound(F[i], later[i]) /\ later[i] \subseteq given \cup UNION {Named(F[j]) : j \in 1 .. i - 1}
  BY <1>4, <1>6 DEF Sect
<1> HIDE DEF later, s
<1>9. /\ Sound(FlattenSeq(F), given)
      /\ \A x : x \in Named(FlattenSeq(F)) <=> \E i \in 1 .. Len(F) : x \in Named(F[i])
  BY <1>4, <1>7, <1>8, GroupsAreSound
<1>10. \A x \in Named(FlattenSeq(F)) : x[1] \in RegionTables
  BY <1>4, <1>6, <1>9 DEF Sect
<1> QED BY <1>4, <1>9, <1>10 DEF Sect, F, s, given

\* What is written so far and the next section.
LEMMA JoinAgain ==
  ASSUME NEW a, NEW b, NEW c, IsSeq(a), IsSeq(b), IsSeq(c)
  PROVE  (a \o b) \o c = a \o (b \o c)
<1>1. PICK A, B, C : a \in Seq(A) /\ b \in Seq(B) /\ c \in Seq(C)
  BY DEF IsSeq
<1>2. a \in Seq(A \cup B \cup C) /\ b \in Seq(A \cup B \cup C) /\ c \in Seq(A \cup B \cup C)
  BY <1>1
<1> QED BY <1>2, ConcatAssociative

\* R is the deletions and then insertions into certain tables, of at least those keys.
Replacing(R, ts, given) ==
  \E T : R = Truncates \o T /\ IsSeq(T) /\ Sect(T, {}, ts) /\ given \subseteq Named(T)

\* A replacement so far goes on with a section that refers to what it inserted.
LEMMA ReplacingGoesOn ==
  ASSUME NEW R, NEW ts, NEW given, Replacing(R, ts, given), NEW B, NEW us, Sect(B, given, us),
         ts \cap us = {}, NEW all, ts \subseteq all, us \subseteq all
  PROVE  Replacing(R \o B, all, given) /\ Replacing(R \o B, all, given \cup Named(B))
<1>1. PICK T : R = Truncates \o T /\ IsSeq(T) /\ Sect(T, {}, ts) /\ given \subseteq Named(T)
  BY DEF Replacing
<1>2. IsSeq(B)
  BY DEF Sect, Sound
<1> DEFINE D == Truncates
           nothing == {}
<1>3. IsSeq(D)
  BY TruncateIs
<1>4. Sect(T, nothing, ts) /\ given \subseteq nothing \cup Named(T)
  BY <1>1
<1>5. R = D \o T
  BY <1>1
<1> HIDE DEF D, nothing
<1>6. (D \o T) \o B = D \o (T \o B)
  BY <1>1, <1>2, <1>3, JoinAgain
<1>7. Sect(T \o B, nothing, all) /\ Named(T \o B) = Named(T) \cup Named(B)
  BY ONLY <1>4, Sect(B, given, us), ts \cap us = {}, ts \subseteq all, us \subseteq all, SectionsJoin
<1>8. R \o B = D \o (T \o B) /\ IsSeq(T \o B)
  BY <1>1, <1>2, <1>5, <1>6, BothSeqs
<1> DEFINE W == T \o B
<1>9. R \o B = D \o W /\ IsSeq(W) /\ Sect(W, nothing, all) /\ given \subseteq Named(W)
      /\ given \cup Named(B) \subseteq Named(W)
  BY <1>1, <1>7, <1>8
<1> HIDE DEF W
<1> QED BY <1>9 DEF Replacing, D, nothing

\* The whole replacement of a storable graph refers to what it inserted before.
LEMMA StorableIsReplaceable ==
  ASSUME NEW g, Storable(g), NEW n
  PROVE  \E T : Replaces(G!Replacement(g, n), T)
<1> DEFINE files == G!FilesFirst(g.nodes)
           nodes == g.nodes
           A1 == G!Insert("revisions", 1, "", {}, n)
           A2 == G!Insert("repository", 1, "", {}, n)
           B2 == FlattenSeq(<<>> \o [i \in DOMAIN files |-> G!NodeRows(files[i], n)])
           B3 == FlattenSeq(<<>> \o [i \in DOMAIN nodes |-> G!FileRow(nodes[i], n)])
           B4 == FlattenSeq(<<>> \o [i \in DOMAIN g.edges |-> G!EdgeRow(g.edges[i], n)])
           B5 == FlattenSeq(<<>> \o [i \in DOMAIN g.unresolved |-> G!ReferenceRow(g.unresolved[i], n)])
           B6 == FlattenSeq(<<>> \o [i \in DOMAIN g.roles |-> G!RoleRow(g.roles[i], n)])
           B7 == FlattenSeq(<<>> \o [i \in DOMAIN g.regions |-> G!RegionRows(g.regions[i], n)])
           D == Truncates
           begun == {<<"revisions", 1>>}
           nothing == {}
           given == Base(g)
<1>1. G!Replacement(g, n) = (((((((((D \o A1) \o A2) \o B2) \o B3) \o B4) \o B5) \o B6) \o B7))
  BY ReplacementIs
<1> DEFINE t1 == {"revisions"}
           t2 == {"repository"}
           t12 == {"revisions", "repository"}
           u3 == {"file_revisions"}
           u4 == {"edges"}
           u5 == {"unresolved_references"}
           u6 == {"node_roles"}
           s2 == t12 \cup NodeTables
           s3 == s2 \cup u3
           s4 == s3 \cup u4
           s5 == s4 \cup u5
           s6 == s5 \cup u6
           s7 == s6 \cup RegionTables
<1>2. t1 \cap t2 = {} /\ t1 \subseteq t12 /\ t2 \subseteq t12 /\ t12 \cap NodeTables = {}
      /\ s2 \cap u3 = {} /\ s3 \cap u4 = {} /\ s4 \cap u5 = {} /\ s5 \cap u6 = {} /\ s6 \cap RegionTables = {}
  BY DEF NodeTables, RegionTables
<1>3. t12 \subseteq s2 /\ NodeTables \subseteq s2 /\ s2 \subseteq s3 /\ u3 \subseteq s3 /\ s3 \subseteq s4
      /\ u4 \subseteq s4 /\ s4 \subseteq s5 /\ u5 \subseteq s5 /\ s5 \subseteq s6 /\ u6 \subseteq s6
      /\ s6 \subseteq s7 /\ RegionTables \subseteq s7
  OBVIOUS
<1>4. Sect(A1, nothing, t1) /\ Named(A1) = {<<"revisions", 1>>}
  <2> DEFINE t == "revisions"
             key == 1
             kind == ""
  <2>1. t \in G!Tables /\ t \in t1 /\ nothing \subseteq nothing \cup {<<t, key>>}
    BY TablesAre
  <2>2. RowStands(t, RowOf(key, kind, nothing, n))
    BY DEF RowStands, RowOf
  <2>3. A1 = G!Insert(t, key, kind, nothing, n)
    OBVIOUS
  <2> HIDE DEF t, key, kind, nothing, A1, t1
  <2>4. Sect(A1, nothing, t1) /\ Named(A1) = {<<t, key>>}
    BY ONLY <2>1, <2>2, <2>3, InsertIsSection
  <2> QED BY <2>4 DEF t, key
<1>5. Sect(A2, begun, t2)
  <2> DEFINE t == "repository"
             key == 1
             kind == ""
  <2>1. t \in G!Tables /\ t \in t2 /\ nothing \subseteq begun \cup {<<t, key>>}
    BY TablesAre
  <2>2. RowStands(t, RowOf(key, kind, nothing, n))
    BY DEF RowStands, RowOf
  <2>3. A2 = G!Insert(t, key, kind, nothing, n)
    OBVIOUS
  <2> HIDE DEF t, key, kind, nothing, A2, t2, begun
  <2>4. Sect(A2, begun, t2) /\ Named(A2) = {<<t, key>>}
    BY ONLY <2>1, <2>2, <2>3, InsertIsSection
  <2> QED BY <2>4
<1>6. Sect(B2, begun, NodeTables) /\ given \subseteq begun \cup Named(B2)
  <2>1. <<"revisions", 1>> \in begun
    OBVIOUS
  <2> HIDE DEF begun
  <2>2. Sect(B2, begun, NodeTables) /\ \A id \in NodeIds(g) : <<"nodes", id>> \in Named(B2)
    BY <2>1, NodesAreSection
  <2> HIDE DEF B2
  <2> QED BY <2>2 DEF Base, begun
<1>7. Sect(B3, given, u3) /\ Sect(B4, given, u4) /\ Sect(B5, given, u5) /\ Sect(B6, given, u6)
  BY PlainSections
<1>8. Sect(B7, given, RegionTables)
  BY RegionsAreSection
<1>9. begun \subseteq Named(A1)
  BY <1>4
<1> HIDE DEF A1, A2, B2, B3, B4, B5, B6, B7, D, begun, nothing, given, t1, t2, t12, u3, u4, u5, u6, s2, s3, s4, s5, s6, s7
<1>10. Replacing(D \o A1, t1, begun)
  <2>1. IsSeq(A1) /\ Sect(A1, {}, t1)
    BY <1>4 DEF Sect, Sound, nothing
  <2> QED BY <1>9, <2>1 DEF Replacing, D
<1> DEFINE R1 == D \o A1
           R2 == R1 \o A2
           R3 == R2 \o B2
           R4 == R3 \o B3
           R5 == R4 \o B4
           R6 == R5 \o B5
           R7 == R6 \o B6
<1> HIDE DEF R1
<1>11. Replacing(R1, t1, begun)
  BY <1>10 DEF R1
<1>12. Replacing(R2, t12, begun)
  BY <1>2, <1>5, <1>11, ReplacingGoesOn
<1> HIDE DEF R2
<1>13. Replacing(R3, s2, begun \cup Named(B2))
  BY <1>2, <1>3, <1>6, <1>12, ReplacingGoesOn
<1> HIDE DEF R3
<1>14. Replacing(R3, s2, given)
  BY <1>6, <1>13 DEF Replacing
<1>15. Replacing(R4, s3, given)
  BY <1>2, <1>3, <1>7, <1>14, ReplacingGoesOn
<1> HIDE DEF R4
<1>16. Replacing(R5, s4, given)
  BY <1>2, <1>3, <1>7, <1>15, ReplacingGoesOn
<1> HIDE DEF R5
<1>17. Replacing(R6, s5, given)
  BY <1>2, <1>3, <1>7, <1>16, ReplacingGoesOn
<1> HIDE DEF R6
<1>18. Replacing(R7, s6, given)
  BY <1>2, <1>3, <1>7, <1>17, ReplacingGoesOn
<1> HIDE DEF R7
<1>19. Replacing(R7 \o B7, s7, given)
  BY <1>2, <1>3, <1>8, <1>18, ReplacingGoesOn
<1>20. G!Replacement(g, n) = R7 \o B7
  BY <1>1 DEF R1, R2, R3, R4, R5, R6, R7
<1>21. \E T : G!Replacement(g, n) = Truncates \o T /\ Sect(T, {}, s7)
  BY <1>19, <1>20 DEF Replacing
<1> QED BY <1>21 DEF Replaces, Sect

-----------------------------------------------------------------------------
(* What is built *)

Homes(u) == {G!FileId(p) : p \in ToSet(u.files)}

\* A node that refers to files only, and that of a file to nothing else.
IsNode(x, u) ==
  /\ x = G!Node(x.id, x.kind, x.file, x.home, x.confidence, x.name, x.places)
  /\ x.places \in Nat
  /\ {x.file, x.home} \ {None} \subseteq Homes(u)
  /\ x.kind = "File" => {x.file, x.home} \ {None} \subseteq {x.id}

Fits(x, what, u) ==
  /\ what = "node" => IsNode(x, u)
  /\ what = "row" => x.home \in Homes(u)

\* A sequence of nodes or of rows, or of anything.
List(s, what, u) == IsSeq(s) /\ \A x \in ToSet(s) : Fits(x, what, u)

\* The instance's set of members is the library's.
LEMMA OneToSet == \A s : G!ToSet(s) = ToSet(s)
BY DEF G!ToSet, ToSet

\* A list member by member.
LEMMA ListIs ==
  ASSUME NEW s, IsSeq(s), NEW what, NEW u
  PROVE  /\ ToSet(s) = {s[i] : i \in 1 .. Len(s)}
         /\ List(s, what, u) <=> \A i \in 1 .. Len(s) : Fits(s[i], what, u)
<1>1. DOMAIN s = 1 .. Len(s)
  BY SeqIs
<1> QED BY <1>1 DEF ToSet, List

\* The empty list.
LEMMA NothingIsList == \A what, u : List(<<>>, what, u)
<1> TAKE what, u
<1>1. IsSeq(<<>>) /\ Len(<<>>) = 0
  BY ShortSeqs
<1> DEFINE s == <<>>
<1> HIDE DEF s
<1>2. IsSeq(s) /\ Len(s) = 0
  BY <1>1 DEF s
<1>3. List(s, what, u)
  BY <1>2, ListIs
<1> QED BY <1>3 DEF s

\* A list of one.
LEMMA OneIsList ==
  ASSUME NEW what, NEW u, NEW x, Fits(x, what, u)
  PROVE  List(<<x>>, what, u)
<1>1. IsSeq(<<x>>) /\ Len(<<x>>) = 1 /\ <<x>>[1] = x
  BY ShortSeqs
<1> DEFINE s == <<x>>
<1> HIDE DEF s
<1>2. IsSeq(s) /\ Len(s) = 1 /\ s[1] = x
  BY <1>1 DEF s
<1>3. List(s, what, u)
  BY <1>2, ListIs
<1> QED BY <1>3 DEF s

\* Two lists, one after the other.
LEMMA BothAreList ==
  ASSUME NEW what, NEW u, NEW s, NEW t, List(s, what, u), List(t, what, u)
  PROVE  List(s \o t, what, u)
<1>1. IsSeq(s \o t) /\ ToSet(s \o t) = ToSet(s) \cup ToSet(t)
  BY BothHold DEF List
<1> QED BY <1>1 DEF List

\* As Each makes one.
LEMMA EachIsList ==
  ASSUME NEW what, NEW u, NEW s, IsSeq(s), NEW F, F = [i \in DOMAIN s |-> F[i]],
         \A i \in 1 .. Len(s) : List(F[i], what, u)
  PROVE  List(FlattenSeq(<<>> \o F), what, u)
<1>1. <<>> \o F = F /\ IsSeq(F) /\ Len(F) = Len(s)
  BY MapIs
<1>2. \A i \in 1 .. Len(F) : IsSeq(F[i])
  BY <1>1 DEF List
<1>3. /\ IsSeq(FlattenSeq(F))
      /\ \A x : x \in ToSet(FlattenSeq(F)) <=> \E i \in 1 .. Len(F) : x \in ToSet(F[i])
  BY <1>1, <1>2, FlattenHolds
<1>4. List(FlattenSeq(F), what, u)
  BY <1>1, <1>3 DEF List
<1> QED BY <1>1, <1>4

\* A selection of a list.
LEMMA PickedIsList ==
  ASSUME NEW what, NEW u, NEW s, List(s, what, u), NEW P, P \subseteq 1 .. Len(s)
  PROVE  List(Picked(s, P), what, u)
<1> DEFINE q == Picked(s, P)
<1>0. IsSeq(s)
  BY DEF List
<1>1. IsSeq(q) /\ \E at : Picks(q, s, P, at)
  BY <1>0, PickedIs
<1>2. PICK at : Picks(q, s, P, at)
  BY <1>1
<1> HIDE DEF q
<1>3. \A i \in 1 .. Len(s) : Fits(s[i], what, u)
  BY <1>0, ListIs
<1>4. ASSUME NEW k \in 1 .. Len(q) PROVE Fits(q[k], what, u)
  <2>1. at[k] \in 1 .. Len(s) /\ q[k] = s[at[k]]
    BY <1>2 DEF Picks
  <2> QED BY <1>3, <2>1
<1>5. List(q, what, u)
  BY <1>1, <1>4, ListIs
<1> QED BY <1>5 DEF q

\* The first of each identifier.
Firsts(s) == {i \in 1 .. Len(s) : \A j \in 1 .. i - 1 : s[j].id # s[i].id}

\* FirstOfEach selects the first place of each identifier.
LEMMA FirstOfEachIs ==
  ASSUME NEW s, IsSeq(s)
  PROVE  G!FirstOfEach(s, G!ById) = Picked(s, Firsts(s))
<1>1. DOMAIN s = 1 .. Len(s) /\ Len(s) \in Nat
  BY SeqIs
<1> DEFINE keys == [i \in DOMAIN s |-> s[i].id]
           F == [i \in DOMAIN s |-> IF \A j \in 1 .. i - 1 : keys[j] # keys[i] THEN <<s[i]>> ELSE <<>>]
<1>2. G!FirstOfEach(s, G!ById) = FlattenSeq(F)
  BY OneFlattenSeq DEF G!FirstOfEach, G!ById
<1>3. \A i \in 1 .. Len(s) : (\A j \in 1 .. i - 1 : keys[j] # keys[i]) <=> i \in Firsts(s)
  <2> TAKE i \in 1 .. Len(s)
  <2>1. \A j \in 1 .. i - 1 : j \in DOMAIN s
    BY <1>1
  <2> QED BY <1>1, <2>1 DEF Firsts
<1> HIDE DEF keys
<1>4. F = [i \in DOMAIN s |-> IF i \in Firsts(s) THEN <<s[i]>> ELSE <<>>]
  BY <1>1, <1>3
<1> QED BY <1>2, <1>4 DEF Picked

\* The first of each identifier of a list.
LEMMA FirstsAreList ==
  ASSUME NEW what, NEW u, NEW s, List(s, what, u)
  PROVE  List(G!FirstOfEach(s, G!ById), what, u)
<1>1. IsSeq(s)
  BY DEF List
<1>2. G!FirstOfEach(s, G!ById) = Picked(s, Firsts(s))
  BY <1>1, FirstOfEachIs
<1>3. Firsts(s) \subseteq 1 .. Len(s)
  BY DEF Firsts
<1> QED BY <1>2, <1>3, PickedIsList

\* They differ.
LEMMA FirstsAreApart ==
  ASSUME NEW s, IsSeq(s)
  PROVE  ApartById(G!FirstOfEach(s, G!ById))
<1> DEFINE P == Firsts(s)
           q == Picked(s, P)
<1>1. G!FirstOfEach(s, G!ById) = q
  BY FirstOfEachIs
<1>2. P \subseteq 1 .. Len(s)
  BY DEF Firsts
<1>3. IsSeq(q) /\ \E at : Picks(q, s, P, at)
  BY <1>2, PickedIs
<1>4. PICK at : Picks(q, s, P, at)
  BY <1>3
<1>5. Len(q) \in Nat
  BY <1>3, SeqIs
<1> HIDE DEF q
<1>6. ASSUME NEW k \in 1 .. Len(q), NEW l \in 1 .. Len(q), k < l PROVE q[k].id # q[l].id
  <2>1. at[k] < at[l] /\ at[k] \in P /\ at[l] \in P /\ q[k] = s[at[k]] /\ q[l] = s[at[l]]
    BY <1>4, <1>6 DEF Picks
  <2>2. at[k] \in 1 .. at[l] - 1
    BY <2>1 DEF Firsts
  <2> QED BY <2>1, <2>2 DEF Firsts
<1>7. \A k, l \in 1 .. Len(q) : k # l => k < l \/ l < k
  BY <1>5
<1>8. ApartById(q)
  BY <1>6, <1>7 DEF ApartById
<1> QED BY <1>1, <1>8

\* What the contributions hold in one field, together.
LEMMA GatheredIsList ==
  ASSUME NEW analyses, IsSeq(analyses), NEW field, NEW what, NEW u,
         \A i \in 1 .. Len(analyses) : List(analyses[i][field], what, u)
  PROVE  /\ List(G!Gathered(analyses, field), what, u)
         /\ \A x \in ToSet(G!Gathered(analyses, field)) :
              \E i \in 1 .. Len(analyses) : x \in ToSet(analyses[i][field])
<1> DEFINE F == [i \in DOMAIN analyses |-> analyses[i][field]]
<1>1. G!Gathered(analyses, field) = FlattenSeq(F)
  BY OneFlattenSeq DEF G!Gathered
<1>2. DOMAIN analyses = 1 .. Len(analyses)
  BY SeqIs
<1>3. F = [i \in DOMAIN analyses |-> F[i]] /\ \A i \in 1 .. Len(analyses) : F[i] = analyses[i][field]
  BY <1>2
<1> HIDE DEF F
<1>4. IsSeq(F) /\ Len(F) = Len(analyses)
  BY <1>3, MapIs
<1>5. \A i \in 1 .. Len(F) : IsSeq(F[i])
  BY <1>3, <1>4 DEF List
<1>6. /\ IsSeq(FlattenSeq(F))
      /\ \A x : x \in ToSet(FlattenSeq(F)) <=> \E i \in 1 .. Len(F) : x \in ToSet(F[i])
  BY <1>4, <1>5, FlattenHolds
<1> QED BY <1>1, <1>3, <1>4, <1>6 DEF List

\* The universal facts, as lists of what they are in.
Universally(u) ==
  /\ IsSeq(u.files) /\ IsSeq(u.manifests) /\ IsSeq(u.technologies) /\ IsSeq(u.artifacts) /\ IsSeq(u.regions)
  /\ \A m \in ToSet(u.manifests) : G!FileId(m.path) \in Homes(u) /\ IsSeq(m.dependencies)
  /\ \A t \in ToSet(u.technologies) : t.evidence # <<>> => G!FileId(Head(t.evidence)) \in Homes(u)
  /\ \A a \in ToSet(u.artifacts) :
       /\ G!FileId(a.path) \in Homes(u) /\ IsSeq(a.elements) /\ IsSeq(a.references)
       /\ \A e \in ToSet(a.elements) : IsSeq(e.requires)
  /\ \A i, j \in 1 .. Len(u.regions) : i # j => u.regions[i].path # u.regions[j].path
  /\ \A i \in 1 .. Len(u.regions) :
       /\ IsSeq(u.regions[i].languages) /\ Apart(u.regions[i].languages)
       /\ IsSeq(u.regions[i].ecosystems) /\ Apart(u.regions[i].ecosystems)

Fields == {"declarations", "relationships", "calls", "externalCalls", "unbound",
           "unresolved", "routes", "reads", "requests", "roles"}

\* And what the analysers found.
Analysed(u, analyses) ==
  /\ \A field \in Fields : IsSeq(G!Gathered(analyses, field))
  /\ \A d \in ToSet(G!Gathered(analyses, "declarations")) :
       G!FileId(d.file) \in Homes(u) /\ d.kind \in G!Declarations /\ IsSeq(d.at)
  /\ \A r \in ToSet(G!Gathered(analyses, "routes")) : r.home \in Homes(u) /\ IsSeq(r.handlers)
  /\ \A field \in {"reads", "unresolved", "unbound"} :
       \A x \in ToSet(G!Gathered(analyses, field)) : x.home \in Homes(u)
  /\ \A r \in ToSet(G!Gathered(analyses, "roles")) : r = [node |-> r.node, role |-> r.role]

\* What the assumption says of an input, field by field.
LEMMA ScansAre ==
  ASSUME NEW u, NEW analyses, OfAScan(u, analyses)
  PROVE  Universally(u) /\ Analysed(u, analyses)
<1>1. \A s : s \in Seq(ToSet(s)) => IsSeq(s)
  BY DEF IsSeq
<1>2. \A p \in ToSet(u.files) : G!FileId(p) \in Homes(u)
  BY DEF Homes
<1>3. \A field \in {"files", "manifests", "technologies", "artifacts", "regions"} : IsSeq(u[field])
  BY <1>1 DEF OfAScan
<1>4. \A m \in ToSet(u.manifests) : G!FileId(m.path) \in Homes(u) /\ IsSeq(m.dependencies)
  BY <1>1, <1>2 DEF OfAScan
<1>5. \A t \in ToSet(u.technologies) : t.evidence # <<>> => G!FileId(Head(t.evidence)) \in Homes(u)
  BY <1>2 DEF OfAScan
<1>6. \A a \in ToSet(u.artifacts) :
        /\ G!FileId(a.path) \in Homes(u) /\ IsSeq(a.elements) /\ IsSeq(a.references)
        /\ \A e \in ToSet(a.elements) : IsSeq(e.requires)
  BY <1>1, <1>2 DEF OfAScan
<1>7. IsSeq(u.regions)
  BY <1>3
<1>8. DOMAIN u.regions = 1 .. Len(u.regions)
  BY <1>7, SeqIs
<1>9. \A i, j \in 1 .. Len(u.regions) : i # j => u.regions[i].path # u.regions[j].path
  <2> DEFINE s == [i \in DOMAIN u.regions |-> u.regions[i].path]
  <2>1. \A i, j \in DOMAIN s : i # j => s[i] # s[j]
    BY DEF OfAScan
  <2> QED BY <1>8, <2>1
<1>10. ASSUME NEW r \in ToSet(u.regions)
       PROVE  IsSeq(r.languages) /\ Apart(r.languages) /\ IsSeq(r.ecosystems) /\ Apart(r.ecosystems)
  <2>1. /\ r.languages \in Seq(ToSet(r.languages)) /\ r.ecosystems \in Seq(ToSet(r.ecosystems))
        /\ \A i, j \in DOMAIN r.languages : i # j => r.languages[i] # r.languages[j]
        /\ \A i, j \in DOMAIN r.ecosystems : i # j => r.ecosystems[i] # r.ecosystems[j]
    BY DEF OfAScan
  <2>2. IsSeq(r.languages) /\ IsSeq(r.ecosystems)
    BY <1>1, <2>1
  <2>3. DOMAIN r.languages = 1 .. Len(r.languages) /\ DOMAIN r.ecosystems = 1 .. Len(r.ecosystems)
    BY <2>2, SeqIs
  <2> QED BY <2>1, <2>2, <2>3 DEF Apart
<1>11. \A i \in 1 .. Len(u.regions) : u.regions[i] \in ToSet(u.regions)
  BY <1>8 DEF ToSet
<1>12. Universally(u)
  BY <1>3, <1>4, <1>5, <1>6, <1>9, <1>10, <1>11 DEF Universally
<1>13. IsSeq(analyses)
  BY <1>1 DEF OfAScan
<1>14. DOMAIN analyses = 1 .. Len(analyses)
  BY <1>13, SeqIs
<1>15. \A one \in ToSet(analyses) :
           /\ \A field \in Fields : IsSeq(one[field])
           /\ \A d \in ToSet(one["declarations"]) :
                G!FileId(d.file) \in Homes(u) /\ d.kind \in G!Declarations /\ IsSeq(d.at)
           /\ \A r \in ToSet(one["routes"]) : r.home \in Homes(u) /\ IsSeq(r.handlers)
           /\ \A field \in {"reads", "unresolved", "unbound"} : \A x \in ToSet(one[field]) : x.home \in Homes(u)
           /\ \A r \in ToSet(one["roles"]) : r = [node |-> r.node, role |-> r.role]
  <2> TAKE one \in ToSet(analyses)
  <2>1. \A field \in Fields : IsSeq(one[field])
    BY <1>1 DEF OfAScan, Fields
  <2>2. \A d \in ToSet(one["declarations"]) :
                G!FileId(d.file) \in Homes(u) /\ d.kind \in G!Declarations /\ IsSeq(d.at)
    BY <1>1, <1>2 DEF OfAScan
  <2>3. \A r \in ToSet(one["routes"]) : r.home \in Homes(u) /\ IsSeq(r.handlers)
    BY <1>1 DEF OfAScan, Homes
  <2>4. \A field \in {"reads", "unresolved", "unbound"} : \A x \in ToSet(one[field]) : x.home \in Homes(u)
    BY DEF OfAScan, Homes
  <2>5. \A r \in ToSet(one["roles"]) : r = [node |-> r.node, role |-> r.role]
    BY DEF OfAScan
  <2> QED BY <2>1, <2>2, <2>3, <2>4, <2>5
<1>16. \A i \in 1 .. Len(analyses) : analyses[i] \in ToSet(analyses)
  BY <1>14 DEF ToSet
<1>17. ASSUME NEW field \in Fields
       PROVE  /\ IsSeq(G!Gathered(analyses, field))
              /\ \A x \in ToSet(G!Gathered(analyses, field)) :
                   \E one \in ToSet(analyses) : x \in ToSet(one[field])
  <2> DEFINE what == "any"
  <2>1. \A i \in 1 .. Len(analyses) : List(analyses[i][field], what, u)
    BY <1>15, <1>16 DEF List, Fits
  <2> HIDE DEF what
  <2>2. /\ List(G!Gathered(analyses, field), what, u)
        /\ \A x \in ToSet(G!Gathered(analyses, field)) :
              \E i \in 1 .. Len(analyses) : x \in ToSet(analyses[i][field])
    BY <1>13, <2>1, GatheredIsList
  <2> QED BY <1>16, <2>2 DEF List
<1>18. Analysed(u, analyses)
  <2>1. \A field \in Fields : IsSeq(G!Gathered(analyses, field))
    BY <1>17
  <2>2. \A d \in ToSet(G!Gathered(analyses, "declarations")) :
          G!FileId(d.file) \in Homes(u) /\ d.kind \in G!Declarations /\ IsSeq(d.at)
    <3>1. "declarations" \in Fields
      BY DEF Fields
    <3> QED BY <1>15, <1>17, <3>1
  <2>3. \A r \in ToSet(G!Gathered(analyses, "routes")) : r.home \in Homes(u) /\ IsSeq(r.handlers)
    <3>1. "routes" \in Fields
      BY DEF Fields
    <3> QED BY <1>15, <1>17, <3>1
  <2>4. \A field \in {"reads", "unresolved", "unbound"} :
          \A x \in ToSet(G!Gathered(analyses, field)) : x.home \in Homes(u)
    <3> TAKE field \in {"reads", "unresolved", "unbound"}
    <3>1. field \in Fields
      BY DEF Fields
    <3> QED BY <1>15, <1>17, <3>1
  <2>5. \A r \in ToSet(G!Gathered(analyses, "roles")) : r = [node |-> r.node, role |-> r.role]
    <3>1. "roles" \in Fields
      BY DEF Fields
    <3> TAKE r \in ToSet(G!Gathered(analyses, "roles"))
    <3>2. PICK one \in ToSet(analyses) : r \in ToSet(one["roles"])
      BY <1>17, <3>1
    <3> QED BY <1>15, <3>2
  <2> QED BY <2>1, <2>2, <2>3, <2>4, <2>5 DEF Analysed
<1> QED BY <1>12, <1>18

\* A member of a sequence.
LEMMA MembersAre ==
  ASSUME NEW s, IsSeq(s)
  PROVE  DOMAIN s = 1 .. Len(s) /\ \A i \in 1 .. Len(s) : s[i] \in ToSet(s)
<1>1. DOMAIN s = 1 .. Len(s)
  BY SeqIs
<1> QED BY <1>1 DEF ToSet

\* One node that is in no file or in a known one.
LEMMA OneNode ==
  ASSUME NEW u, NEW id, NEW kind, NEW file, NEW home, NEW confidence, NEW name, NEW places \in Nat,
         {file, home} \ {None} \subseteq Homes(u),
         kind = "File" => {file, home} \ {None} \subseteq {id}
  PROVE  List(<<G!Node(id, kind, file, home, confidence, name, places)>>, "node", u)
<1> DEFINE x == G!Node(id, kind, file, home, confidence, name, places)
           what == "node"
<1>1. /\ x.id = id /\ x.kind = kind /\ x.file = file /\ x.home = home /\ x.places = places
      /\ x = G!Node(x.id, x.kind, x.file, x.home, x.confidence, x.name, x.places)
  BY DEF G!Node
<1> HIDE DEF x
<1>2. IsNode(x, u)
  BY <1>1 DEF IsNode
<1>3. Fits(x, what, u)
  BY <1>2 DEF Fits
<1> HIDE DEF what
<1>4. List(<<x>>, what, u)
  BY <1>3, OneIsList
<1> QED BY <1>4 DEF x, what

-----------------------------------------------------------------------------
(* The nodes *)

\* Nodes of files.
LEMMA FileNodesAre ==
  ASSUME NEW u, Universally(u)
  PROVE  /\ List(G!Each(u.files, G!FileNode), "node", u)
         /\ \A h \in Homes(u) : \E x \in ToSet(G!Each(u.files, G!FileNode)) : x.id = h /\ x.kind = "File"
<1> DEFINE s == u.files
           F == [i \in DOMAIN s |-> G!FileNode(s[i])]
<1>1. G!Each(u.files, G!FileNode) = FlattenSeq(<<>> \o F)
  BY OneFlattenSeq DEF G!Each
<1>2. IsSeq(s)
  BY DEF Universally
<1>3. DOMAIN s = 1 .. Len(s) /\ \A i \in 1 .. Len(s) : s[i] \in ToSet(s)
  BY <1>2, MembersAre
<1>4. F = [i \in DOMAIN s |-> F[i]] /\ \A i \in 1 .. Len(s) : F[i] = G!FileNode(s[i])
  BY <1>3
<1> HIDE DEF F
<1>5. ASSUME NEW i \in 1 .. Len(s) PROVE List(F[i], "node", u)
  <2> DEFINE id == G!FileId(s[i])
             name == <<s[i]>>
  <2>1. F[i] = <<G!Node(id, "File", None, id, "CERTAIN", name, 0)>>
    BY <1>4 DEF G!FileNode
  <2>2. {None, id} \ {None} \subseteq Homes(u) /\ {None, id} \ {None} \subseteq {id}
    BY <1>3 DEF Homes
  <2> HIDE DEF id, name
  <2> QED BY <2>1, <2>2, OneNode
<1>6. List(FlattenSeq(<<>> \o F), "node", u)
  BY <1>2, <1>4, <1>5, EachIsList
<1>7. ASSUME NEW h \in Homes(u) PROVE \E x \in ToSet(FlattenSeq(<<>> \o F)) : x.id = h /\ x.kind = "File"
  <2>1. PICK p \in ToSet(s) : h = G!FileId(p)
    BY DEF Homes
  <2>2. PICK i \in 1 .. Len(s) : p = s[i]
    BY <1>3, <2>1 DEF ToSet
  <2> DEFINE x == G!Node(G!FileId(p), "File", None, G!FileId(p), "CERTAIN", <<p>>, 0)
  <2>3. F[i] = <<x>> /\ x.id = h /\ x.kind = "File"
    BY <1>4, <2>1, <2>2 DEF G!FileNode, G!Node
  <2> HIDE DEF x
  <2>4. IsSeq(<<x>>) /\ Len(<<x>>) = 1 /\ <<x>>[1] = x
    BY ShortSeqs
  <2>5. x \in ToSet(F[i])
    <3> DEFINE one == <<x>>
    <3> HIDE DEF one
    <3>1. IsSeq(one) /\ 1 \in 1 .. Len(one) /\ one[1] = x
      BY <2>4 DEF one
    <3>2. x \in ToSet(one)
      BY <3>1, MembersAre
    <3> QED BY <2>3, <3>2 DEF one
  <2>6. <<>> \o F = F /\ IsSeq(F) /\ Len(F) = Len(s)
    BY <1>2, <1>4, MapIs
  <2>7. \A k \in 1 .. Len(F) : IsSeq(F[k])
    BY <1>5, <2>6 DEF List
  <2>8. \A y : y \in ToSet(FlattenSeq(F)) <=> \E k \in 1 .. Len(F) : y \in ToSet(F[k])
    BY <2>6, <2>7, FlattenHolds
  <2> QED BY <2>2, <2>3, <2>5, <2>6, <2>8
<1> QED BY <1>1, <1>6, <1>7

\* Nodes of manifests and of what they depend on.
LEMMA ManifestNodesAre ==
  ASSUME NEW u, Universally(u)
  PROVE  List(G!FirstOfEach(G!Each(u.manifests, G!ManifestNodes), G!ById), "node", u)
<1> DEFINE s == u.manifests
           F == [i \in DOMAIN s |-> G!ManifestNodes(s[i])]
<1>1. G!Each(u.manifests, G!ManifestNodes) = FlattenSeq(<<>> \o F)
  BY OneFlattenSeq DEF G!Each
<1>2. IsSeq(s)
  BY DEF Universally
<1>3. DOMAIN s = 1 .. Len(s) /\ \A i \in 1 .. Len(s) : s[i] \in ToSet(s)
  BY <1>2, MembersAre
<1>4. F = [i \in DOMAIN s |-> F[i]] /\ \A i \in 1 .. Len(s) : F[i] = G!ManifestNodes(s[i])
  BY <1>3
<1> HIDE DEF F
<1>5. ASSUME NEW i \in 1 .. Len(s) PROVE List(F[i], "node", u)
  <2> DEFINE m == s[i]
             file == G!FileId(m.path)
             t == m.dependencies
             H == [k \in DOMAIN t |-> <<G!Node(G!DependencyId(m.ecosystem, t[k]), "Dependency", None, file,
                                               "INFERRED", t[k], 0)>>]
             id == G!ManifestId(m.path)
             name == <<m.path>>
             one == <<G!Node(id, "Manifest", file, file, "CERTAIN", name, 0)>>
  <2>1. file \in Homes(u) /\ IsSeq(t)
    BY <1>3 DEF Universally
  <2>2. F[i] = one \o FlattenSeq(<<>> \o H)
    BY <1>4, OneFlattenSeq DEF G!ManifestNodes, G!Each
  <2>3. DOMAIN t = 1 .. Len(t)
    BY <2>1, SeqIs
  <2>4. {file, file} \ {None} \subseteq Homes(u) /\ {None, file} \ {None} \subseteq Homes(u)
    BY <2>1
  <2> HIDE DEF file, t
  <2>5. ASSUME NEW k \in 1 .. Len(t) PROVE List(H[k], "node", u)
    <3> DEFINE di == G!DependencyId(m.ecosystem, t[k])
               dn == t[k]
    <3>1. H[k] = <<G!Node(di, "Dependency", None, file, "INFERRED", dn, 0)>>
      BY <2>3
    <3> HIDE DEF di, dn
    <3> QED BY <2>4, <3>1, OneNode
  <2>6. H = [k \in DOMAIN t |-> H[k]]
    OBVIOUS
  <2> HIDE DEF H
  <2>7. List(FlattenSeq(<<>> \o H), "node", u)
    BY <2>1, <2>5, <2>6, EachIsList
  <2>8. List(one, "node", u)
    <3> HIDE DEF id, name
    <3> QED BY <2>4, OneNode
  <2> HIDE DEF one
  <2> QED BY <2>2, <2>7, <2>8, BothAreList
<1>6. List(FlattenSeq(<<>> \o F), "node", u)
  BY <1>2, <1>4, <1>5, EachIsList
<1> QED BY <1>1, <1>6, FirstsAreList

\* Nodes of technologies.
LEMMA TechnologyNodesAre ==
  ASSUME NEW u, Universally(u)
  PROVE  List(G!Each(u.technologies, G!TechnologyNode), "node", u)
<1> DEFINE s == u.technologies
           F == [i \in DOMAIN s |-> G!TechnologyNode(s[i])]
<1>1. G!Each(u.technologies, G!TechnologyNode) = FlattenSeq(<<>> \o F)
  BY OneFlattenSeq DEF G!Each
<1>2. IsSeq(s)
  BY DEF Universally
<1>3. DOMAIN s = 1 .. Len(s) /\ \A i \in 1 .. Len(s) : s[i] \in ToSet(s)
  BY <1>2, MembersAre
<1>4. F = [i \in DOMAIN s |-> F[i]] /\ \A i \in 1 .. Len(s) : F[i] = G!TechnologyNode(s[i])
  BY <1>3
<1> HIDE DEF F
<1>5. ASSUME NEW i \in 1 .. Len(s) PROVE List(F[i], "node", u)
  <2> DEFINE t == s[i]
             proof == IF t.evidence = <<>> THEN None ELSE G!FileId(Head(t.evidence))
             id == G!TechnologyId(t)
             name == t.name
             confidence == t.confidence
  <2>1. F[i] = <<G!Node(id, "Technology", proof, proof, confidence, name, 0)>>
    BY <1>4 DEF G!TechnologyNode
  <2>2. {proof, proof} \ {None} \subseteq Homes(u)
    BY <1>3 DEF Universally
  <2> HIDE DEF proof, id, name, confidence
  <2> QED BY <2>1, <2>2, OneNode
<1>6. List(FlattenSeq(<<>> \o F), "node", u)
  BY <1>2, <1>4, <1>5, EachIsList
<1> QED BY <1>1, <1>6

\* The elements that are kept.
LEMMA KeptAre ==
  ASSUME NEW a, IsSeq(a.elements)
  PROVE  IsSeq(G!KeptElements(a))
<1> DEFINE s == a.elements
           keys == [i \in DOMAIN s |-> <<s[i].kind, s[i].name>>]
           P == {i \in 1 .. Len(s) : \A j \in 1 .. i - 1 : keys[j] # keys[i]}
<1>1. G!KeptElements(a) = FlattenSeq([i \in DOMAIN s |-> IF \A j \in 1 .. i - 1 : keys[j] # keys[i]
                                                         THEN <<s[i]>> ELSE <<>>])
  BY OneFlattenSeq DEF G!KeptElements, G!FirstOfEach
<1>2. DOMAIN s = 1 .. Len(s)
  BY SeqIs
<1> HIDE DEF keys
<1>3. [i \in DOMAIN s |-> IF \A j \in 1 .. i - 1 : keys[j] # keys[i] THEN <<s[i]>> ELSE <<>>]
      = [i \in DOMAIN s |-> IF i \in P THEN <<s[i]>> ELSE <<>>]
  BY <1>2
<1>4. G!KeptElements(a) = Picked(s, P)
  BY <1>1, <1>3 DEF Picked
<1>5. P \subseteq 1 .. Len(s)
  OBVIOUS
<1> HIDE DEF P
<1> QED BY <1>4, <1>5, PickedIs

\* Nodes of the elements of artifacts.
LEMMA ElementNodesAre ==
  ASSUME NEW u, Universally(u)
  PROVE  List(G!Each(u.artifacts, G!ElementNodes), "node", u)
<1> DEFINE s == u.artifacts
           F == [i \in DOMAIN s |-> G!ElementNodes(s[i])]
<1>1. G!Each(u.artifacts, G!ElementNodes) = FlattenSeq(<<>> \o F)
  BY OneFlattenSeq DEF G!Each
<1>2. IsSeq(s)
  BY DEF Universally
<1>3. DOMAIN s = 1 .. Len(s) /\ \A i \in 1 .. Len(s) : s[i] \in ToSet(s)
  BY <1>2, MembersAre
<1>4. F = [i \in DOMAIN s |-> F[i]] /\ \A i \in 1 .. Len(s) : F[i] = G!ElementNodes(s[i])
  BY <1>3
<1> HIDE DEF F
<1>5. ASSUME NEW i \in 1 .. Len(s) PROVE List(F[i], "node", u)
  <2> DEFINE a == s[i]
             file == G!FileId(a.path)
             t == G!KeptElements(a)
             H == [k \in DOMAIN t |-> <<G!Node(G!ElementId(a.path, t[k]), "ArtifactElement", file, file,
                                               "CERTAIN", t[k].name, 0)>>]
  <2>1. file \in Homes(u) /\ IsSeq(a.elements)
    BY <1>3 DEF Universally
  <2>2. F[i] = FlattenSeq(<<>> \o H)
    BY <1>4, OneFlattenSeq DEF G!ElementNodes, G!Each
  <2>3. IsSeq(t)
    BY <2>1, KeptAre
  <2>4. DOMAIN t = 1 .. Len(t)
    BY <2>3, SeqIs
  <2>5. {file, file} \ {None} \subseteq Homes(u)
    BY <2>1
  <2> HIDE DEF file, t
  <2>6. ASSUME NEW k \in 1 .. Len(t) PROVE List(H[k], "node", u)
    <3> DEFINE di == G!ElementId(a.path, t[k])
               dn == t[k].name
    <3>1. H[k] = <<G!Node(di, "ArtifactElement", file, file, "CERTAIN", dn, 0)>>
      BY <2>4
    <3> HIDE DEF di, dn
    <3> QED BY <2>5, <3>1, OneNode
  <2>7. H = [k \in DOMAIN t |-> H[k]]
    OBVIOUS
  <2> HIDE DEF H
  <2> QED BY <2>2, <2>3, <2>6, <2>7, EachIsList
<1>6. List(FlattenSeq(<<>> \o F), "node", u)
  BY <1>2, <1>4, <1>5, EachIsList
<1> QED BY <1>1, <1>6

\* Nodes of variables that artifacts supply.
LEMMA SuppliedVariablesAre ==
  ASSUME NEW u, Universally(u), NEW read
  PROVE  List(G!SuppliedVariables(u, read), "node", u)
<1> DEFINE s == u.artifacts
           H == [i \in DOMAIN s |-> [k \in DOMAIN s[i].references |->
                   IF s[i].references[k].kind = "environment"
                      /\ s[i].references[k].text \notin Unaddressable \cup read
                   THEN <<G!Node(G!VariableId(s[i].references[k].text), "EnvironmentVariable", None,
                                 G!FileId(s[i].path), "CERTAIN", s[i].references[k].text, 0)>>
                   ELSE <<>>]]
           F == [i \in DOMAIN s |-> FlattenSeq(<<>> \o H[i])]
           all == FlattenSeq(<<>> \o F)
<1>1. G!SuppliedVariables(u, read) = G!FirstOfEach(all, G!ById)
  BY OneFlattenSeq DEF G!SuppliedVariables, G!Each
<1>2. IsSeq(s)
  BY DEF Universally
<1>3. DOMAIN s = 1 .. Len(s) /\ \A i \in 1 .. Len(s) : s[i] \in ToSet(s)
  BY <1>2, MembersAre
<1>4. F = [i \in DOMAIN s |-> F[i]] /\ \A i \in 1 .. Len(s) : F[i] = FlattenSeq(<<>> \o H[i])
  BY <1>3
<1>5. ASSUME NEW i \in 1 .. Len(s) PROVE List(F[i], "node", u)
  <2> DEFINE file == G!FileId(s[i].path)
             t == s[i].references
             h == H[i]
  <2>1. file \in Homes(u) /\ IsSeq(t)
    BY <1>3 DEF Universally
  <2>2. DOMAIN t = 1 .. Len(t)
    BY <2>1, SeqIs
  <2>3. {None, file} \ {None} \subseteq Homes(u)
    BY <2>1
  <2>4. h = [k \in DOMAIN t |->
               IF t[k].kind = "environment" /\ t[k].text \notin Unaddressable \cup read
               THEN <<G!Node(G!VariableId(t[k].text), "EnvironmentVariable", None, file, "CERTAIN", t[k].text, 0)>>
               ELSE <<>>]
    BY <1>3
  <2>5. F[i] = FlattenSeq(<<>> \o h)
    BY <1>4
  <2> HIDE DEF file, t, h
  <2>6. ASSUME NEW k \in 1 .. Len(t) PROVE List(h[k], "node", u)
    <3> DEFINE di == G!VariableId(t[k].text)
               dn == t[k].text
    <3>1. h[k] = <<G!Node(di, "EnvironmentVariable", None, file, "CERTAIN", dn, 0)>> \/ h[k] = <<>>
      BY <2>2, <2>4
    <3> HIDE DEF di, dn
    <3>2. List(<<G!Node(di, "EnvironmentVariable", None, file, "CERTAIN", dn, 0)>>, "node", u)
      BY <2>3, OneNode
    <3>3. List(<<>>, "node", u)
      BY NothingIsList
    <3> QED BY <3>1, <3>2, <3>3
  <2>7. h = [k \in DOMAIN t |-> h[k]]
    BY <2>4
  <2>8. List(FlattenSeq(<<>> \o h), "node", u)
    BY <2>1, <2>6, <2>7, EachIsList
  <2> QED BY <2>5, <2>8
<1> HIDE DEF F
<1>6. List(all, "node", u)
  BY <1>2, <1>4, <1>5, EachIsList
<1> QED BY <1>1, <1>6, FirstsAreList

\* Nodes of declarations.
LEMMA DeclarationNodesAre ==
  ASSUME NEW u, NEW s, IsSeq(s),
         \A d \in ToSet(s) : G!FileId(d.file) \in Homes(u) /\ d.kind \in G!Declarations /\ IsSeq(d.at)
  PROVE  List(G!Each(s, G!DeclarationNode), "node", u)
<1> DEFINE F == [i \in DOMAIN s |-> G!DeclarationNode(s[i])]
<1>1. G!Each(s, G!DeclarationNode) = FlattenSeq(<<>> \o F)
  BY OneFlattenSeq DEF G!Each
<1>3. DOMAIN s = 1 .. Len(s) /\ \A i \in 1 .. Len(s) : s[i] \in ToSet(s)
  BY MembersAre
<1>4. F = [i \in DOMAIN s |-> F[i]] /\ \A i \in 1 .. Len(s) : F[i] = G!DeclarationNode(s[i])
  BY <1>3
<1> HIDE DEF F
<1>5. ASSUME NEW i \in 1 .. Len(s) PROVE List(F[i], "node", u)
  <2> DEFINE d == s[i]
             file == G!FileId(d.file)
             id == G!DeclarationId(d)
             name == d.chain
             kind == d.kind
             n == Len(d.at)
  <2>1. F[i] = <<G!Node(id, kind, file, file, "CERTAIN", name, n)>>
    BY <1>4 DEF G!DeclarationNode
  <2>2. {file, file} \ {None} \subseteq Homes(u) /\ kind \in G!Declarations /\ IsSeq(d.at)
    BY <1>3
  <2>3. kind # "File"
    BY <2>2 DEF G!Declarations
  <2>4. n \in Nat
    BY <2>2, SeqIs
  <2> HIDE DEF file, id, name, kind, n
  <2> QED BY <2>1, <2>2, <2>3, <2>4, OneNode
<1>6. List(FlattenSeq(<<>> \o F), "node", u)
  BY <1>4, <1>5, EachIsList
<1> QED BY <1>1, <1>6

MergedNode(rows, first) ==
  LET all   == FlattenSeq([i \in DOMAIN rows |-> IF rows[i].id = first.id THEN <<rows[i]>> ELSE <<>>])
      alone == \A r \in G!ToSet(all) : r.file = first.file
  IN  [first EXCEPT !.confidence = G!Strongest({r.confidence : r \in G!ToSet(all)}),
                    !.file = IF alone THEN @ ELSE None,
                    !.home = IF alone THEN @ ELSE None,
                    !.places = @ * Len(all)]

\* What several nodes with one identifier are merged to is a node.
LEMMA MergedIsNode ==
  ASSUME NEW u, NEW rows, IsSeq(rows), NEW first, IsNode(first, u)
  PROVE  IsNode(MergedNode(rows, first), u)
<1> DEFINE F == [i \in DOMAIN rows |-> IF rows[i].id = first.id THEN <<rows[i]>> ELSE <<>>]
           P == {i \in 1 .. Len(rows) : rows[i].id = first.id}
           all == FlattenSeq(F)
           alone == \A r \in G!ToSet(all) : r.file = first.file
           c == G!Strongest({r.confidence : r \in G!ToSet(all)})
           n == Len(all)
           file == IF alone THEN first.file ELSE None
           home == IF alone THEN first.home ELSE None
           places == first.places * n
           x == [first EXCEPT !.confidence = c, !.file = file, !.home = home, !.places = places]
<1>1. DOMAIN rows = 1 .. Len(rows)
  BY SeqIs
<1>2. F = [i \in DOMAIN rows |-> IF i \in P THEN <<rows[i]>> ELSE <<>>] /\ P \subseteq 1 .. Len(rows)
  BY <1>1
<1>3. all = Picked(rows, P)
  BY <1>2 DEF Picked
<1>4. IsSeq(all)
  <2> HIDE DEF F, P, all
  <2> QED BY <1>2, <1>3, PickedIs
<1>5. n \in Nat
  BY <1>4, SeqIs
<1>6. MergedNode(rows, first) = x
  BY DEF MergedNode
<1> HIDE DEF F, P, all, c, alone, n
<1>7. first = [id |-> first.id, kind |-> first.kind, file |-> first.file, home |-> first.home,
               confidence |-> first.confidence, name |-> first.name, places |-> first.places]
      /\ first.places \in Nat
  BY DEF IsNode, G!Node
<1>8. x = [id |-> first.id, kind |-> first.kind, file |-> file, home |-> home,
           confidence |-> c, name |-> first.name, places |-> places]
  <2> DEFINE id == first.id
             kind == first.kind
             name == first.name
             f == first.file
             h == first.home
             o == first.confidence
             p == first.places
  <2>1. first = [id |-> id, kind |-> kind, file |-> f, home |-> h, confidence |-> o, name |-> name, places |-> p]
    BY <1>7
  <2> HIDE DEF file, home, places, id, kind, name, f, h, o, p
  <2> DEFINE x1 == [first EXCEPT !.confidence = c]
             x2 == [x1 EXCEPT !.file = file]
             x3 == [x2 EXCEPT !.home = home]
             x4 == [x3 EXCEPT !.places = places]
  <2>2. x = x4
    OBVIOUS
  <2>3. x1 = [id |-> id, kind |-> kind, file |-> f, home |-> h, confidence |-> c, name |-> name, places |-> p]
    BY <2>1
  <2> HIDE DEF x1
  <2>4. x2 = [id |-> id, kind |-> kind, file |-> file, home |-> h, confidence |-> c, name |-> name, places |-> p]
    BY <2>3
  <2> HIDE DEF x2
  <2>5. x3 = [id |-> id, kind |-> kind, file |-> file, home |-> home, confidence |-> c, name |-> name,
              places |-> p]
    BY <2>4
  <2> HIDE DEF x3
  <2>6. x4 = [id |-> id, kind |-> kind, file |-> file, home |-> home, confidence |-> c, name |-> name,
              places |-> places]
    BY <2>5
  <2> QED BY <2>2, <2>6 DEF id, kind, name
<1>9. /\ x.id = first.id /\ x.kind = first.kind /\ x.file = file /\ x.home = home /\ x.places = first.places * n
      /\ x = G!Node(x.id, x.kind, x.file, x.home, x.confidence, x.name, x.places)
  BY <1>8 DEF G!Node
<1> HIDE DEF x
<1>10. \A a, b \in Nat : a * b \in Nat
  OBVIOUS
<1>11. x.places \in Nat
  BY <1>5, <1>7, <1>9, <1>10
<1>12. {x.file, x.home} \ {None} \subseteq {first.file, first.home} \ {None}
  BY <1>9
<1>13. IsNode(x, u)
  BY <1>9, <1>11, <1>12 DEF IsNode
<1> QED BY <1>6, <1>13

\* Pooled nodes are nodes.
LEMMA PooledAre ==
  ASSUME NEW u, NEW rows, List(rows, "node", u)
  PROVE  List(G!Pooled(rows), "node", u)
<1> DEFINE t == G!FirstOfEach(rows, G!ById)
           H == [k \in DOMAIN t |-> <<MergedNode(rows, t[k])>>]
<1>1. G!Pooled(rows) = FlattenSeq(<<>> \o H)
  BY OneFlattenSeq DEF G!Pooled, G!Each, G!Selected, MergedNode
<1>2. List(t, "node", u) /\ IsSeq(rows)
  BY FirstsAreList DEF List
<1> HIDE DEF t
<1>3. DOMAIN t = 1 .. Len(t) /\ \A k \in 1 .. Len(t) : t[k] \in ToSet(t)
  BY <1>2, MembersAre DEF List
<1>4. ASSUME NEW k \in 1 .. Len(t) PROVE List(H[k], "node", u)
  <2> DEFINE x == MergedNode(rows, t[k])
  <2>1. IsNode(t[k], u)
    BY <1>2, <1>3 DEF List, Fits
  <2>2. Fits(x, "node", u)
    BY <1>2, <2>1, MergedIsNode DEF Fits
  <2>3. H[k] = <<x>>
    BY <1>3
  <2> HIDE DEF x
  <2> QED BY <2>2, <2>3, OneIsList
<1>5. H = [k \in DOMAIN t |-> H[k]]
  OBVIOUS
<1> HIDE DEF H
<1>6. IsSeq(t)
  BY <1>2 DEF List
<1> QED BY <1>1, <1>4, <1>5, <1>6, EachIsList

\* Nodes of what is outside the repository.
LEMMA ExternalNodesAre ==
  ASSUME NEW u, NEW relationships, IsSeq(relationships), NEW externalCalls, IsSeq(externalCalls)
  PROVE  List(G!RegisterExternals(relationships, externalCalls), "node", u)
<1> DEFINE E(id, confidence) == <<G!Node(id, "External", None, None, confidence, Tail(id), 0)>>
           F == [i \in DOMAIN relationships |->
                   IF relationships[i].external
                   THEN E(G!TargetIdentity(relationships[i]), relationships[i].confidence) ELSE <<>>]
           H == [i \in DOMAIN externalCalls |->
                   E(G!ExternalId(externalCalls[i].target, externalCalls[i].name), externalCalls[i].confidence)]
<1>1. G!RegisterExternals(relationships, externalCalls)
      = G!Pooled(FlattenSeq(<<>> \o F) \o FlattenSeq(<<>> \o H))
  BY OneFlattenSeq DEF G!RegisterExternals, G!Each
<1>2. \A id, confidence : List(E(id, confidence), "node", u)
  <2> TAKE id, confidence
  <2> DEFINE name == Tail(id)
  <2>1. {None, None} \ {None} \subseteq Homes(u)
    OBVIOUS
  <2> HIDE DEF name
  <2>2. List(<<G!Node(id, "External", None, None, confidence, name, 0)>>, "node", u)
    BY <2>1, OneNode
  <2> QED BY <2>2 DEF name
<1>3. DOMAIN relationships = 1 .. Len(relationships) /\ DOMAIN externalCalls = 1 .. Len(externalCalls)
  BY SeqIs
<1> HIDE DEF E
<1>4. \A i \in 1 .. Len(relationships) : List(F[i], "node", u)
  BY <1>2, <1>3, NothingIsList
<1>5. \A i \in 1 .. Len(externalCalls) : List(H[i], "node", u)
  BY <1>2, <1>3
<1>6. F = [i \in DOMAIN relationships |-> F[i]] /\ H = [i \in DOMAIN externalCalls |-> H[i]]
  OBVIOUS
<1> HIDE DEF F, H
<1>7. List(FlattenSeq(<<>> \o F), "node", u)
  BY <1>4, <1>6, EachIsList
<1>8. List(FlattenSeq(<<>> \o H), "node", u)
  BY <1>5, <1>6, EachIsList
<1> DEFINE f == FlattenSeq(<<>> \o F)
           h == FlattenSeq(<<>> \o H)
           both == f \o h
<1> HIDE DEF f, h
<1>9. List(both, "node", u)
  BY <1>7, <1>8, BothAreList DEF f, h
<1> HIDE DEF both
<1>10. List(G!Pooled(both), "node", u)
  BY <1>9, PooledAre
<1> QED BY <1>1, <1>10 DEF both, f, h

\* Nodes of routes.
LEMMA RouteNodesAre ==
  ASSUME NEW u, NEW s, IsSeq(s), \A r \in ToSet(s) : r.home \in Homes(u)
  PROVE  List(G!Pooled(G!Each(s, G!RouteNode)), "node", u)
<1> DEFINE F == [i \in DOMAIN s |-> G!RouteNode(s[i])]
<1>1. G!Each(s, G!RouteNode) = FlattenSeq(<<>> \o F)
  BY OneFlattenSeq DEF G!Each
<1>3. DOMAIN s = 1 .. Len(s) /\ \A i \in 1 .. Len(s) : s[i] \in ToSet(s)
  BY MembersAre
<1>4. F = [i \in DOMAIN s |-> F[i]] /\ \A i \in 1 .. Len(s) : F[i] = G!RouteNode(s[i])
  BY <1>3
<1> HIDE DEF F
<1>5. ASSUME NEW i \in 1 .. Len(s) PROVE List(F[i], "node", u)
  <2> DEFINE r == s[i]
             home == r.home
             id == G!RouteId(r.method, r.path)
             name == <<r.method>> \o r.path
             confidence == r.confidence
  <2>1. F[i] = <<>> \/ F[i] = <<G!Node(id, "Route", home, home, confidence, name, 1)>>
    BY <1>4 DEF G!RouteNode
  <2>2. {home, home} \ {None} \subseteq Homes(u)
    BY <1>3
  <2> HIDE DEF home, id, name, confidence
  <2>3. List(<<G!Node(id, "Route", home, home, confidence, name, 1)>>, "node", u)
    BY <2>2, OneNode
  <2> QED BY <2>1, <2>3, NothingIsList
<1>6. List(FlattenSeq(<<>> \o F), "node", u)
  BY <1>4, <1>5, EachIsList
<1> QED BY <1>1, <1>6, PooledAre

\* Nodes of variables that code reads.
LEMMA VariableNodesAre ==
  ASSUME NEW u, NEW s, IsSeq(s)
  PROVE  List(G!Pooled(G!Each(s, G!VariableNode)), "node", u)
<1> DEFINE F == [i \in DOMAIN s |-> G!VariableNode(s[i])]
<1>1. G!Each(s, G!VariableNode) = FlattenSeq(<<>> \o F)
  BY OneFlattenSeq DEF G!Each
<1>3. DOMAIN s = 1 .. Len(s)
  BY SeqIs
<1>4. F = [i \in DOMAIN s |-> F[i]] /\ \A i \in 1 .. Len(s) : F[i] = G!VariableNode(s[i])
  BY <1>3
<1> HIDE DEF F
<1>5. ASSUME NEW i \in 1 .. Len(s) PROVE List(F[i], "node", u)
  <2> DEFINE v == s[i]
             id == G!VariableId(v.name)
             name == v.name
             confidence == v.confidence
  <2>1. F[i] = <<>> \/ F[i] = <<G!Node(id, "EnvironmentVariable", None, None, confidence, name, 1)>>
    BY <1>4 DEF G!VariableNode
  <2>2. {None, None} \ {None} \subseteq Homes(u)
    OBVIOUS
  <2> HIDE DEF id, name, confidence
  <2>3. List(<<G!Node(id, "EnvironmentVariable", None, None, confidence, name, 1)>>, "node", u)
    BY <2>2, OneNode
  <2> QED BY <2>1, <2>3, NothingIsList
<1>6. List(FlattenSeq(<<>> \o F), "node", u)
  BY <1>4, <1>5, EachIsList
<1> QED BY <1>1, <1>6, PooledAre

\* All nodes of a graph, the parts in the order they are in.
LEMMA NodesAre ==
  ASSUME NEW u, NEW analyses, Universally(u), Analysed(u, analyses)
  PROVE  /\ List(G!Build(u, analyses).nodes, "node", u)
         /\ \A h \in Homes(u) : \E x \in ToSet(G!Build(u, analyses).nodes) : x.id = h /\ x.kind = "File"
<1> DEFINE d == G!Gathered(analyses, "declarations")
           relationships == G!Gathered(analyses, "relationships")
           external == G!Gathered(analyses, "externalCalls")
           routes == G!Gathered(analyses, "routes")
           reads == G!Gathered(analyses, "reads")
           read == {v.name : v \in G!ToSet(reads)}
           N1 == G!Each(u.files, G!FileNode)
           N2 == G!FirstOfEach(G!Each(u.manifests, G!ManifestNodes), G!ById)
           N3 == G!Each(u.technologies, G!TechnologyNode)
           N4 == G!Each(u.artifacts, G!ElementNodes)
           N5 == G!SuppliedVariables(u, read)
           N6 == G!Each(d, G!DeclarationNode)
           N7 == G!RegisterExternals(relationships, external)
           N8 == G!Pooled(G!Each(routes, G!RouteNode))
           N9 == G!Pooled(G!Each(reads, G!VariableNode))
           A2 == N1 \o N2
           A3 == A2 \o N3
           A4 == A3 \o N4
           A5 == A4 \o N5
           A6 == A5 \o N6
           A7 == A6 \o N7
           A8 == A7 \o N8
           A9 == A8 \o N9
<1>1. G!Build(u, analyses).nodes = A9
  BY DEF G!Build
<1>2. IsSeq(d) /\ IsSeq(relationships) /\ IsSeq(external) /\ IsSeq(routes) /\ IsSeq(reads)
  BY DEF Analysed, Fields
<1>3. List(N1, "node", u) /\ \A h \in Homes(u) : \E x \in ToSet(N1) : x.id = h /\ x.kind = "File"
  BY FileNodesAre
<1>4. List(N2, "node", u)
  BY ManifestNodesAre
<1>5. List(N3, "node", u)
  BY TechnologyNodesAre
<1>6. List(N4, "node", u)
  BY ElementNodesAre
<1>7. List(N5, "node", u)
  <2> HIDE DEF read
  <2> QED BY SuppliedVariablesAre
<1>8. List(N6, "node", u)
  <2>1. \A x \in ToSet(d) : G!FileId(x.file) \in Homes(u) /\ x.kind \in G!Declarations /\ IsSeq(x.at)
    BY DEF Analysed
  <2> HIDE DEF d
  <2> QED BY <1>2, <2>1, DeclarationNodesAre
<1>9. List(N7, "node", u)
  <2> HIDE DEF relationships, external
  <2> QED BY <1>2, ExternalNodesAre
<1>10. List(N8, "node", u)
  <2>1. \A r \in ToSet(routes) : r.home \in Homes(u)
    BY DEF Analysed
  <2> HIDE DEF routes
  <2> QED BY <1>2, <2>1, RouteNodesAre
<1>11. List(N9, "node", u)
  <2> HIDE DEF reads
  <2> QED BY <1>2, VariableNodesAre
<1> HIDE DEF N1, N2, N3, N4, N5, N6, N7, N8, N9
<1>12. List(A2, "node", u) /\ ToSet(N1) \subseteq ToSet(A2)
  BY <1>3, <1>4, BothAreList, BothHold DEF List
<1> HIDE DEF A2
<1>13. List(A3, "node", u) /\ ToSet(A2) \subseteq ToSet(A3)
  BY <1>12, <1>5, BothAreList, BothHold DEF List
<1> HIDE DEF A3
<1>14. List(A4, "node", u) /\ ToSet(A3) \subseteq ToSet(A4)
  BY <1>13, <1>6, BothAreList, BothHold DEF List
<1> HIDE DEF A4
<1>15. List(A5, "node", u) /\ ToSet(A4) \subseteq ToSet(A5)
  BY <1>14, <1>7, BothAreList, BothHold DEF List
<1> HIDE DEF A5
<1>16. List(A6, "node", u) /\ ToSet(A5) \subseteq ToSet(A6)
  BY <1>15, <1>8, BothAreList, BothHold DEF List
<1> HIDE DEF A6
<1>17. List(A7, "node", u) /\ ToSet(A6) \subseteq ToSet(A7)
  BY <1>16, <1>9, BothAreList, BothHold DEF List
<1> HIDE DEF A7
<1>18. List(A8, "node", u) /\ ToSet(A7) \subseteq ToSet(A8)
  BY <1>17, <1>10, BothAreList, BothHold DEF List
<1> HIDE DEF A8
<1>19. List(A9, "node", u) /\ ToSet(A8) \subseteq ToSet(A9)
  BY <1>18, <1>11, BothAreList, BothHold DEF List
<1> HIDE DEF A9
<1>20. ToSet(N1) \subseteq ToSet(A9)
  BY <1>12, <1>13, <1>14, <1>15, <1>16, <1>17, <1>18, <1>19
<1> QED BY <1>1, <1>3, <1>19, <1>20

-----------------------------------------------------------------------------
(* The edges *)

\* Sequences, one for each member, together are a sequence.
LEMMA EachIsSeq ==
  ASSUME NEW s, IsSeq(s), NEW F, F = [i \in DOMAIN s |-> F[i]], \A i \in 1 .. Len(s) : IsSeq(F[i])
  PROVE  IsSeq(FlattenSeq(<<>> \o F))
<1> DEFINE u == 0
           what == "any"
<1>1. \A t : List(t, what, u) <=> IsSeq(t)
  BY DEF List, Fits
<1> HIDE DEF u, what
<1>2. \A i \in 1 .. Len(s) : List(F[i], what, u)
  BY <1>1
<1>3. List(FlattenSeq(<<>> \o F), what, u)
  BY <1>2, EachIsList
<1> QED BY <1>1, <1>3

\* The first of each identifier is a sequence.
LEMMA FirstsAreSeq ==
  ASSUME NEW s, IsSeq(s)
  PROVE  IsSeq(G!FirstOfEach(s, G!ById))
<1>1. G!FirstOfEach(s, G!ById) = Picked(s, Firsts(s))
  BY FirstOfEachIs
<1>2. Firsts(s) \subseteq 1 .. Len(s)
  BY DEF Firsts
<1> QED BY <1>1, <1>2, PickedIs

\* Edges of manifests to what they depend on.
LEMMA DependencyEdgesAre ==
  ASSUME NEW u, Universally(u)
  PROVE  IsSeq(G!Each(u.manifests, G!DependencyEdges))
<1> DEFINE s == u.manifests
           F == [i \in DOMAIN s |-> G!DependencyEdges(s[i])]
<1>1. G!Each(u.manifests, G!DependencyEdges) = FlattenSeq(<<>> \o F)
  BY OneFlattenSeq DEF G!Each
<1>2. IsSeq(s)
  BY DEF Universally
<1>3. DOMAIN s = 1 .. Len(s) /\ \A i \in 1 .. Len(s) : s[i] \in ToSet(s)
  BY <1>2, MembersAre
<1>4. F = [i \in DOMAIN s |-> F[i]] /\ \A i \in 1 .. Len(s) : F[i] = G!DependencyEdges(s[i])
  BY <1>3
<1> HIDE DEF F
<1>5. ASSUME NEW i \in 1 .. Len(s) PROVE IsSeq(F[i])
  <2> DEFINE m == s[i]
             t == m.dependencies
             E(name) == G!EdgeOf(<<"DEPENDS_ON", G!ManifestId(m.path), G!DependencyId(m.ecosystem, name)>>,
                                 "DEPENDS_ON", G!ManifestId(m.path), G!DependencyId(m.ecosystem, name),
                                 G!FileId(m.path))
             H == [k \in DOMAIN t |-> <<E(t[k])>>]
  <2>1. IsSeq(t)
    BY <1>3 DEF Universally
  <2>2. F[i] = FlattenSeq(<<>> \o H)
    BY <1>4, OneFlattenSeq DEF G!DependencyEdges, G!Each
  <2>3. DOMAIN t = 1 .. Len(t)
    BY <2>1, SeqIs
  <2> HIDE DEF t, E
  <2>4. \A k \in 1 .. Len(t) : IsSeq(H[k])
    BY <2>3, ShortSeqs
  <2>5. H = [k \in DOMAIN t |-> H[k]]
    OBVIOUS
  <2> HIDE DEF H
  <2> QED BY <2>1, <2>2, <2>4, <2>5, EachIsSeq
<1>6. IsSeq(FlattenSeq(<<>> \o F))
  BY <1>2, <1>4, <1>5, EachIsSeq
<1> QED BY <1>1, <1>6

\* Edges of artifacts to their elements.
LEMMA ContainsEdgesAre ==
  ASSUME NEW a, IsSeq(a.elements)
  PROVE  IsSeq(G!ContainsEdges(a))
<1> DEFINE t == G!KeptElements(a)
           H == [k \in DOMAIN t |-> G!ArtifactEdge("CONTAINS", G!FileId(a.path), G!FileId(a.path),
                                                   G!ElementId(a.path, t[k]), a)]
<1>1. G!ContainsEdges(a) = FlattenSeq(<<>> \o H)
  BY OneFlattenSeq DEF G!ContainsEdges, G!Each
<1>2. IsSeq(t)
  BY KeptAre
<1>3. DOMAIN t = 1 .. Len(t)
  BY <1>2, SeqIs
<1> HIDE DEF t
<1>4. \A k \in 1 .. Len(t) : IsSeq(H[k])
  BY <1>3, ShortSeqs DEF G!ArtifactEdge
<1>5. H = [k \in DOMAIN t |-> H[k]]
  OBVIOUS
<1> HIDE DEF H
<1> QED BY <1>1, <1>2, <1>4, <1>5, EachIsSeq

\* Edges of elements to what they require.
LEMMA PrerequisiteEdgesAre ==
  ASSUME NEW a, IsSeq(a.elements), \A e \in ToSet(a.elements) : IsSeq(e.requires)
  PROVE  IsSeq(G!PrerequisiteEdges(a))
<1> DEFINE s == a.elements
           E(e, need) ==
             LET from == G!OfKind(a, e.kind, e.name)
             IN  IF G!Prerequisite(a, e, need) = None THEN <<>>
                 ELSE G!ArtifactEdge("DEPENDS_ON", from, from, G!Prerequisite(a, e, need), a)
           H(e) == [k \in DOMAIN e.requires |-> E(e, e.requires[k])]
           F == [i \in DOMAIN s |-> FlattenSeq(<<>> \o H(s[i]))]
<1>1. G!PrerequisiteEdges(a) = FlattenSeq(<<>> \o F)
  BY OneFlattenSeq DEF G!PrerequisiteEdges, G!Each
<1>2. \A e, need : IsSeq(E(e, need))
  BY ShortSeqs DEF G!ArtifactEdge
<1> HIDE DEF E
<1>3. DOMAIN s = 1 .. Len(s) /\ \A i \in 1 .. Len(s) : s[i] \in ToSet(s)
  BY MembersAre
<1>4. ASSUME NEW i \in 1 .. Len(s) PROVE IsSeq(F[i])
  <2> DEFINE t == s[i].requires
             h == H(s[i])
  <2>1. IsSeq(t) /\ F[i] = FlattenSeq(<<>> \o h)
    BY <1>3
  <2>2. DOMAIN t = 1 .. Len(t)
    BY <2>1, SeqIs
  <2>3. h = [k \in DOMAIN t |-> h[k]] /\ \A k \in 1 .. Len(t) : IsSeq(h[k])
    BY <1>2, <2>2
  <2> HIDE DEF t, h, F
  <2> QED BY <2>1, <2>3, EachIsSeq
<1>5. F = [i \in DOMAIN s |-> F[i]]
  OBVIOUS
<1> HIDE DEF F
<1> QED BY <1>1, <1>4, <1>5, EachIsSeq

\* Edges of artifacts to what they refer to.
LEMMA ReferenceEdgesAre ==
  ASSUME NEW u, NEW a, IsSeq(a.references)
  PROVE  IsSeq(G!ReferenceEdges(u, a))
<1> DEFINE s == a.references
           From(r) == IF G!ReferenceType(a, r) = "DOCUMENTS" THEN G!FileId(a.path) ELSE G!Source(a, r)
           Of(r) ==
             CASE r.kind = "technology" ->
                    IF G!Configured(u, a, r) = None THEN <<>>
                    ELSE G!ArtifactEdge("CONFIGURES", G!FileId(a.path), G!FileId(a.path), G!Configured(u, a, r), a)
               [] r.kind = "environment" ->
                    IF r.text \in Unaddressable THEN <<>>
                    ELSE G!ArtifactEdge("USES_ENV", G!Source(a, r), G!Source(a, r), G!VariableId(r.text), a)
               [] OTHER ->
                    IF G!Resolved(u, r) = None THEN <<>>
                    ELSE G!ArtifactEdge(G!ReferenceType(a, r), G!Source(a, r), From(r), G!Resolved(u, r), a)
           F == [i \in DOMAIN s |-> Of(s[i])]
<1>1. G!ReferenceEdges(u, a) = FlattenSeq(<<>> \o F)
  BY OneFlattenSeq DEF G!ReferenceEdges, G!Each
<1>2. \A type, from, source, target : IsSeq(G!ArtifactEdge(type, from, source, target, a))
  BY ShortSeqs DEF G!ArtifactEdge
<1>3. \A r : IsSeq(Of(r))
  <2> TAKE r
  <2>1. CASE r.kind = "technology"
    BY <1>2, <2>1, ShortSeqs
  <2>2. CASE r.kind = "environment"
    BY <1>2, <2>2, ShortSeqs
  <2>3. CASE r.kind \notin {"technology", "environment"}
    BY <1>2, <2>3, ShortSeqs
  <2> QED BY <2>1, <2>2, <2>3
<1> HIDE DEF Of
<1>4. DOMAIN s = 1 .. Len(s)
  BY SeqIs
<1>5. \A i \in 1 .. Len(s) : IsSeq(F[i])
  BY <1>3, <1>4
<1>6. F = [i \in DOMAIN s |-> F[i]]
  OBVIOUS
<1> HIDE DEF F
<1> QED BY <1>1, <1>5, <1>6, EachIsSeq

\* All edges of artifacts.
LEMMA ArtifactEdgesAre ==
  ASSUME NEW u, Universally(u)
  PROVE  IsSeq(G!ArtifactEdges(u))
<1> DEFINE s == u.artifacts
           F == [i \in DOMAIN s |-> G!ContainsEdges(s[i]) \o G!PrerequisiteEdges(s[i]) \o G!ReferenceEdges(u, s[i])]
           all == FlattenSeq(<<>> \o F)
<1>1. G!ArtifactEdges(u) = G!FirstOfEach(all, G!ById)
  BY OneFlattenSeq DEF G!ArtifactEdges, G!Each
<1>2. IsSeq(s)
  BY DEF Universally
<1>3. DOMAIN s = 1 .. Len(s) /\ \A i \in 1 .. Len(s) : s[i] \in ToSet(s)
  BY <1>2, MembersAre
<1>4. ASSUME NEW i \in 1 .. Len(s) PROVE IsSeq(F[i])
  <2> DEFINE a == s[i]
             x == G!ContainsEdges(a)
             y == G!PrerequisiteEdges(a)
             z == G!ReferenceEdges(u, a)
             xy == x \o y
  <2>1. IsSeq(a.elements) /\ IsSeq(a.references) /\ \A e \in ToSet(a.elements) : IsSeq(e.requires)
    BY <1>3 DEF Universally
  <2>2. F[i] = xy \o z
    BY <1>3
  <2>3. IsSeq(x) /\ IsSeq(y) /\ IsSeq(z)
    <3> HIDE DEF a
    <3> QED BY <2>1, ContainsEdgesAre, PrerequisiteEdgesAre, ReferenceEdgesAre
  <2> HIDE DEF x, y, z
  <2>4. IsSeq(xy)
    BY <2>3, BothHold
  <2> HIDE DEF xy, F
  <2> QED BY <2>2, <2>3, <2>4, BothHold
<1>5. F = [i \in DOMAIN s |-> F[i]]
  OBVIOUS
<1> HIDE DEF F
<1>6. IsSeq(all)
  BY <1>2, <1>4, <1>5, EachIsSeq
<1> QED BY <1>1, <1>6, FirstsAreSeq

\* One edge, or none, for each.
LEMMA PlainEdgesAre ==
  ASSUME NEW s, IsSeq(s)
  PROVE  /\ IsSeq(G!DeclaresEdges(s))
         /\ IsSeq(G!Each(s, G!RelationshipEdge))
         /\ IsSeq(G!Each(s, G!Reads))
         /\ IsSeq(G!Each(s, G!CallEdge))
         /\ IsSeq(G!Each(s, G!ExternalCallEdge))
<1>1. DOMAIN s = 1 .. Len(s)
  BY SeqIs
<1>2. IsSeq(G!DeclaresEdges(s))
  <2> DEFINE declared == {G!DeclarationId(d) : d \in G!ToSet(s)}
             E(d) == G!Edge("DECLARES", G!DeclaringNodeIdOf(d, declared), G!DeclarationId(d), <<>>,
                            G!FileId(d.file), Head(d.at))
             F == [i \in DOMAIN s |-> <<E(s[i])>>]
  <2>1. G!DeclaresEdges(s) = FlattenSeq(<<>> \o F)
    BY OneFlattenSeq DEF G!DeclaresEdges, G!Each
  <2> HIDE DEF E
  <2>2. F = [i \in DOMAIN s |-> F[i]] /\ \A i \in 1 .. Len(s) : IsSeq(F[i])
    BY <1>1, ShortSeqs
  <2> HIDE DEF F
  <2> QED BY <2>1, <2>2, EachIsSeq
<1>3. IsSeq(G!Each(s, G!RelationshipEdge))
  <2> DEFINE F == [i \in DOMAIN s |-> G!RelationshipEdge(s[i])]
  <2>1. G!Each(s, G!RelationshipEdge) = FlattenSeq(<<>> \o F)
    BY OneFlattenSeq DEF G!Each
  <2>3. \A r : IsSeq(G!RelationshipEdge(r))
    BY ShortSeqs DEF G!RelationshipEdge
  <2>2. F = [i \in DOMAIN s |-> F[i]] /\ \A i \in 1 .. Len(s) : IsSeq(F[i])
    BY <1>1, <2>3
  <2> HIDE DEF F
  <2> QED BY <2>1, <2>2, EachIsSeq
<1>4. IsSeq(G!Each(s, G!Reads))
  <2> DEFINE F == [i \in DOMAIN s |-> G!Reads(s[i])]
  <2>1. G!Each(s, G!Reads) = FlattenSeq(<<>> \o F)
    BY OneFlattenSeq DEF G!Each
  <2>3. \A r : IsSeq(G!Reads(r))
    BY ShortSeqs DEF G!Reads
  <2>2. F = [i \in DOMAIN s |-> F[i]] /\ \A i \in 1 .. Len(s) : IsSeq(F[i])
    BY <1>1, <2>3
  <2> HIDE DEF F
  <2> QED BY <2>1, <2>2, EachIsSeq
<1>5. IsSeq(G!Each(s, G!CallEdge))
  <2> DEFINE F == [i \in DOMAIN s |-> G!CallEdge(s[i])]
  <2>1. G!Each(s, G!CallEdge) = FlattenSeq(<<>> \o F)
    BY OneFlattenSeq DEF G!Each
  <2>3. \A r : IsSeq(G!CallEdge(r))
    BY ShortSeqs DEF G!CallEdge
  <2>2. F = [i \in DOMAIN s |-> F[i]] /\ \A i \in 1 .. Len(s) : IsSeq(F[i])
    BY <1>1, <2>3
  <2> HIDE DEF F
  <2> QED BY <2>1, <2>2, EachIsSeq
<1>6. IsSeq(G!Each(s, G!ExternalCallEdge))
  <2> DEFINE F == [i \in DOMAIN s |-> G!ExternalCallEdge(s[i])]
  <2>1. G!Each(s, G!ExternalCallEdge) = FlattenSeq(<<>> \o F)
    BY OneFlattenSeq DEF G!Each
  <2>3. \A r : IsSeq(G!ExternalCallEdge(r))
    BY ShortSeqs DEF G!ExternalCallEdge
  <2>2. F = [i \in DOMAIN s |-> F[i]] /\ \A i \in 1 .. Len(s) : IsSeq(F[i])
    BY <1>1, <2>3
  <2> HIDE DEF F
  <2> QED BY <2>1, <2>2, EachIsSeq
<1> QED BY <1>2, <1>3, <1>4, <1>5, <1>6

\* Edges of one route to its handlers.
LEMMA HandledByIsSeq ==
  ASSUME NEW r, IsSeq(r.handlers)
  PROVE  IsSeq(G!HandledBy(r))
<1> DEFINE s == r.handlers
           P == {i \in 1 .. Len(s) : s[i].target # None}
           linked == Picked(s, P)
           keys == [i \in DOMAIN linked |-> linked[i].target]
           Q == {i \in 1 .. Len(linked) : \A j \in 1 .. i - 1 : keys[j] # keys[i]}
           kept == Picked(linked, Q)
           E(h) == G!Edge("HANDLED_BY", G!RouteId(r.method, r.path), h.target, h.name, r.home, r.at)
           F == [i \in DOMAIN kept |-> <<E(kept[i])>>]
<1>1. DOMAIN s = 1 .. Len(s)
  BY SeqIs
<1>2. FlattenSeq([i \in DOMAIN s |-> IF s[i].target # None THEN <<s[i]>> ELSE <<>>]) = linked
  <2>1. [i \in DOMAIN s |-> IF s[i].target # None THEN <<s[i]>> ELSE <<>>]
        = [i \in DOMAIN s |-> IF i \in P THEN <<s[i]>> ELSE <<>>]
    BY <1>1
  <2> QED BY <2>1 DEF Picked
<1>3. IsSeq(linked)
  <2>1. P \subseteq 1 .. Len(s)
    OBVIOUS
  <2> HIDE DEF P
  <2> QED BY <2>1, PickedIs
<1>4. DOMAIN linked = 1 .. Len(linked)
  BY <1>3, SeqIs
<1> HIDE DEF linked
<1>5. FlattenSeq([i \in DOMAIN linked |-> IF \A j \in 1 .. i - 1 : keys[j] # keys[i] THEN <<linked[i]>> ELSE <<>>])
      = kept
  <2> HIDE DEF keys
  <2>1. [i \in DOMAIN linked |-> IF \A j \in 1 .. i - 1 : keys[j] # keys[i] THEN <<linked[i]>> ELSE <<>>]
        = [i \in DOMAIN linked |-> IF i \in Q THEN <<linked[i]>> ELSE <<>>]
    BY <1>4
  <2> QED BY <2>1 DEF Picked
<1>6. IsSeq(kept)
  <2>1. Q \subseteq 1 .. Len(linked)
    OBVIOUS
  <2> HIDE DEF Q
  <2> QED BY <1>3, <2>1, PickedIs
<1>7. G!HandledBy(r) = IF G!IsAbsolute(r.path) THEN FlattenSeq(<<>> \o F) ELSE <<>>
  <2> DEFINE V(q) == FlattenSeq(<<>> \o [i \in DOMAIN q |-> <<E(q[i])>>])
             W(l) == FlattenSeq([i \in DOMAIN l |->
                        IF \A j \in 1 .. i - 1 : [k \in DOMAIN l |-> l[k].target][j] # [k \in DOMAIN l |-> l[k].target][i]
                        THEN <<l[i]>> ELSE <<>>])
             X == FlattenSeq([i \in DOMAIN s |-> IF s[i].target # None THEN <<s[i]>> ELSE <<>>])
  <2>1. G!HandledBy(r) = IF G!IsAbsolute(r.path) THEN V(W(X)) ELSE <<>>
    BY OneFlattenSeq DEF G!HandledBy, G!Each, G!FirstOfEach, G!Selected
  <2>2. X = linked
    BY <1>2
  <2>3. W(linked) = kept
    BY <1>5
  <2>4. V(kept) = FlattenSeq(<<>> \o F)
    OBVIOUS
  <2> HIDE DEF V, W, X, kept, F
  <2> QED BY <2>1, <2>2, <2>3, <2>4
<1> HIDE DEF kept, E
<1>8. DOMAIN kept = 1 .. Len(kept)
  BY <1>6, SeqIs
<1>9. F = [i \in DOMAIN kept |-> F[i]] /\ \A i \in 1 .. Len(kept) : IsSeq(F[i])
  BY <1>8, ShortSeqs
<1> HIDE DEF F
<1>10. IsSeq(FlattenSeq(<<>> \o F))
  BY <1>6, <1>9, EachIsSeq
<1> QED BY <1>7, <1>10, ShortSeqs

\* Edges of routes to their handlers.
LEMMA HandlingEdgesAre ==
  ASSUME NEW s, IsSeq(s), \A r \in ToSet(s) : IsSeq(r.handlers)
  PROVE  IsSeq(G!Each(s, G!HandledBy))
<1> DEFINE F == [i \in DOMAIN s |-> G!HandledBy(s[i])]
<1>1. G!Each(s, G!HandledBy) = FlattenSeq(<<>> \o F)
  BY OneFlattenSeq DEF G!Each
<1>2. DOMAIN s = 1 .. Len(s) /\ \A i \in 1 .. Len(s) : s[i] \in ToSet(s)
  BY MembersAre
<1>3. F = [i \in DOMAIN s |-> F[i]] /\ \A i \in 1 .. Len(s) : F[i] = G!HandledBy(s[i])
  BY <1>2
<1>4. \A i \in 1 .. Len(s) : IsSeq(F[i])
  BY <1>2, <1>3, HandledByIsSeq
<1> HIDE DEF F
<1> QED BY <1>1, <1>3, <1>4, EachIsSeq

\* Edges of requests to the routes that serve them.
LEMMA LinkingEdgesAre ==
  ASSUME NEW requests, IsSeq(requests), NEW routes, IsSeq(routes)
  PROVE  IsSeq(G!LinkClientCallsToRoutes(requests, routes))
<1> DEFINE Serves(q, n) == /\ G!Normalise(Tail(n.name)) = G!Normalise(q.path)
                           /\ q.method = None \/ Head(n.name) \in {q.method, "ALL"}
           E(q, n) == G!Edge("CONTINUES_TO", q.source, n.id, q.path, q.home, q.at)
           S(q) == FlattenSeq([i \in DOMAIN routes |-> IF Serves(q, routes[i]) THEN <<routes[i]>> ELSE <<>>])
           T(q) == [i \in DOMAIN S(q) |-> <<E(q, S(q)[i])>>]
           Of(q) == IF G!IsAbsolute(q.path) THEN FlattenSeq(<<>> \o T(q)) ELSE <<>>
           F == [i \in DOMAIN requests |-> Of(requests[i])]
           all == FlattenSeq(<<>> \o F)
<1>1. G!LinkClientCallsToRoutes(requests, routes) = G!FirstOfEach(all, G!ById)
  BY OneFlattenSeq DEF G!LinkClientCallsToRoutes, G!Each, G!Selected
<1> HIDE DEF Serves, E
<1>2. DOMAIN routes = 1 .. Len(routes)
  BY SeqIs
<1>3. \A q : IsSeq(S(q))
  <2> TAKE q
  <2> DEFINE P == {i \in 1 .. Len(routes) : Serves(q, routes[i])}
  <2>1. [i \in DOMAIN routes |-> IF Serves(q, routes[i]) THEN <<routes[i]>> ELSE <<>>]
        = [i \in DOMAIN routes |-> IF i \in P THEN <<routes[i]>> ELSE <<>>]
    BY <1>2
  <2>2. S(q) = Picked(routes, P)
    BY <2>1 DEF Picked
  <2>3. P \subseteq 1 .. Len(routes)
    OBVIOUS
  <2> HIDE DEF P, S
  <2> QED BY <2>2, <2>3, PickedIs
<1> HIDE DEF S
<1>4. \A q : IsSeq(Of(q))
  <2> TAKE q
  <2> DEFINE s == S(q)
             t == T(q)
  <2>1. DOMAIN s = 1 .. Len(s)
    BY <1>3, SeqIs
  <2>2. t = [i \in DOMAIN s |-> t[i]] /\ \A i \in 1 .. Len(s) : IsSeq(t[i])
    BY <2>1, ShortSeqs
  <2>3. IsSeq(s)
    BY <1>3
  <2> HIDE DEF s, t
  <2>4. IsSeq(FlattenSeq(<<>> \o t))
    BY <2>2, <2>3, EachIsSeq
  <2> QED BY <2>4, ShortSeqs DEF t
<1> HIDE DEF Of
<1>5. DOMAIN requests = 1 .. Len(requests)
  BY SeqIs
<1>6. F = [i \in DOMAIN requests |-> F[i]] /\ \A i \in 1 .. Len(requests) : IsSeq(F[i])
  BY <1>4, <1>5
<1> HIDE DEF F
<1>7. IsSeq(all)
  BY <1>6, EachIsSeq
<1> QED BY <1>1, <1>7, FirstsAreSeq

\* All edges that Build gathers are one sequence.
LEMMA EdgesAre ==
  ASSUME NEW u, NEW analyses, Universally(u), Analysed(u, analyses)
  PROVE  IsSeq(G!Build(u, analyses).edges)
<1> DEFINE d == G!Gathered(analyses, "declarations")
           relationships == G!Gathered(analyses, "relationships")
           external == G!Gathered(analyses, "externalCalls")
           routes == G!Gathered(analyses, "routes")
           reads == G!Gathered(analyses, "reads")
           calls == G!Gathered(analyses, "calls")
           requests == G!Gathered(analyses, "requests")
           routeNodes == G!Pooled(G!Each(routes, G!RouteNode))
           N1 == G!Each(u.manifests, G!DependencyEdges)
           N2 == G!ArtifactEdges(u)
           N3 == G!DeclaresEdges(d)
           N4 == G!Each(relationships, G!RelationshipEdge)
           N5 == G!Each(routes, G!HandledBy)
           N6 == G!Each(reads, G!Reads)
           N7 == G!Each(calls, G!CallEdge)
           N8 == G!Each(external, G!ExternalCallEdge)
           N9 == G!LinkClientCallsToRoutes(requests, routeNodes)
           A2 == N1 \o N2
           A3 == A2 \o N3
           A4 == A3 \o N4
           A5 == A4 \o N5
           A6 == A5 \o N6
           A7 == A6 \o N7
           A8 == A7 \o N8
           A9 == A8 \o N9
<1>1. G!Build(u, analyses).edges = A9
  BY DEF G!Build
<1>2. IsSeq(d) /\ IsSeq(relationships) /\ IsSeq(external) /\ IsSeq(routes) /\ IsSeq(reads) /\ IsSeq(calls)
      /\ IsSeq(requests)
  BY DEF Analysed, Fields
<1>3. IsSeq(N1) /\ IsSeq(N2)
  BY DependencyEdgesAre, ArtifactEdgesAre
<1>4. IsSeq(N3) /\ IsSeq(N4) /\ IsSeq(N6) /\ IsSeq(N7) /\ IsSeq(N8)
  <2> HIDE DEF d, relationships, reads, calls, external
  <2> QED BY <1>2, PlainEdgesAre
<1>5. IsSeq(N5)
  <2>1. \A r \in ToSet(routes) : IsSeq(r.handlers)
    BY DEF Analysed
  <2> HIDE DEF routes
  <2> QED BY <1>2, <2>1, HandlingEdgesAre
<1>6. IsSeq(N9)
  <2>1. \A r \in ToSet(routes) : r.home \in Homes(u)
    BY DEF Analysed
  <2> HIDE DEF routes
  <2>2. IsSeq(routeNodes)
    BY <1>2, <2>1, RouteNodesAre DEF List
  <2> HIDE DEF routeNodes, requests
  <2> QED BY <1>2, <2>2, LinkingEdgesAre
<1> HIDE DEF N1, N2, N3, N4, N5, N6, N7, N8, N9
<1>7. \A s, t : IsSeq(s) /\ IsSeq(t) => IsSeq(s \o t)
  BY BothHold
<1> QED BY <1>1, <1>3, <1>4, <1>5, <1>6, <1>7

-----------------------------------------------------------------------------
(* What remains unresolved *)

\* One row is a list of rows.
LEMMA OneRow ==
  ASSUME NEW u, NEW id, NEW type, NEW source, NEW home, home \in Homes(u)
  PROVE  List(<<G!Row(id, type, source, home)>>, "row", u)
<1> DEFINE x == G!Row(id, type, source, home)
           what == "row"
<1>1. x.home = home
  BY DEF G!Row
<1> HIDE DEF x
<1>2. Fits(x, what, u)
  BY <1>1 DEF Fits
<1> HIDE DEF what
<1>3. List(<<x>>, what, u)
  BY <1>2, OneIsList
<1> QED BY <1>3 DEF x, what

\* Rows of what analysers left unresolved, of variables nobody supplies, of unbound calls.
LEMMA UnresolvedRowsAre ==
  ASSUME NEW u, NEW s, IsSeq(s), \A x \in ToSet(s) : x.home \in Homes(u)
  PROVE  /\ List(G!Each(s, G!UnresolvedRow), "row", u)
         /\ List(G!Each(s, G!ReadsMissing), "row", u)
         /\ List(G!Each(s, G!UnresolvedCall), "row", u)
<1>1. DOMAIN s = 1 .. Len(s) /\ \A i \in 1 .. Len(s) : s[i] \in ToSet(s)
  BY MembersAre
<1>2. List(G!Each(s, G!UnresolvedRow), "row", u)
  <2> DEFINE F == [i \in DOMAIN s |-> G!UnresolvedRow(s[i])]
  <2>1. G!Each(s, G!UnresolvedRow) = FlattenSeq(<<>> \o F)
    BY OneFlattenSeq DEF G!Each
  <2>2. \A r : r.home \in Homes(u) => List(G!UnresolvedRow(r), "row", u)
    <3> SUFFICES ASSUME NEW r, r.home \in Homes(u) PROVE List(G!UnresolvedRow(r), "row", u)
      OBVIOUS
    <3> DEFINE id == <<r.type, r.source, r.name, r.reason, r.home, r.at>>
               type == r.type
               source == r.source
               home == r.home
    <3>1. G!UnresolvedRow(r) = <<G!Row(id, type, source, home)>>
      BY DEF G!UnresolvedRow
    <3>2. home \in Homes(u)
      OBVIOUS
    <3> HIDE DEF id, type, source, home
    <3> QED BY <3>1, <3>2, OneRow
  <2>3. F = [i \in DOMAIN s |-> F[i]] /\ \A i \in 1 .. Len(s) : List(F[i], "row", u)
    BY <1>1, <2>2
  <2> HIDE DEF F
  <2> QED BY <2>1, <2>3, EachIsList
<1>3. List(G!Each(s, G!ReadsMissing), "row", u)
  <2> DEFINE F == [i \in DOMAIN s |-> G!ReadsMissing(s[i])]
  <2>1. G!Each(s, G!ReadsMissing) = FlattenSeq(<<>> \o F)
    BY OneFlattenSeq DEF G!Each
  <2>2. \A r : r.home \in Homes(u) => List(G!ReadsMissing(r), "row", u)
    <3> SUFFICES ASSUME NEW r, r.home \in Homes(u) PROVE List(G!ReadsMissing(r), "row", u)
      OBVIOUS
    <3> DEFINE id == <<"READS", r.home, r.name, r.at>>
               source == r.source
               home == r.home
    <3>1. G!ReadsMissing(r) = <<>> \/ G!ReadsMissing(r) = <<G!Row(id, "READS", source, home)>>
      BY DEF G!ReadsMissing
    <3>2. home \in Homes(u)
      OBVIOUS
    <3> HIDE DEF id, source, home
    <3>3. List(<<G!Row(id, "READS", source, home)>>, "row", u)
      BY <3>2, OneRow
    <3> QED BY <3>1, <3>3, NothingIsList
  <2>3. F = [i \in DOMAIN s |-> F[i]] /\ \A i \in 1 .. Len(s) : List(F[i], "row", u)
    BY <1>1, <2>2
  <2> HIDE DEF F
  <2> QED BY <2>1, <2>3, EachIsList
<1>4. List(G!Each(s, G!UnresolvedCall), "row", u)
  <2> DEFINE F == [i \in DOMAIN s |-> G!UnresolvedCall(s[i])]
  <2>1. G!Each(s, G!UnresolvedCall) = FlattenSeq(<<>> \o F)
    BY OneFlattenSeq DEF G!Each
  <2>2. \A r : r.home \in Homes(u) => List(G!UnresolvedCall(r), "row", u)
    <3> SUFFICES ASSUME NEW r, r.home \in Homes(u) PROVE List(G!UnresolvedCall(r), "row", u)
      OBVIOUS
    <3> DEFINE id == <<"CALLS", r.source, r.name, r.home, r.at>>
               source == r.source
               home == r.home
    <3>1. G!UnresolvedCall(r) = <<G!Row(id, "CALLS", source, home)>>
      BY DEF G!UnresolvedCall
    <3>2. home \in Homes(u)
      OBVIOUS
    <3> HIDE DEF id, source, home
    <3> QED BY <3>1, <3>2, OneRow
  <2>3. F = [i \in DOMAIN s |-> F[i]] /\ \A i \in 1 .. Len(s) : List(F[i], "row", u)
    BY <1>1, <2>2
  <2> HIDE DEF F
  <2> QED BY <2>1, <2>3, EachIsList
<1> QED BY <1>2, <1>3, <1>4

\* Rows of handlers that are not found.
LEMMA HandlersMissingAre ==
  ASSUME NEW u, NEW s, IsSeq(s), \A r \in ToSet(s) : r.home \in Homes(u) /\ IsSeq(r.handlers)
  PROVE  List(G!Each(s, G!HandlersMissing), "row", u)
<1> DEFINE F == [i \in DOMAIN s |-> G!HandlersMissing(s[i])]
<1>1. G!Each(s, G!HandlersMissing) = FlattenSeq(<<>> \o F)
  BY OneFlattenSeq DEF G!Each
<1>2. DOMAIN s = 1 .. Len(s) /\ \A i \in 1 .. Len(s) : s[i] \in ToSet(s)
  BY MembersAre
<1>3. ASSUME NEW r, r.home \in Homes(u), IsSeq(r.handlers) PROVE List(G!HandlersMissing(r), "row", u)
  <2> DEFINE t == r.handlers
             home == r.home
             id == G!RouteId(r.method, r.path)
             Of(h) == IF h.target # None THEN <<>>
                      ELSE <<G!Row(<<"HANDLED_BY", id, h.name, r.at>>, "HANDLED_BY", id, home)>>
             H == [k \in DOMAIN t |-> Of(t[k])]
             other == <<"HANDLED_BY", home, <<r.method>> \o r.path, r.at>>
             source == r.source
  <2>1. G!HandlersMissing(r) = IF G!IsAbsolute(r.path) THEN FlattenSeq(<<>> \o H)
                               ELSE <<G!Row(other, "HANDLED_BY", source, home)>>
    BY OneFlattenSeq DEF G!HandlersMissing, G!Each
  <2>2. IsSeq(t) /\ home \in Homes(u)
    BY <1>3
  <2>3. DOMAIN t = 1 .. Len(t)
    BY <2>2, SeqIs
  <2> HIDE DEF home, id, other, source, t
  <2>4. List(<<G!Row(other, "HANDLED_BY", source, home)>>, "row", u)
    BY <2>2, OneRow
  <2>5. ASSUME NEW h PROVE List(Of(h), "row", u)
    <3> DEFINE hid == <<"HANDLED_BY", id, h.name, r.at>>
    <3>1. Of(h) = <<>> \/ Of(h) = <<G!Row(hid, "HANDLED_BY", id, home)>>
      OBVIOUS
    <3> HIDE DEF hid, Of
    <3>2. List(<<G!Row(hid, "HANDLED_BY", id, home)>>, "row", u)
      BY <2>2, OneRow
    <3> QED BY <3>1, <3>2, NothingIsList
  <2> HIDE DEF Of
  <2>6. H = [k \in DOMAIN t |-> H[k]] /\ \A k \in 1 .. Len(t) : List(H[k], "row", u)
    BY <2>3, <2>5
  <2> HIDE DEF H
  <2>7. List(FlattenSeq(<<>> \o H), "row", u)
    BY <2>2, <2>6, EachIsList
  <2> QED BY <2>1, <2>4, <2>7
<1>4. F = [i \in DOMAIN s |-> F[i]] /\ \A i \in 1 .. Len(s) : List(F[i], "row", u)
  BY <1>2, <1>3
<1> HIDE DEF F
<1> QED BY <1>1, <1>4, EachIsList

\* Rows of requirements that are not met.
LEMMA PrerequisitesMissingAre ==
  ASSUME NEW u, NEW a, IsSeq(a.elements), \A e \in ToSet(a.elements) : IsSeq(e.requires),
         G!FileId(a.path) \in Homes(u)
  PROVE  List(G!PrerequisitesMissing(a), "row", u)
<1> DEFINE s == a.elements
           home == G!FileId(a.path)
           E(e, need) ==
             LET from == G!OfKind(a, e.kind, e.name)
             IN  IF G!Prerequisite(a, e, need) # None THEN <<>>
                 ELSE <<G!Row(<<"DEPENDS_ON", from, need>>, "DEPENDS_ON", from, home)>>
           H(e) == [k \in DOMAIN e.requires |-> E(e, e.requires[k])]
           F == [i \in DOMAIN s |-> FlattenSeq(<<>> \o H(s[i]))]
<1>1. G!PrerequisitesMissing(a) = FlattenSeq(<<>> \o F)
  BY OneFlattenSeq DEF G!PrerequisitesMissing, G!Each
<1>0. home \in Homes(u)
  OBVIOUS
<1> HIDE DEF home
<1>2. ASSUME NEW e, NEW need PROVE List(E(e, need), "row", u)
  <2> DEFINE from == G!OfKind(a, e.kind, e.name)
             id == <<"DEPENDS_ON", from, need>>
  <2>1. E(e, need) = <<>> \/ E(e, need) = <<G!Row(id, "DEPENDS_ON", from, home)>>
    OBVIOUS
  <2> HIDE DEF from, id, E
  <2>2. List(<<G!Row(id, "DEPENDS_ON", from, home)>>, "row", u)
    BY <1>0, OneRow
  <2> QED BY <2>1, <2>2, NothingIsList
<1> HIDE DEF E
<1>3. DOMAIN s = 1 .. Len(s) /\ \A i \in 1 .. Len(s) : s[i] \in ToSet(s)
  BY MembersAre
<1>4. ASSUME NEW i \in 1 .. Len(s) PROVE List(F[i], "row", u)
  <2> DEFINE t == s[i].requires
             h == H(s[i])
  <2>1. IsSeq(t) /\ F[i] = FlattenSeq(<<>> \o h)
    BY <1>3
  <2>2. DOMAIN t = 1 .. Len(t)
    BY <2>1, SeqIs
  <2>3. h = [k \in DOMAIN t |-> h[k]] /\ \A k \in 1 .. Len(t) : List(h[k], "row", u)
    BY <1>2, <2>2
  <2> HIDE DEF t, h, F
  <2> QED BY <2>1, <2>3, EachIsList
<1>5. F = [i \in DOMAIN s |-> F[i]]
  OBVIOUS
<1> HIDE DEF F
<1> QED BY <1>1, <1>4, <1>5, EachIsList

\* Rows of references that lead nowhere.
LEMMA ReferencesMissingAre ==
  ASSUME NEW u, NEW a, IsSeq(a.references), G!FileId(a.path) \in Homes(u)
  PROVE  List(G!ReferencesMissing(u, a), "row", u)
<1> DEFINE s == a.references
           home == G!FileId(a.path)
           V(r) == <<"USES_ENV", home, r.text>>
           W(r) == <<"REFERENCES", home, r.text, r.line>>
           type(r) == IF r.kind = "command" THEN "RUNS" ELSE "REFERENCES"
           Of(r) ==
             CASE r.kind = "technology" -> <<>>
               [] r.kind = "environment" ->
                    IF r.text \in Unaddressable THEN <<G!Row(V(r), "USES_ENV", home, home)>> ELSE <<>>
               [] OTHER ->
                    IF G!Resolved(u, r) # None THEN <<>>
                    ELSE <<G!Row(W(r), type(r), G!Source(a, r), home)>>
           F == [i \in DOMAIN s |-> Of(s[i])]
<1>1. G!ReferencesMissing(u, a) = FlattenSeq(<<>> \o F)
  BY OneFlattenSeq DEF G!ReferencesMissing, G!Each
<1>0. home \in Homes(u)
  OBVIOUS
<1> HIDE DEF home
<1>2. ASSUME NEW r PROVE List(Of(r), "row", u)
  <2> DEFINE v == V(r)
             w == W(r)
             ty == type(r)
             source == G!Source(a, r)
  <2>1. Of(r) = <<>> \/ Of(r) = <<G!Row(v, "USES_ENV", home, home)>> \/ Of(r) = <<G!Row(w, ty, source, home)>>
    <3>1. CASE r.kind = "technology"
      BY <3>1
    <3>2. CASE r.kind = "environment"
      BY <3>2
    <3>3. CASE r.kind \notin {"technology", "environment"}
      BY <3>3
    <3> QED BY <3>1, <3>2, <3>3
  <2> HIDE DEF v, w, ty, source, Of
  <2>2. List(<<G!Row(v, "USES_ENV", home, home)>>, "row", u)
    BY <1>0, OneRow
  <2>3. List(<<G!Row(w, ty, source, home)>>, "row", u)
    BY <1>0, OneRow
  <2> QED BY <2>1, <2>2, <2>3, NothingIsList
<1> HIDE DEF Of
<1>3. DOMAIN s = 1 .. Len(s)
  BY SeqIs
<1>4. F = [i \in DOMAIN s |-> F[i]] /\ \A i \in 1 .. Len(s) : List(F[i], "row", u)
  BY <1>2, <1>3
<1> HIDE DEF F
<1> QED BY <1>1, <1>4, EachIsList

\* All rows of artifacts.
LEMMA ArtifactsMissingAre ==
  ASSUME NEW u, Universally(u)
  PROVE  List(G!ArtifactsMissing(u), "row", u)
<1> DEFINE s == u.artifacts
           F == [i \in DOMAIN s |-> G!PrerequisitesMissing(s[i]) \o G!ReferencesMissing(u, s[i])]
<1>1. G!ArtifactsMissing(u) = FlattenSeq(<<>> \o F)
  BY OneFlattenSeq DEF G!ArtifactsMissing, G!Each
<1>2. IsSeq(s)
  BY DEF Universally
<1>3. DOMAIN s = 1 .. Len(s) /\ \A i \in 1 .. Len(s) : s[i] \in ToSet(s)
  BY <1>2, MembersAre
<1>4. ASSUME NEW i \in 1 .. Len(s) PROVE List(F[i], "row", u)
  <2> DEFINE a == s[i]
             x == G!PrerequisitesMissing(a)
             y == G!ReferencesMissing(u, a)
  <2>1. /\ IsSeq(a.elements) /\ IsSeq(a.references) /\ G!FileId(a.path) \in Homes(u)
        /\ \A e \in ToSet(a.elements) : IsSeq(e.requires)
    BY <1>3 DEF Universally
  <2>2. F[i] = x \o y
    BY <1>3
  <2>3. List(x, "row", u) /\ List(y, "row", u)
    <3> HIDE DEF a
    <3> QED BY <2>1, PrerequisitesMissingAre, ReferencesMissingAre
  <2> HIDE DEF x, y, F
  <2> QED BY <2>2, <2>3, BothAreList
<1>5. F = [i \in DOMAIN s |-> F[i]]
  OBVIOUS
<1> HIDE DEF F
<1> QED BY <1>1, <1>2, <1>4, <1>5, EachIsList

\* All rows Build gathers have a file of the scan for their home.
LEMMA RowsOfBuildAre ==
  ASSUME NEW u, NEW analyses, Universally(u), Analysed(u, analyses)
  PROVE  List(G!Build(u, analyses).unresolved, "row", u) /\ ApartById(G!Build(u, analyses).unresolved)
<1> DEFINE unresolved == G!Gathered(analyses, "unresolved")
           routes == G!Gathered(analyses, "routes")
           reads == G!Gathered(analyses, "reads")
           unbound == G!Gathered(analyses, "unbound")
           N1 == G!Each(unresolved, G!UnresolvedRow)
           N2 == G!ArtifactsMissing(u)
           N3 == G!Each(routes, G!HandlersMissing)
           N4 == G!Each(reads, G!ReadsMissing)
           N5 == G!Each(unbound, G!UnresolvedCall)
           A2 == N1 \o N2
           A3 == A2 \o N3
           A4 == A3 \o N4
           A5 == A4 \o N5
<1>1. G!Build(u, analyses).unresolved = G!FirstOfEach(A5, G!ById)
  BY DEF G!Build, G!DedupeUnresolved
<1>2. IsSeq(unresolved) /\ IsSeq(routes) /\ IsSeq(reads) /\ IsSeq(unbound)
  BY DEF Analysed, Fields
<1>3. /\ \A x \in ToSet(unresolved) : x.home \in Homes(u)
      /\ \A x \in ToSet(reads) : x.home \in Homes(u)
      /\ \A x \in ToSet(unbound) : x.home \in Homes(u)
      /\ \A r \in ToSet(routes) : r.home \in Homes(u) /\ IsSeq(r.handlers)
  BY DEF Analysed
<1>4. List(N1, "row", u) /\ List(N4, "row", u) /\ List(N5, "row", u)
  <2> HIDE DEF unresolved, reads, unbound
  <2> QED BY <1>2, <1>3, UnresolvedRowsAre
<1>5. List(N2, "row", u)
  BY ArtifactsMissingAre
<1>6. List(N3, "row", u)
  <2> HIDE DEF routes
  <2> QED BY <1>2, <1>3, HandlersMissingAre
<1> HIDE DEF N1, N2, N3, N4, N5
<1>7. List(A2, "row", u)
  BY <1>4, <1>5, BothAreList
<1> HIDE DEF A2
<1>8. List(A3, "row", u)
  BY <1>6, <1>7, BothAreList
<1> HIDE DEF A3
<1>9. List(A4, "row", u)
  BY <1>4, <1>8, BothAreList
<1> HIDE DEF A4
<1>10. List(A5, "row", u)
  BY <1>4, <1>9, BothAreList
<1> HIDE DEF A5
<1>11. IsSeq(A5)
  BY <1>10 DEF List
<1>12. List(G!FirstOfEach(A5, G!ById), "row", u) /\ ApartById(G!FirstOfEach(A5, G!ById))
  BY <1>10, <1>11, FirstsAreList, FirstsAreApart
<1> QED BY <1>1, <1>12

\* The first of each member of a sequence.
LEMMA RolesAre ==
  ASSUME NEW s, IsSeq(s), \A r \in ToSet(s) : r = [node |-> r.node, role |-> r.role]
  PROVE  LET q == G!DistinctRoles(s)
         IN  /\ IsSeq(q)
             /\ \A i, j \in 1 .. Len(q) : i # j => <<q[i].node, q[i].role>> # <<q[j].node, q[j].role>>
<1>1. DOMAIN s = 1 .. Len(s) /\ Len(s) \in Nat
  BY SeqIs
<1> DEFINE P == {i \in 1 .. Len(s) : \A j \in 1 .. i - 1 : s[j] # s[i]}
           keys == [i \in DOMAIN s |-> s[i]]
           F == [i \in DOMAIN s |-> IF \A j \in 1 .. i - 1 : keys[j] # keys[i] THEN <<s[i]>> ELSE <<>>]
           q == Picked(s, P)
<1>2. G!DistinctRoles(s) = FlattenSeq(F)
  BY OneFlattenSeq DEF G!DistinctRoles, G!FirstOfEach
<1>3. \A i \in 1 .. Len(s) : (\A j \in 1 .. i - 1 : keys[j] # keys[i]) <=> i \in P
  <2> TAKE i \in 1 .. Len(s)
  <2>1. \A j \in 1 .. i - 1 : j \in DOMAIN s
    BY <1>1
  <2> QED BY <1>1, <2>1
<1> HIDE DEF keys
<1>4. F = [i \in DOMAIN s |-> IF i \in P THEN <<s[i]>> ELSE <<>>]
  BY <1>1, <1>3
<1>5. G!DistinctRoles(s) = q
  BY <1>2, <1>4 DEF Picked
<1>6. P \subseteq 1 .. Len(s)
  OBVIOUS
<1>7. \A i \in P : \A j \in 1 .. i - 1 : s[j] # s[i]
  OBVIOUS
<1> HIDE DEF P, F
<1>8. IsSeq(q) /\ \E at : Picks(q, s, P, at)
  BY <1>6, PickedIs
<1>9. PICK at : Picks(q, s, P, at)
  BY <1>8
<1>10. Len(q) \in Nat
  BY <1>8, SeqIs
<1> HIDE DEF q
<1>11. \A k \in 1 .. Len(q) : q[k] = [node |-> q[k].node, role |-> q[k].role]
  <2> TAKE k \in 1 .. Len(q)
  <2>1. at[k] \in 1 .. Len(s) /\ q[k] = s[at[k]]
    BY <1>6, <1>9 DEF Picks
  <2>2. s[at[k]] \in ToSet(s)
    BY <1>1, <2>1 DEF ToSet
  <2> QED BY <2>1, <2>2
<1>12. ASSUME NEW k \in 1 .. Len(q), NEW l \in 1 .. Len(q), k < l PROVE q[k] # q[l]
  <2>1. at[k] < at[l] /\ at[k] \in P /\ at[l] \in P /\ q[k] = s[at[k]] /\ q[l] = s[at[l]]
    BY <1>9, <1>12 DEF Picks
  <2>2. at[k] \in 1 .. at[l] - 1
    BY <1>1, <1>6, <2>1
  <2> QED BY <1>7, <2>1, <2>2
<1>13. \A k, l \in 1 .. Len(q) : k # l => k < l \/ l < k
  BY <1>10
<1>14. \A i, j \in 1 .. Len(q) : i # j => q[i] # q[j]
  BY <1>12, <1>13
<1>15. \A i, j \in 1 .. Len(q) : i # j => <<q[i].node, q[i].role>> # <<q[j].node, q[j].role>>
  BY <1>11, <1>14
<1> QED BY <1>5, <1>8, <1>15

\* As many identifiers as rows are one for each.
LEMMA DistinctAreApart ==
  ASSUME NEW rows, IsSeq(rows), G!Distinct(rows)
  PROVE  ApartById(rows)
<1>1. DOMAIN rows = 1 .. Len(rows) /\ Len(rows) \in Nat
  BY SeqIs
<1> DEFINE n == Len(rows)
           D == 1 .. n
           f == [i \in D |-> rows[i].id]
           I == {rows[i].id : i \in D}
<1>2. G!Ids(rows) = I
  BY <1>1 DEF G!Ids
<1>3. Cardinality(I) = n
  BY <1>2 DEF G!Distinct, Cardinality, G!Cardinality
<1>4. f \in Surjection(D, I)
  BY DEF Surjection
<1>5. IsFiniteSet(D) /\ Cardinality(D) = n
  <2>1. 1 \in Int /\ n \in Int
    BY <1>1
  <2>2. IsFiniteSet(1 .. n) /\ Cardinality(1 .. n) = IF 1 > n THEN 0 ELSE n - 1 + 1
    BY ONLY <2>1, FS_Interval, Zenon
  <2>3. (IF 1 > n THEN 0 ELSE n - 1 + 1) = n
    BY <1>1
  <2> QED BY <2>2, <2>3
<1> HIDE DEF f, D, I
<1>6. f \in Injection(D, I)
  BY <1>3, <1>4, <1>5, FS_Surjection
<1>7. \A i, j \in D : f[i] = f[j] => i = j
  BY <1>6 DEF Injection, IsInjective
<1>8. \A i \in D : f[i] = rows[i].id
  BY DEF f, D
<1> QED BY <1>7, <1>8 DEF ApartById, D

\* A graph of an assumed input that validates is storable.
LEMMA BuiltIsStorable ==
  ASSUME NEW u, NEW analyses, OfAScan(u, analyses), G!ValidateGraph(G!Build(u, analyses))
  PROVE  Storable(G!Build(u, analyses))
<1> DEFINE g == G!Build(u, analyses)
           roles == G!Gathered(analyses, "roles")
<1>1. Universally(u) /\ Analysed(u, analyses)
  BY ScansAre
<1>2. /\ List(g.nodes, "node", u)
      /\ \A h \in Homes(u) : \E x \in ToSet(g.nodes) : x.id = h /\ x.kind = "File"
  BY <1>1, NodesAre
<1>3. IsSeq(g.edges)
  BY <1>1, EdgesAre
<1>4. List(g.unresolved, "row", u) /\ ApartById(g.unresolved)
  BY <1>1, RowsOfBuildAre
<1>5. g.roles = G!DistinctRoles(roles) /\ g.regions = u.regions
  BY DEF G!Build
<1>6. IsSeq(roles) /\ \A r \in ToSet(roles) : r = [node |-> r.node, role |-> r.role]
  BY <1>1 DEF Analysed, Fields
<1>7. /\ IsSeq(g.roles)
      /\ \A i, j \in 1 .. Len(g.roles) :
           i # j => <<g.roles[i].node, g.roles[i].role>> # <<g.roles[j].node, g.roles[j].role>>
  <2> HIDE DEF roles, g
  <2> QED BY <1>5, <1>6, RolesAre
<1>8. G!ValidateGraph(g)
  OBVIOUS
<1> HIDE DEF g
<1>9. IsSeq(g.nodes) /\ IsSeq(g.unresolved)
  BY <1>2, <1>4 DEF List
<1>10. /\ DOMAIN g.nodes = 1 .. Len(g.nodes) /\ DOMAIN g.edges = 1 .. Len(g.edges)
       /\ DOMAIN g.unresolved = 1 .. Len(g.unresolved) /\ DOMAIN g.roles = 1 .. Len(g.roles)
  BY <1>3, <1>7, <1>9, SeqIs
<1>11. G!Ids(g.nodes) = NodeIds(g)
  BY <1>10 DEF G!Ids, NodeIds
<1>12. /\ G!Distinct(g.nodes) /\ G!Distinct(g.edges)
       /\ \A e \in ToSet(g.edges) : {e.source, e.target, e.home} \subseteq NodeIds(g)
       /\ \A r \in ToSet(g.unresolved) : r.source \in NodeIds(g)
       /\ \A r \in ToSet(g.roles) : r.node \in NodeIds(g)
  BY <1>8, <1>11, OneToSet DEF G!ValidateGraph
<1>13. ApartById(g.nodes) /\ ApartById(g.edges)
  BY <1>3, <1>9, <1>12, DistinctAreApart
<1>14. Homes(u) \subseteq FileIds(g) /\ FileIds(g) \subseteq NodeIds(g)
  <2>1. \A x \in ToSet(g.nodes) : \E i \in 1 .. Len(g.nodes) : x = g.nodes[i]
    BY <1>10 DEF ToSet
  <2> QED BY <1>2, <2>1 DEF FileIds, NodeIds
<1>15. /\ \A i \in 1 .. Len(g.nodes) : g.nodes[i] \in ToSet(g.nodes)
       /\ \A i \in 1 .. Len(g.edges) : g.edges[i] \in ToSet(g.edges)
       /\ \A i \in 1 .. Len(g.unresolved) : g.unresolved[i] \in ToSet(g.unresolved)
       /\ \A i \in 1 .. Len(g.roles) : g.roles[i] \in ToSet(g.roles)
  BY <1>10 DEF ToSet
<1>16. \A i \in 1 .. Len(g.nodes) :
         /\ g.nodes[i].places \in Nat
         /\ {g.nodes[i].file, g.nodes[i].home} \ {None} \subseteq FileIds(g)
         /\ g.nodes[i].kind = "File" => {g.nodes[i].file, g.nodes[i].home} \ {None} \subseteq {g.nodes[i].id}
  <2> TAKE i \in 1 .. Len(g.nodes)
  <2>1. IsNode(g.nodes[i], u)
    BY <1>2, <1>15 DEF List, Fits
  <2> QED BY <1>14, <2>1 DEF IsNode
<1>17. \A i \in 1 .. Len(g.edges) :
         {g.edges[i].source, g.edges[i].target, g.edges[i].home} \ {None} \subseteq NodeIds(g)
  BY <1>12, <1>15
<1>18. \A i \in 1 .. Len(g.unresolved) :
         {g.unresolved[i].source, g.unresolved[i].home} \ {None} \subseteq NodeIds(g)
  <2> TAKE i \in 1 .. Len(g.unresolved)
  <2>1. g.unresolved[i].home \in Homes(u)
    BY <1>4, <1>15 DEF List, Fits
  <2> QED BY <1>12, <1>14, <1>15, <2>1
<1>19. \A i \in 1 .. Len(g.roles) : g.roles[i].node \in NodeIds(g)
  BY <1>12, <1>15
<1>20. /\ IsSeq(g.regions) /\ \A i, j \in 1 .. Len(g.regions) : i # j => g.regions[i].path # g.regions[j].path
       /\ \A i \in 1 .. Len(g.regions) :
            /\ IsSeq(g.regions[i].languages) /\ Apart(g.regions[i].languages)
            /\ IsSeq(g.regions[i].ecosystems) /\ Apart(g.regions[i].ecosystems)
  BY <1>1, <1>5 DEF Universally
<1>21. Storable(g)
  BY <1>3, <1>4, <1>7, <1>9, <1>13, <1>16, <1>17, <1>18, <1>19, <1>20 DEF Storable
<1> QED BY <1>21 DEF g

\* So its replacement refers to nothing that it has not inserted before.
LEMMA BuiltIsReplaceable ==
  ASSUME NEW input \in Stored, NEW n,
         G!ValidateGraph(G!Build(input.universal, input.analyses))
  PROVE  \E T : Replaces(G!Replacement(G!Build(input.universal, input.analyses), n), T)
<1> DEFINE g == G!Build(input.universal, input.analyses)
<1>1. OfAScan(input.universal, input.analyses)
  BY InputsAssumption
<1>2. Storable(g)
  BY <1>1, BuiltIsStorable
<1> HIDE DEF g
<1>3. \E T : Replaces(G!Replacement(g, n), T)
  BY <1>2, StorableIsReplaceable
<1> QED BY <1>3 DEF g

-----------------------------------------------------------------------------
(* Rearrangement *)

\* The members of a sequence are those of another one, each as often, in places that p tells.
Rearranged(s, t, p) ==
  /\ p \in [1 .. Len(s) -> 1 .. Len(t)]
  /\ \A i \in 1 .. Len(s) : s[i] = t[p[i]]
  /\ \A i, j \in 1 .. Len(s) : i # j => p[i] # p[j]
  /\ \A j \in 1 .. Len(t) : \E i \in 1 .. Len(s) : p[i] = j

Shuffled(s, t) == IsSeq(s) /\ IsSeq(t) /\ \E p : Rearranged(s, t, p)

\* A rearrangement holds the same.
LEMMA AlikeHold ==
  ASSUME NEW s, NEW t, Shuffled(s, t)
  PROVE  ToSet(s) = ToSet(t)
<1>1. PICK p : Rearranged(s, t, p)
  BY DEF Shuffled
<1>2. ToSet(s) = {s[i] : i \in 1 .. Len(s)} /\ ToSet(t) = {t[i] : i \in 1 .. Len(t)}
  BY ListIs DEF Shuffled
<1>3. ASSUME NEW i \in 1 .. Len(s) PROVE \E j \in 1 .. Len(t) : s[i] = t[j]
  BY <1>1 DEF Rearranged
<1>4. ASSUME NEW j \in 1 .. Len(t) PROVE \E i \in 1 .. Len(s) : t[j] = s[i]
  <2>1. PICK i \in 1 .. Len(s) : p[i] = j
    BY <1>1 DEF Rearranged
  <2>2. s[i] = t[p[i]]
    BY <1>1 DEF Rearranged
  <2> QED BY <2>1, <2>2
<1> QED BY <1>2, <1>3, <1>4

\* Different places of a concatenation are different places of its parts.
LEMMA PlacesDiffer ==
  ASSUME NEW flat, NEW ss, NEW part, NEW at, IsSeq(flat), IsSeq(ss), \A i \in 1 .. Len(ss) : IsSeq(ss[i]),
         Placed(flat, ss, part, at), NEW k \in 1 .. Len(flat), NEW l \in 1 .. Len(flat),
         part[k] = part[l], at[k] = at[l]
  PROVE  k = l
<1>1. Len(flat) \in Nat /\ Len(ss) \in Nat /\ \A i \in 1 .. Len(ss) : Len(ss[i]) \in Nat
  BY SeqIs
<1>2. part[k] \in 1 .. Len(ss) /\ at[k] \in 1 .. Len(ss[part[k]])
  BY DEF Placed
<1>3. part[k] \in Nat /\ at[k] \in Nat
  BY <1>1, <1>2
<1>4. /\ k < l => part[k] < part[l] \/ (part[k] = part[l] /\ at[k] < at[l])
      /\ l < k => part[l] < part[k] \/ (part[l] = part[k] /\ at[l] < at[k])
  BY DEF Placed
<1>5. ~(k < l) /\ ~(l < k)
  BY <1>3, <1>4
<1> QED BY <1>1, <1>5

\* Blocks that are rearranged among themselves.
LEMMA BlocksAreAlike ==
  ASSUME NEW ss, NEW tt, NEW p, IsSeq(ss), IsSeq(tt), Rearranged(ss, tt, p),
         \A i \in 1 .. Len(ss) : IsSeq(ss[i])
  PROVE  Shuffled(FlattenSeq(ss), FlattenSeq(tt))
<1> DEFINE S == FlattenSeq(ss)
           T == FlattenSeq(tt)
<1>1. /\ p \in [1 .. Len(ss) -> 1 .. Len(tt)]
      /\ \A i \in 1 .. Len(ss) : ss[i] = tt[p[i]]
      /\ \A i, j \in 1 .. Len(ss) : i # j => p[i] # p[j]
      /\ \A j \in 1 .. Len(tt) : \E i \in 1 .. Len(ss) : p[i] = j
  BY DEF Rearranged
<1>2. \A j \in 1 .. Len(tt) : IsSeq(tt[j])
  BY <1>1
<1>3. IsSeq(S) /\ \E part, at : Placed(S, ss, part, at)
  BY FlattenIsPlaced
<1>4. IsSeq(T) /\ \E part, at : Placed(T, tt, part, at)
  BY <1>2, FlattenIsPlaced
<1> HIDE DEF S, T
<1>5. PICK part, at : Placed(S, ss, part, at)
  BY <1>3
<1>6. PICK of, in : Placed(T, tt, of, in)
  BY <1>4
<1>7. ASSUME NEW k \in 1 .. Len(S)
      PROVE  \E l \in 1 .. Len(T) : of[l] = p[part[k]] /\ in[l] = at[k]
  <2>1. part[k] \in 1 .. Len(ss) /\ at[k] \in 1 .. Len(ss[part[k]])
    BY <1>5 DEF Placed
  <2>2. p[part[k]] \in 1 .. Len(tt) /\ ss[part[k]] = tt[p[part[k]]]
    BY <1>1, <2>1
  <2>3. at[k] \in 1 .. Len(tt[p[part[k]]])
    BY <2>1, <2>2
  <2> QED BY <1>6, <2>2, <2>3 DEF Placed
<1> DEFINE q == [k \in 1 .. Len(S) |-> CHOOSE l \in 1 .. Len(T) : of[l] = p[part[k]] /\ in[l] = at[k]]
<1>8. ASSUME NEW k \in 1 .. Len(S)
      PROVE  q[k] \in 1 .. Len(T) /\ of[q[k]] = p[part[k]] /\ in[q[k]] = at[k]
  BY <1>7
<1>9. q \in [1 .. Len(S) -> 1 .. Len(T)]
  BY <1>8
<1> HIDE DEF q
<1>10. ASSUME NEW k \in 1 .. Len(S) PROVE S[k] = T[q[k]]
  <2>1. part[k] \in 1 .. Len(ss) /\ S[k] = ss[part[k]][at[k]]
    BY <1>5 DEF Placed
  <2>2. T[q[k]] = tt[of[q[k]]][in[q[k]]]
    BY <1>6, <1>8 DEF Placed
  <2> QED BY <1>1, <1>8, <2>1, <2>2
<1>11. ASSUME NEW k \in 1 .. Len(S), NEW l \in 1 .. Len(S), k # l PROVE q[k] # q[l]
  <2> SUFFICES ASSUME q[k] = q[l] PROVE FALSE
    OBVIOUS
  <2>1. p[part[k]] = p[part[l]] /\ at[k] = at[l]
    BY <1>8
  <2>2. part[k] \in 1 .. Len(ss) /\ part[l] \in 1 .. Len(ss)
    BY <1>5 DEF Placed
  <2>3. part[k] = part[l]
    BY <1>1, <2>1, <2>2
  <2> QED BY <1>3, <1>5, <1>11, <2>1, <2>3, PlacesDiffer
<1>12. ASSUME NEW l \in 1 .. Len(T) PROVE \E k \in 1 .. Len(S) : q[k] = l
  <2>1. of[l] \in 1 .. Len(tt) /\ in[l] \in 1 .. Len(tt[of[l]])
    BY <1>6 DEF Placed
  <2>2. PICK i \in 1 .. Len(ss) : p[i] = of[l]
    BY <1>1, <2>1
  <2>3. in[l] \in 1 .. Len(ss[i])
    BY <1>1, <2>1, <2>2
  <2>4. PICK k \in 1 .. Len(S) : part[k] = i /\ at[k] = in[l]
    BY <1>5, <2>3 DEF Placed
  <2>5. q[k] \in 1 .. Len(T) /\ of[q[k]] = of[l] /\ in[q[k]] = in[l]
    BY <1>8, <2>2, <2>4
  <2>6. q[k] = l
    BY <1>2, <1>4, <1>6, <2>5, PlacesDiffer
  <2> QED BY <2>6
<1>13. Rearranged(S, T, q)
  BY <1>9, <1>10, <1>11, <1>12 DEF Rearranged
<1> QED BY <1>3, <1>4, <1>13 DEF Shuffled, S, T

\* As Each makes them of members that were rearranged.
LEMMA EachIsAlike ==
  ASSUME NEW s, NEW t, NEW F, NEW H, NEW p, IsSeq(s), IsSeq(t), Rearranged(s, t, p),
         F = [i \in DOMAIN s |-> F[i]], H = [i \in DOMAIN t |-> H[i]],
         \A i \in 1 .. Len(s) : IsSeq(F[i]) /\ F[i] = H[p[i]]
  PROVE  Shuffled(FlattenSeq(<<>> \o F), FlattenSeq(<<>> \o H))
<1>1. <<>> \o F = F /\ IsSeq(F) /\ Len(F) = Len(s)
  BY MapIs
<1>2. <<>> \o H = H /\ IsSeq(H) /\ Len(H) = Len(t)
  BY MapIs
<1>3. Rearranged(F, H, p)
  BY <1>1, <1>2 DEF Rearranged
<1> QED BY <1>1, <1>2, <1>3, BlocksAreAlike

\* What the analysers found, in the one order and in the other.
LEMMA GatheredAreAlike ==
  ASSUME NEW analyses, IsSeq(analyses), NEW field,
         \A i \in 1 .. Len(analyses) : IsSeq(analyses[i][field])
  PROVE  Shuffled(G!Gathered(analyses, field), G!Gathered(G!Reverse(analyses), field))
<1> DEFINE n == Len(analyses)
           R == G!Reverse(analyses)
           F == [i \in DOMAIN analyses |-> analyses[i][field]]
           H == [i \in DOMAIN R |-> R[i][field]]
           p == [i \in 1 .. n |-> n - i + 1]
<1>1. G!Gathered(analyses, field) = FlattenSeq(F) /\ G!Gathered(R, field) = FlattenSeq(H)
  BY OneFlattenSeq DEF G!Gathered
<1>2. n \in Nat /\ DOMAIN analyses = 1 .. n
  BY SeqIs
<1>3. R = [i \in 1 .. n |-> analyses[n - i + 1]]
  BY DEF G!Reverse
<1> HIDE DEF R, n
<1>4. /\ \A i \in 1 .. n : F[i] = analyses[i][field] /\ H[i] = analyses[n - i + 1][field]
      /\ F = [i \in 1 .. n |-> F[i]] /\ H = [i \in 1 .. n |-> H[i]]
  BY <1>2, <1>3
<1> HIDE DEF F, H
<1>5. IsSeq(F) /\ Len(F) = n /\ IsSeq(H) /\ Len(H) = n
  BY <1>2, <1>4, FunctionIsSeq
<1>6. \A i \in 1 .. n : n - i + 1 \in 1 .. n /\ n - (n - i + 1) + 1 = i
  BY <1>2
<1>7. \A i \in 1 .. n : p[i] \in 1 .. n /\ p[p[i]] = i
  BY <1>6
<1>8. \A i \in 1 .. n : F[i] = H[p[i]]
  BY <1>4, <1>6
<1>9. p \in [1 .. n -> 1 .. n]
  BY <1>7
<1> HIDE DEF p
<1>10. Rearranged(F, H, p)
  BY <1>5, <1>7, <1>8, <1>9 DEF Rearranged
<1>11. \A i \in 1 .. Len(F) : IsSeq(F[i])
  BY <1>4, <1>5 DEF n
<1>12. Shuffled(FlattenSeq(F), FlattenSeq(H))
  BY <1>5, <1>10, <1>11, BlocksAreAlike
<1> QED BY <1>1, <1>12 DEF R

\* The same members of a sequence and of its rearrangement.
Picking(s, t, p, P, Q) ==
  /\ IsSeq(s) /\ IsSeq(t) /\ Rearranged(s, t, p)
  /\ P \subseteq 1 .. Len(s) /\ Q \subseteq 1 .. Len(t)
  /\ \A i \in 1 .. Len(s) : i \in P <=> p[i] \in Q

\* Selections that the rearrangement maps to each other are equally long.
LEMMA CountsAgree ==
  ASSUME NEW s, NEW t, NEW p, NEW P, NEW Q, Picking(s, t, p, P, Q)
  PROVE  Len(Picked(s, P)) = Len(Picked(t, Q))
<1>0. /\ IsSeq(s) /\ IsSeq(t) /\ Rearranged(s, t, p)
      /\ P \subseteq 1 .. Len(s) /\ Q \subseteq 1 .. Len(t)
      /\ \A i \in 1 .. Len(s) : i \in P <=> p[i] \in Q
  BY DEF Picking
<1> DEFINE a == Len(Picked(s, P))
           b == Len(Picked(t, Q))
<1>1. IsSeq(Picked(s, P)) /\ IsSeq(Picked(t, Q))
  BY <1>0, PickedIs
<1>2. a \in Nat /\ b \in Nat
  BY <1>1, SeqIs
<1>3. PICK at : Picks(Picked(s, P), s, P, at)
  BY <1>0, PickedIs
<1>4. PICK in : Picks(Picked(t, Q), t, Q, in)
  BY <1>0, PickedIs
<1>5. /\ at \in [1 .. a -> P] /\ \A k, l \in 1 .. a : k < l => at[k] < at[l]
      /\ \A i \in P : \E k \in 1 .. a : at[k] = i
  BY <1>3 DEF Picks
<1>6. /\ in \in [1 .. b -> Q] /\ \A k, l \in 1 .. b : k < l => in[k] < in[l]
      /\ \A i \in Q : \E k \in 1 .. b : in[k] = i
  BY <1>4 DEF Picks
<1> HIDE DEF a, b
<1>7. /\ \A i \in 1 .. Len(s) : p[i] \in 1 .. Len(t)
      /\ \A i, j \in 1 .. Len(s) : i # j => p[i] # p[j]
      /\ \A j \in 1 .. Len(t) : \E i \in 1 .. Len(s) : p[i] = j
  BY <1>0 DEF Rearranged
<1>8. P \subseteq Nat /\ Q \subseteq Nat
  <2>1. Len(s) \in Nat /\ Len(t) \in Nat
    BY <1>0, SeqIs
  <2> QED BY <1>0, <2>1
<1>9. \A k, l \in 1 .. a : at[k] = at[l] => k = l
  <2> SUFFICES ASSUME NEW k \in 1 .. a, NEW l \in 1 .. a, at[k] = at[l] PROVE k = l
    OBVIOUS
  <2>1. at[k] \in Nat /\ at[l] \in Nat
    BY <1>5, <1>8
  <2>2. ~(k < l) /\ ~(l < k)
    BY <1>5, <2>1
  <2> QED BY <1>2, <2>2
<1>10. \A k, l \in 1 .. b : in[k] = in[l] => k = l
  <2> SUFFICES ASSUME NEW k \in 1 .. b, NEW l \in 1 .. b, in[k] = in[l] PROVE k = l
    OBVIOUS
  <2>1. in[k] \in Nat /\ in[l] \in Nat
    BY <1>6, <1>8
  <2>2. ~(k < l) /\ ~(l < k)
    BY <1>6, <2>1
  <2> QED BY <1>2, <2>2
<1> DEFINE f == [k \in 1 .. a |-> CHOOSE l \in 1 .. b : in[l] = p[at[k]]]
<1>11. ASSUME NEW k \in 1 .. a PROVE f[k] \in 1 .. b /\ in[f[k]] = p[at[k]]
  <2>1. at[k] \in P /\ at[k] \in 1 .. Len(s)
    BY <1>0, <1>5
  <2>2. p[at[k]] \in Q
    BY <1>0, <2>1
  <2> QED BY <1>6, <2>2
<1>12. f \in [1 .. a -> 1 .. b]
  BY <1>11
<1> HIDE DEF f
<1>13. ASSUME NEW k \in 1 .. a, NEW l \in 1 .. a, f[k] = f[l] PROVE k = l
  <2>1. at[k] \in 1 .. Len(s) /\ at[l] \in 1 .. Len(s)
    BY <1>0, <1>5
  <2>2. p[at[k]] = p[at[l]]
    BY <1>11, <1>13
  <2> QED BY <1>7, <1>9, <2>1, <2>2
<1>14. ASSUME NEW l \in 1 .. b PROVE \E k \in 1 .. a : f[k] = l
  <2>1. in[l] \in Q /\ in[l] \in 1 .. Len(t)
    BY <1>0, <1>6
  <2>2. PICK i \in 1 .. Len(s) : p[i] = in[l]
    BY <1>7, <2>1
  <2>3. i \in P
    BY <1>0, <2>1, <2>2
  <2>4. PICK k \in 1 .. a : at[k] = i
    BY <1>5, <2>3
  <2>5. f[k] \in 1 .. b /\ in[f[k]] = in[l]
    BY <1>11, <2>2, <2>4
  <2> QED BY <1>10, <2>5
<1> DEFINE A == 1 .. a
           B == 1 .. b
<1>15. IsFiniteSet(A) /\ Cardinality(A) = a /\ Cardinality(B) = b
  <2>1. 1 \in Int /\ a \in Int /\ b \in Int
    BY <1>2
  <2>2. IsFiniteSet(1 .. a) /\ Cardinality(1 .. a) = IF 1 > a THEN 0 ELSE a - 1 + 1
    BY ONLY <2>1, FS_Interval, Zenon
  <2>3. Cardinality(1 .. b) = IF 1 > b THEN 0 ELSE b - 1 + 1
    BY ONLY <2>1, FS_Interval, Zenon
  <2>4. (IF 1 > a THEN 0 ELSE a - 1 + 1) = a /\ (IF 1 > b THEN 0 ELSE b - 1 + 1) = b
    BY <1>2
  <2> QED BY <2>2, <2>3, <2>4
<1>16. /\ f \in [A -> B] /\ \A k, l \in A : f[k] = f[l] => k = l
       /\ \A l \in B : \E k \in A : f[k] = l
  BY <1>12, <1>13, <1>14
<1> HIDE DEF A, B
<1>17. f \in Bijection(A, B)
  BY <1>16 DEF Bijection, Injection, Surjection, IsInjective
<1>18. Cardinality(A) = Cardinality(B)
  BY <1>15, <1>17, FS_Bijection DEF ExistsBijection
<1> QED BY <1>15, <1>18 DEF a, b

-----------------------------------------------------------------------------
(* The first of each identifier *)

\* Of each identifier there is, one row stays.
LEMMA FirstsHold ==
  ASSUME NEW s, IsSeq(s)
  PROVE  LET q == G!FirstOfEach(s, G!ById)
         IN  /\ IsSeq(q) /\ ToSet(q) \subseteq ToSet(s)
             /\ \A x \in ToSet(s) : \E y \in ToSet(q) : y.id = x.id
<1> DEFINE P == Firsts(s)
           q == Picked(s, P)
<1>1. G!FirstOfEach(s, G!ById) = q
  BY FirstOfEachIs
<1>2. P \subseteq 1 .. Len(s)
  BY DEF Firsts
<1>3. IsSeq(q) /\ \E at : Picks(q, s, P, at)
  BY <1>2, PickedIs
<1>4. PICK at : Picks(q, s, P, at)
  BY <1>3
<1> HIDE DEF q
<1>5. ToSet(s) = {s[i] : i \in 1 .. Len(s)} /\ ToSet(q) = {q[k] : k \in 1 .. Len(q)}
  BY <1>3, ListIs
<1>6. ASSUME NEW k \in 1 .. Len(q) PROVE \E i \in 1 .. Len(s) : q[k] = s[i]
  <2>1. at[k] \in P /\ q[k] = s[at[k]]
    BY <1>4 DEF Picks
  <2> QED BY <1>2, <2>1
<1>7. ASSUME NEW i \in 1 .. Len(s) PROVE \E k \in 1 .. Len(q) : q[k].id = s[i].id
  <2> DEFINE S == {j \in 1 .. Len(s) : s[j].id = s[i].id}
  <2>1. Len(s) \in Nat
    BY SeqIs
  <2>2. S \subseteq Nat /\ S # {}
    BY <2>1
  <2>3. PICK m \in S : \A j \in S : m <= j
    <3> HIDE DEF S
    <3> QED BY <2>2, LeastIsThere
  <2>4. m \in 1 .. Len(s) /\ s[m].id = s[i].id
    OBVIOUS
  <2>5. ASSUME NEW j \in 1 .. m - 1 PROVE s[j].id # s[m].id
    <3>1. j \in 1 .. Len(s) /\ ~(m <= j)
      BY <2>1, <2>4
    <3> QED BY <2>3, <2>4, <3>1
  <2>6. m \in P
    BY <2>4, <2>5 DEF Firsts
  <2>7. PICK k \in 1 .. Len(q) : at[k] = m
    BY <1>4, <2>6 DEF Picks
  <2>8. q[k] = s[m]
    BY <1>4, <2>7 DEF Picks
  <2> QED BY <2>4, <2>8
<1>8. ToSet(q) \subseteq ToSet(s)
  BY <1>5, <1>6
<1>9. \A x \in ToSet(s) : \E y \in ToSet(q) : y.id = x.id
  BY <1>5, <1>7
<1> QED BY <1>1, <1>3, <1>8, <1>9

\* Which identifiers stay is a matter of what the rows hold, not of their order.
LEMMA IdsOfFirsts ==
  ASSUME NEW s, NEW t, IsSeq(s), IsSeq(t), ToSet(s) = ToSet(t)
  PROVE  G!Ids(G!DedupeUnresolved(s)) = G!Ids(G!DedupeUnresolved(t))
<1> DEFINE q == G!FirstOfEach(s, G!ById)
           r == G!FirstOfEach(t, G!ById)
<1>1. G!DedupeUnresolved(s) = q /\ G!DedupeUnresolved(t) = r
  BY DEF G!DedupeUnresolved
<1>2. /\ IsSeq(q) /\ ToSet(q) \subseteq ToSet(s) /\ \A x \in ToSet(s) : \E y \in ToSet(q) : y.id = x.id
      /\ IsSeq(r) /\ ToSet(r) \subseteq ToSet(t) /\ \A x \in ToSet(t) : \E y \in ToSet(r) : y.id = x.id
  BY FirstsHold
<1> HIDE DEF q, r
<1>3. G!Ids(q) = {x.id : x \in ToSet(q)} /\ G!Ids(r) = {x.id : x \in ToSet(r)}
  <2>1. DOMAIN q = 1 .. Len(q) /\ DOMAIN r = 1 .. Len(r)
    BY <1>2, SeqIs
  <2>2. ToSet(q) = {q[i] : i \in 1 .. Len(q)} /\ ToSet(r) = {r[i] : i \in 1 .. Len(r)}
    BY <1>2, ListIs
  <2> QED BY <2>1, <2>2 DEF G!Ids
<1>4. ASSUME NEW x \in ToSet(q) PROVE \E y \in ToSet(r) : y.id = x.id
  BY <1>2
<1>5. ASSUME NEW x \in ToSet(r) PROVE \E y \in ToSet(q) : y.id = x.id
  BY <1>2
<1> QED BY <1>1, <1>3, <1>4, <1>5

\* Where the identifier tells the rest, nothing is lost.
LEMMA FirstsAreAll ==
  ASSUME NEW s, IsSeq(s), \A x, y \in ToSet(s) : x.id = y.id => x = y
  PROVE  ToSet(G!FirstOfEach(s, G!ById)) = ToSet(s)
<1> DEFINE q == G!FirstOfEach(s, G!ById)
<1>1. ToSet(q) \subseteq ToSet(s) /\ \A x \in ToSet(s) : \E y \in ToSet(q) : y.id = x.id
  BY FirstsHold
<1> HIDE DEF q
<1>2. ASSUME NEW x \in ToSet(s) PROVE x \in ToSet(q)
  BY <1>1
<1>3. ToSet(q) = ToSet(s)
  BY <1>1, <1>2
<1> QED BY <1>3 DEF q

-----------------------------------------------------------------------------
(* What is pooled *)

\* What the sequence with one member holds.
LEMMA OneHolds == \A x : IsSeq(<<x>>) /\ ToSet(<<x>>) = {x}
<1> TAKE x
<1> DEFINE s == <<x>>
<1>1. IsSeq(s) /\ Len(s) = 1 /\ s[1] = x
  BY ShortSeqs
<1> HIDE DEF s
<1>2. ToSet(s) = {s[i] : i \in 1 .. Len(s)}
  BY <1>1, ListIs
<1>3. ToSet(s) = {x}
  BY <1>1, <1>2
<1> QED BY <1>1, <1>3 DEF s

\* Blocks of one member each, and what they come to.
Singles(H, t, v) ==
  /\ H = [k \in DOMAIN t |-> H[k]]
  /\ \A k \in 1 .. Len(t) : IsSeq(H[k]) /\ \A x : x \in ToSet(H[k]) <=> x = v[k]
Come(q, t, v) == IsSeq(q) /\ \A x : x \in ToSet(q) <=> \E k \in 1 .. Len(t) : x = v[k]

\* One value for each member, joined.
LEMMA SinglesHold ==
  ASSUME NEW t, IsSeq(t), NEW H, NEW v, Singles(H, t, v)
  PROVE  Come(FlattenSeq(<<>> \o H), t, v)
<1>0. /\ H = [k \in DOMAIN t |-> H[k]]
      /\ \A k \in 1 .. Len(t) : IsSeq(H[k]) /\ \A x : x \in ToSet(H[k]) <=> x = v[k]
  BY DEF Singles
<1>1. <<>> \o H = H /\ IsSeq(H) /\ Len(H) = Len(t)
  BY <1>0, MapIs
<1>2. /\ IsSeq(FlattenSeq(H))
      /\ \A x : x \in ToSet(FlattenSeq(H)) <=> \E k \in 1 .. Len(H) : x \in ToSet(H[k])
  BY <1>0, <1>1, FlattenHolds
<1>3. \A x : x \in ToSet(FlattenSeq(H)) <=> \E k \in 1 .. Len(t) : x = v[k]
  <2> TAKE x
  <2>1. \A k \in 1 .. Len(t) : x \in ToSet(H[k]) <=> x = v[k]
    BY <1>0
  <2> QED BY <1>1, <1>2, <2>1
<1> QED BY <1>1, <1>2, <1>3 DEF Come

\* Pooling makes one node for each first row of an identifier.
LEMMA PooledHolds ==
  ASSUME NEW rows, IsSeq(rows)
  PROVE  /\ IsSeq(G!Pooled(rows))
         /\ ToSet(G!Pooled(rows)) = {MergedNode(rows, y) : y \in ToSet(G!FirstOfEach(rows, G!ById))}
<1> DEFINE t == G!FirstOfEach(rows, G!ById)
           v == [k \in DOMAIN t |-> MergedNode(rows, t[k])]
           H == [k \in DOMAIN t |-> <<v[k]>>]
<1>1. G!Pooled(rows) = FlattenSeq(<<>> \o [k \in DOMAIN t |-> <<MergedNode(rows, t[k])>>])
  BY OneFlattenSeq DEF G!Pooled, G!Each, G!Selected, MergedNode
<1>2. IsSeq(t)
  BY FirstsHold
<1> HIDE DEF t
<1>3. H = [k \in DOMAIN t |-> <<MergedNode(rows, t[k])>>]
  OBVIOUS
<1>4. DOMAIN t = 1 .. Len(t) /\ ToSet(t) = {t[k] : k \in 1 .. Len(t)}
  BY <1>2, SeqIs, ListIs
<1>5. v = [k \in DOMAIN t |-> v[k]] /\ \A k \in 1 .. Len(t) : v[k] = MergedNode(rows, t[k])
  BY <1>4
<1> HIDE DEF v
<1>6. Singles(H, t, v)
  <2>1. \A k \in 1 .. Len(t) : H[k] = <<v[k]>>
    BY <1>4
  <2>2. H = [k \in DOMAIN t |-> H[k]]
    OBVIOUS
  <2> HIDE DEF H
  <2>3. ASSUME NEW k \in 1 .. Len(t) PROVE IsSeq(H[k]) /\ \A x : x \in ToSet(H[k]) <=> x = v[k]
    BY <2>1, OneHolds
  <2> QED BY <2>2, <2>3 DEF Singles
<1> HIDE DEF H
<1>7. Come(FlattenSeq(<<>> \o H), t, v)
  BY <1>2, <1>6, SinglesHold
<1>8. ToSet(FlattenSeq(<<>> \o H)) = {MergedNode(rows, y) : y \in ToSet(t)}
  BY <1>4, <1>5, <1>7 DEF Come
<1> QED BY <1>1, <1>3, <1>7, <1>8 DEF t, Come

\* A node with other values in four of its fields.
LEMMA ChangedNode ==
  ASSUME NEW id, NEW kind, NEW f, NEW h, NEW o, NEW name, NEW p, NEW first,
         first = [id |-> id, kind |-> kind, file |-> f, home |-> h, confidence |-> o, name |-> name, places |-> p],
         NEW c, NEW file, NEW home, NEW places
  PROVE  [first EXCEPT !.confidence = c, !.file = file, !.home = home, !.places = places]
         = [id |-> id, kind |-> kind, file |-> file, home |-> home, confidence |-> c, name |-> name,
            places |-> places]
<1> DEFINE x1 == [first EXCEPT !.confidence = c]
           x2 == [x1 EXCEPT !.file = file]
           x3 == [x2 EXCEPT !.home = home]
           x4 == [x3 EXCEPT !.places = places]
<1>2. [first EXCEPT !.confidence = c, !.file = file, !.home = home, !.places = places] = x4
  OBVIOUS
<1>3. x1 = [id |-> id, kind |-> kind, file |-> f, home |-> h, confidence |-> c, name |-> name, places |-> p]
  OBVIOUS
<1> HIDE DEF x1
<1>4. x2 = [id |-> id, kind |-> kind, file |-> file, home |-> h, confidence |-> c, name |-> name, places |-> p]
  BY <1>3
<1> HIDE DEF x2
<1>5. x3 = [id |-> id, kind |-> kind, file |-> file, home |-> home, confidence |-> c, name |-> name,
            places |-> p]
  BY <1>4
<1> HIDE DEF x3
<1>6. x4 = [id |-> id, kind |-> kind, file |-> file, home |-> home, confidence |-> c, name |-> name,
            places |-> places]
  BY <1>5
<1> QED BY <1>2, <1>6

\* Rows of one kind, each in the file it was found in, that count so many places.
Poolable(rows, kind, n) ==
  IsSeq(rows) /\ \A x \in ToSet(rows) : x = G!Node(x.id, kind, x.file, x.file, x.confidence, x.name, n)

SameId(rows, id) == {i \in 1 .. Len(rows) : rows[i].id = id}
Ones(rows, id)   == {x \in ToSet(rows) : x.id = id}
FileOf(file, ones) == IF \A r \in ones : r.file = file THEN file ELSE None
Best(ones) == G!Strongest({r.confidence : r \in ones})

\* A pooled node, as what depends on the rows of its identifier and what it takes from the first.
LEMMA MergedIs ==
  ASSUME NEW rows, NEW kind, NEW n, Poolable(rows, kind, n), NEW y \in ToSet(rows)
  PROVE  MergedNode(rows, y) =
           LET ones == Ones(rows, y.id)
           IN  G!Node(y.id, kind, FileOf(y.file, ones), FileOf(y.file, ones), Best(ones), y.name,
                      n * Len(Picked(rows, SameId(rows, y.id))))
<1> DEFINE F == [i \in DOMAIN rows |-> IF rows[i].id = y.id THEN <<rows[i]>> ELSE <<>>]
           P == SameId(rows, y.id)
           all == FlattenSeq(F)
           ones == Ones(rows, y.id)
<1>0. IsSeq(rows)
  BY DEF Poolable
<1>1. DOMAIN rows = 1 .. Len(rows)
  BY <1>0, SeqIs
<1>2. F = [i \in DOMAIN rows |-> IF i \in P THEN <<rows[i]>> ELSE <<>>] /\ P \subseteq 1 .. Len(rows)
  BY <1>1 DEF SameId
<1>3. all = Picked(rows, P)
  BY <1>2 DEF Picked
<1>4. MergedNode(rows, y) =
        LET alone == \A r \in G!ToSet(all) : r.file = y.file
        IN  [y EXCEPT !.confidence = G!Strongest({r.confidence : r \in G!ToSet(all)}),
                      !.file = IF alone THEN @ ELSE None,
                      !.home = IF alone THEN @ ELSE None,
                      !.places = @ * Len(all)]
  BY DEF MergedNode
<1> HIDE DEF F, all
<1>5. PICK at : Picks(all, rows, P, at)
  <2> HIDE DEF P
  <2> QED BY <1>0, <1>2, <1>3, PickedIs
<1>6. IsSeq(all)
  <2> HIDE DEF P
  <2> QED BY <1>0, <1>2, <1>3, PickedIs
<1>7. ToSet(rows) = {rows[i] : i \in 1 .. Len(rows)} /\ ToSet(all) = {all[k] : k \in 1 .. Len(all)}
  BY <1>0, <1>6, ListIs
<1>8. ToSet(all) = ones
  <2>1. ASSUME NEW k \in 1 .. Len(all) PROVE all[k] \in ones
    <3>1. at[k] \in P /\ all[k] = rows[at[k]]
      BY <1>5 DEF Picks
    <3> QED BY <1>7, <3>1 DEF SameId, Ones
  <2>2. ASSUME NEW x \in ones PROVE \E k \in 1 .. Len(all) : x = all[k]
    <3>1. x \in ToSet(rows) /\ x.id = y.id
      BY DEF Ones
    <3>2. PICK i \in 1 .. Len(rows) : x = rows[i]
      BY <1>7, <3>1
    <3>3. i \in P
      BY <3>1, <3>2 DEF SameId
    <3>4. PICK k \in 1 .. Len(all) : at[k] = i
      BY <1>5, <3>3 DEF Picks
    <3>5. all[k] = rows[i]
      BY <1>5, <3>4 DEF Picks
    <3> QED BY <3>2, <3>5
  <2> HIDE DEF ones
  <2> QED BY <1>7, <2>1, <2>2
<1>9. G!ToSet(all) = ones
  BY <1>8, OneToSet
<1> DEFINE file == FileOf(y.file, ones)
           c == Best(ones)
           l == Len(all)
           x == [y EXCEPT !.confidence = c, !.file = file, !.home = file, !.places = n * l]
           id == y.id
           f == y.file
           o == y.confidence
           name == y.name
<1>10. y = [id |-> id, kind |-> kind, file |-> f, home |-> f, confidence |-> o, name |-> name, places |-> n]
  BY DEF Poolable, G!Node
<1>11. y.file = f /\ y.home = f /\ y.places = n
  <2> HIDE DEF id, f, o, name
  <2> QED BY <1>10
<1>12. MergedNode(rows, y) = x
  <2> DEFINE alone == \A r \in ones : r.file = y.file
  <2> HIDE DEF ones
  <2>1. MergedNode(rows, y) = [y EXCEPT !.confidence = G!Strongest({r.confidence : r \in ones}),
                                        !.file = IF alone THEN y.file ELSE None,
                                        !.home = IF alone THEN y.home ELSE None,
                                        !.places = y.places * l]
    BY <1>4, <1>9
  <2>2. file = (IF alone THEN y.file ELSE None) /\ file = (IF alone THEN y.home ELSE None)
    BY <1>11 DEF FileOf
  <2>3. c = G!Strongest({r.confidence : r \in ones})
    BY DEF Best
  <2> HIDE DEF file, c, l, alone
  <2> QED BY <2>1, <2>2, <2>3, <1>11
<1> HIDE DEF file, c, id, f, o, name
<1> DEFINE places == n * l
<1>13. x = [y EXCEPT !.confidence = c, !.file = file, !.home = file, !.places = places]
  OBVIOUS
<1> HIDE DEF x, places
<1>14. x = [id |-> id, kind |-> kind, file |-> file, home |-> file, confidence |-> c, name |-> name,
            places |-> places]
  BY <1>10, <1>13, ChangedNode
<1> QED BY <1>3, <1>12, <1>14 DEF G!Node, file, c, id, name, places

\* A node without its name.
LEMMA UnnamedNode ==
  ASSUME NEW id, NEW kind, NEW file, NEW home, NEW c, NEW name, NEW places
  PROVE  G!Unnamed(G!Node(id, kind, file, home, c, name, places))
         = G!Node(id, kind, file, home, c, <<>>, places)
<1> DEFINE none == <<>>
           x == [id |-> id, kind |-> kind, file |-> file, home |-> home, confidence |-> c, name |-> name,
                 places |-> places]
<1>1. G!Node(id, kind, file, home, c, name, places) = x
  BY DEF G!Node
<1>2. G!Unnamed(x) = [x EXCEPT !.name = none]
  BY DEF G!Unnamed
<1> HIDE DEF none
<1>3. [x EXCEPT !.name = none] =
        [id |-> id, kind |-> kind, file |-> file, home |-> home, confidence |-> c, name |-> none,
         places |-> places]
  OBVIOUS
<1> QED BY <1>1, <1>2, <1>3 DEF G!Node, none

\* How often an identifier is there.
Counted(rows, id) == Len(Picked(rows, SameId(rows, id)))

\* Each node pooled in one order is pooled in the other, but for its name.
LEMMA PooledOnceMore ==
  ASSUME NEW rows, NEW others, NEW kind, NEW n, Poolable(rows, kind, n), Poolable(others, kind, n),
         ToSet(rows) = ToSet(others), \A id : n * Counted(rows, id) = n * Counted(others, id),
         NEW y \in ToSet(G!FirstOfEach(rows, G!ById))
  PROVE  \E z \in ToSet(G!FirstOfEach(others, G!ById)) :
           G!Unnamed(MergedNode(rows, y)) = G!Unnamed(MergedNode(others, z))
<1>0. IsSeq(rows) /\ IsSeq(others)
  BY DEF Poolable
<1>1. y \in ToSet(rows)
  BY <1>0, FirstsHold
<1>2. PICK z \in ToSet(G!FirstOfEach(others, G!ById)) : z.id = y.id
  BY <1>0, <1>1, FirstsHold
<1>3. z \in ToSet(others)
  BY <1>0, <1>2, FirstsHold
<1> DEFINE id == y.id
           ones == Ones(rows, id)
           file == FileOf(y.file, ones)
           other == FileOf(z.file, ones)
           c == Best(ones)
           p == n * Counted(rows, id)
           name == y.name
           called == z.name
<1>4. Ones(others, id) = ones
  BY DEF Ones
<1>5. MergedNode(rows, y) = G!Node(id, kind, file, file, c, name, p)
  BY <1>1, MergedIs DEF Counted
<1>6. MergedNode(others, z) = G!Node(id, kind, other, other, c, called, p)
  <2>1. MergedNode(others, z) = G!Node(id, kind, FileOf(z.file, Ones(others, id)), FileOf(z.file, Ones(others, id)),
                                       Best(Ones(others, id)), called, n * Counted(others, id))
    BY <1>2, <1>3, MergedIs DEF Counted
  <2>2. n * Counted(others, id) = p
    OBVIOUS
  <2> QED BY <1>4, <2>1, <2>2
<1>7. file = other
  <2>1. y \in ones /\ z \in ones
    BY <1>1, <1>2, <1>3 DEF Ones
  <2> HIDE DEF ones
  <2> QED BY <2>1 DEF FileOf
<1> HIDE DEF id, file, other, c, p, name, called
<1>8. G!Unnamed(MergedNode(rows, y)) = G!Node(id, kind, file, file, c, <<>>, p)
  BY <1>5, UnnamedNode
<1>9. G!Unnamed(MergedNode(others, z)) = G!Node(id, kind, file, file, c, <<>>, p)
  BY <1>6, <1>7, UnnamedNode
<1> QED BY <1>8, <1>9

\* The nodes of one list of rows and of the same rows in another order, but for their names.
LEMMA PooledAreAlike ==
  ASSUME NEW rows, NEW others, NEW kind, NEW n, Poolable(rows, kind, n), Poolable(others, kind, n),
         ToSet(rows) = ToSet(others), \A id : n * Counted(rows, id) = n * Counted(others, id)
  PROVE  {G!Unnamed(x) : x \in ToSet(G!Pooled(rows))} = {G!Unnamed(x) : x \in ToSet(G!Pooled(others))}
<1> DEFINE q == G!FirstOfEach(rows, G!ById)
           r == G!FirstOfEach(others, G!ById)
<1>1. /\ ToSet(G!Pooled(rows)) = {MergedNode(rows, y) : y \in ToSet(q)}
      /\ ToSet(G!Pooled(others)) = {MergedNode(others, z) : z \in ToSet(r)}
  BY PooledHolds DEF Poolable
<1>2. \A y \in ToSet(q) : \E z \in ToSet(r) : G!Unnamed(MergedNode(rows, y)) = G!Unnamed(MergedNode(others, z))
  BY PooledOnceMore
<1>3. \A z \in ToSet(r) : \E y \in ToSet(q) : G!Unnamed(MergedNode(others, z)) = G!Unnamed(MergedNode(rows, y))
  BY PooledOnceMore
<1> HIDE DEF q, r
<1> DEFINE A == {G!Unnamed(x) : x \in ToSet(G!Pooled(rows))}
           B == {G!Unnamed(x) : x \in ToSet(G!Pooled(others))}
<1>4. ASSUME NEW a \in A PROVE a \in B
  <2>1. PICK y \in ToSet(q) : a = G!Unnamed(MergedNode(rows, y))
    BY <1>1
  <2>2. PICK z \in ToSet(r) : a = G!Unnamed(MergedNode(others, z))
    BY <1>2, <2>1
  <2> QED BY <1>1, <2>2
<1>5. ASSUME NEW b \in B PROVE b \in A
  <2>1. PICK z \in ToSet(r) : b = G!Unnamed(MergedNode(others, z))
    BY <1>1
  <2>2. PICK y \in ToSet(q) : b = G!Unnamed(MergedNode(rows, y))
    BY <1>3, <2>1
  <2> QED BY <1>1, <2>2
<1> QED BY <1>4, <1>5

\* A node has the name of a row.
LEMMA PooledNames ==
  ASSUME NEW rows, NEW kind, NEW n, Poolable(rows, kind, n)
  PROVE  /\ \A x \in ToSet(G!Pooled(rows)) : \E y \in ToSet(rows) : x.id = y.id /\ x.name = y.name
         /\ \A y \in ToSet(rows) : \E x \in ToSet(G!Pooled(rows)) : x.id = y.id
<1> DEFINE q == G!FirstOfEach(rows, G!ById)
<1>1. IsSeq(rows) /\ ToSet(G!Pooled(rows)) = {MergedNode(rows, y) : y \in ToSet(q)}
  BY PooledHolds DEF Poolable
<1>2. ToSet(q) \subseteq ToSet(rows) /\ \A x \in ToSet(rows) : \E y \in ToSet(q) : y.id = x.id
  BY <1>1, FirstsHold
<1> HIDE DEF q
<1>3. ASSUME NEW y \in ToSet(rows) PROVE MergedNode(rows, y).id = y.id /\ MergedNode(rows, y).name = y.name
  <2> DEFINE ones == Ones(rows, y.id)
             id == y.id
             file == FileOf(y.file, ones)
             c == Best(ones)
             name == y.name
             p == n * Len(Picked(rows, SameId(rows, y.id)))
  <2>1. MergedNode(rows, y) = G!Node(id, kind, file, file, c, name, p)
    BY MergedIs
  <2> HIDE DEF id, file, c, name, p
  <2>2. MergedNode(rows, y).id = id /\ MergedNode(rows, y).name = name
    BY <2>1 DEF G!Node
  <2> QED BY <2>2 DEF id, name
<1> QED BY <1>1, <1>2, <1>3

\* A rearrangement has as many rows of an identifier.
LEMMA CountedAlike ==
  ASSUME NEW rows, NEW others, Shuffled(rows, others), NEW id
  PROVE  Counted(rows, id) = Counted(others, id)
<1>1. PICK p : Rearranged(rows, others, p)
  BY DEF Shuffled
<1> DEFINE P == SameId(rows, id)
           Q == SameId(others, id)
<1>2. \A i \in 1 .. Len(rows) : p[i] \in 1 .. Len(others) /\ rows[i] = others[p[i]]
  BY <1>1 DEF Rearranged
<1>3. P \subseteq 1 .. Len(rows) /\ Q \subseteq 1 .. Len(others)
  BY DEF SameId
<1>4. \A i \in 1 .. Len(rows) : i \in P <=> p[i] \in Q
  BY <1>2 DEF SameId
<1> HIDE DEF P, Q
<1>5. Picking(rows, others, p, P, Q)
  BY <1>1, <1>3, <1>4 DEF Picking, Shuffled
<1>6. Len(Picked(rows, P)) = Len(Picked(others, Q))
  BY <1>5, CountsAgree
<1> QED BY <1>6 DEF Counted, P, Q

-----------------------------------------------------------------------------
(* What each member contributes *)

\* Blocks made of the members of a sequence, and what is in each of them.
Blocks(F, s, v) ==
  /\ F = [i \in DOMAIN s |-> F[i]]
  /\ \A i \in 1 .. Len(s) : IsSeq(F[i]) /\ ToSet(F[i]) = v[s[i]]

\* What is made of each member, joined, is what is made of the members.
LEMMA BlocksHold ==
  ASSUME NEW s, IsSeq(s), NEW F, NEW v, Blocks(F, s, v)
  PROVE  ToSet(FlattenSeq(<<>> \o F)) = UNION {v[x] : x \in ToSet(s)}
<1>1. F = [i \in DOMAIN s |-> F[i]] /\ \A i \in 1 .. Len(s) : IsSeq(F[i]) /\ ToSet(F[i]) = v[s[i]]
  BY DEF Blocks
<1>2. <<>> \o F = F /\ IsSeq(F) /\ Len(F) = Len(s)
  BY <1>1, MapIs
<1>3. \A x : x \in ToSet(FlattenSeq(F)) <=> \E i \in 1 .. Len(F) : x \in ToSet(F[i])
  BY <1>1, <1>2, FlattenHolds
<1>4. ToSet(s) = {s[i] : i \in 1 .. Len(s)}
  BY ListIs
<1>5. ASSUME NEW x PROVE x \in ToSet(FlattenSeq(F)) <=> x \in UNION {v[y] : y \in ToSet(s)}
  <2>1. x \in ToSet(FlattenSeq(F)) <=> \E i \in 1 .. Len(s) : x \in v[s[i]]
    <3>1. \A i \in 1 .. Len(s) : x \in ToSet(F[i]) <=> x \in v[s[i]]
      BY <1>1
    <3>2. x \in ToSet(FlattenSeq(F)) <=> \E i \in 1 .. Len(s) : x \in ToSet(F[i])
      BY <1>2, <1>3
    <3> QED BY <3>1, <3>2
  <2>2. (\E i \in 1 .. Len(s) : x \in v[s[i]]) <=> \E y \in ToSet(s) : x \in v[y]
    BY <1>4
  <2> QED BY <2>1, <2>2
<1> QED BY <1>2, <1>5

\* The edges of facts that make one edge each or none.
LEMMA EdgesHold ==
  ASSUME NEW s, IsSeq(s)
  PROVE  /\ ToSet(G!Each(s, G!RelationshipEdge)) = UNION {ToSet(G!RelationshipEdge(x)) : x \in ToSet(s)}
         /\ ToSet(G!Each(s, G!Reads)) = UNION {ToSet(G!Reads(x)) : x \in ToSet(s)}
         /\ ToSet(G!Each(s, G!CallEdge)) = UNION {ToSet(G!CallEdge(x)) : x \in ToSet(s)}
         /\ ToSet(G!Each(s, G!ExternalCallEdge)) = UNION {ToSet(G!ExternalCallEdge(x)) : x \in ToSet(s)}
<1>1. DOMAIN s = 1 .. Len(s) /\ \A i \in 1 .. Len(s) : s[i] \in ToSet(s)
  BY MembersAre
<1>2. ToSet(G!Each(s, G!RelationshipEdge)) = UNION {ToSet(G!RelationshipEdge(x)) : x \in ToSet(s)}
  <2> DEFINE F == [i \in DOMAIN s |-> G!RelationshipEdge(s[i])]
             v == [x \in ToSet(s) |-> ToSet(G!RelationshipEdge(x))]
  <2>1. G!Each(s, G!RelationshipEdge) = FlattenSeq(<<>> \o F)
    BY OneFlattenSeq DEF G!Each
  <2>2. \A x \in ToSet(s) : IsSeq(G!RelationshipEdge(x))
    BY ShortSeqs DEF G!RelationshipEdge
  <2>3. Blocks(F, s, v)
    BY <1>1, <2>2 DEF Blocks
  <2>4. {v[x] : x \in ToSet(s)} = {ToSet(G!RelationshipEdge(x)) : x \in ToSet(s)}
    OBVIOUS
  <2> HIDE DEF F, v
  <2>5. ToSet(FlattenSeq(<<>> \o F)) = UNION {v[x] : x \in ToSet(s)}
    BY <2>3, BlocksHold
  <2> QED BY <2>1, <2>4, <2>5
<1>3. ToSet(G!Each(s, G!Reads)) = UNION {ToSet(G!Reads(x)) : x \in ToSet(s)}
  <2> DEFINE F == [i \in DOMAIN s |-> G!Reads(s[i])]
             v == [x \in ToSet(s) |-> ToSet(G!Reads(x))]
  <2>1. G!Each(s, G!Reads) = FlattenSeq(<<>> \o F)
    BY OneFlattenSeq DEF G!Each
  <2>2. \A x \in ToSet(s) : IsSeq(G!Reads(x))
    BY ShortSeqs DEF G!Reads
  <2>3. Blocks(F, s, v)
    BY <1>1, <2>2 DEF Blocks
  <2>4. {v[x] : x \in ToSet(s)} = {ToSet(G!Reads(x)) : x \in ToSet(s)}
    OBVIOUS
  <2> HIDE DEF F, v
  <2>5. ToSet(FlattenSeq(<<>> \o F)) = UNION {v[x] : x \in ToSet(s)}
    BY <2>3, BlocksHold
  <2> QED BY <2>1, <2>4, <2>5
<1>4. ToSet(G!Each(s, G!CallEdge)) = UNION {ToSet(G!CallEdge(x)) : x \in ToSet(s)}
  <2> DEFINE F == [i \in DOMAIN s |-> G!CallEdge(s[i])]
             v == [x \in ToSet(s) |-> ToSet(G!CallEdge(x))]
  <2>1. G!Each(s, G!CallEdge) = FlattenSeq(<<>> \o F)
    BY OneFlattenSeq DEF G!Each
  <2>2. \A x \in ToSet(s) : IsSeq(G!CallEdge(x))
    BY ShortSeqs DEF G!CallEdge
  <2>3. Blocks(F, s, v)
    BY <1>1, <2>2 DEF Blocks
  <2>4. {v[x] : x \in ToSet(s)} = {ToSet(G!CallEdge(x)) : x \in ToSet(s)}
    OBVIOUS
  <2> HIDE DEF F, v
  <2>5. ToSet(FlattenSeq(<<>> \o F)) = UNION {v[x] : x \in ToSet(s)}
    BY <2>3, BlocksHold
  <2> QED BY <2>1, <2>4, <2>5
<1>5. ToSet(G!Each(s, G!ExternalCallEdge)) = UNION {ToSet(G!ExternalCallEdge(x)) : x \in ToSet(s)}
  <2> DEFINE F == [i \in DOMAIN s |-> G!ExternalCallEdge(s[i])]
             v == [x \in ToSet(s) |-> ToSet(G!ExternalCallEdge(x))]
  <2>1. G!Each(s, G!ExternalCallEdge) = FlattenSeq(<<>> \o F)
    BY OneFlattenSeq DEF G!Each
  <2>2. \A x \in ToSet(s) : IsSeq(G!ExternalCallEdge(x))
    BY ShortSeqs DEF G!ExternalCallEdge
  <2>3. Blocks(F, s, v)
    BY <1>1, <2>2 DEF Blocks
  <2>4. {v[x] : x \in ToSet(s)} = {ToSet(G!ExternalCallEdge(x)) : x \in ToSet(s)}
    OBVIOUS
  <2> HIDE DEF F, v
  <2>5. ToSet(FlattenSeq(<<>> \o F)) = UNION {v[x] : x \in ToSet(s)}
    BY <2>3, BlocksHold
  <2> QED BY <2>1, <2>4, <2>5
<1> QED BY <1>2, <1>3, <1>4, <1>5

\* The rows of facts that make one row each or none.
LEMMA RowsHold ==
  ASSUME NEW s, IsSeq(s)
  PROVE  /\ ToSet(G!Each(s, G!UnresolvedRow)) = UNION {ToSet(G!UnresolvedRow(x)) : x \in ToSet(s)}
         /\ ToSet(G!Each(s, G!ReadsMissing)) = UNION {ToSet(G!ReadsMissing(x)) : x \in ToSet(s)}
         /\ ToSet(G!Each(s, G!UnresolvedCall)) = UNION {ToSet(G!UnresolvedCall(x)) : x \in ToSet(s)}
<1>1. DOMAIN s = 1 .. Len(s) /\ \A i \in 1 .. Len(s) : s[i] \in ToSet(s)
  BY MembersAre
<1>2. ToSet(G!Each(s, G!UnresolvedRow)) = UNION {ToSet(G!UnresolvedRow(x)) : x \in ToSet(s)}
  <2> DEFINE F == [i \in DOMAIN s |-> G!UnresolvedRow(s[i])]
             v == [x \in ToSet(s) |-> ToSet(G!UnresolvedRow(x))]
  <2>1. G!Each(s, G!UnresolvedRow) = FlattenSeq(<<>> \o F)
    BY OneFlattenSeq DEF G!Each
  <2>2. \A x \in ToSet(s) : IsSeq(G!UnresolvedRow(x))
    BY ShortSeqs DEF G!UnresolvedRow
  <2>3. Blocks(F, s, v)
    BY <1>1, <2>2 DEF Blocks
  <2>4. {v[x] : x \in ToSet(s)} = {ToSet(G!UnresolvedRow(x)) : x \in ToSet(s)}
    OBVIOUS
  <2> HIDE DEF F, v
  <2>5. ToSet(FlattenSeq(<<>> \o F)) = UNION {v[x] : x \in ToSet(s)}
    BY <2>3, BlocksHold
  <2> QED BY <2>1, <2>4, <2>5
<1>3. ToSet(G!Each(s, G!ReadsMissing)) = UNION {ToSet(G!ReadsMissing(x)) : x \in ToSet(s)}
  <2> DEFINE F == [i \in DOMAIN s |-> G!ReadsMissing(s[i])]
             v == [x \in ToSet(s) |-> ToSet(G!ReadsMissing(x))]
  <2>1. G!Each(s, G!ReadsMissing) = FlattenSeq(<<>> \o F)
    BY OneFlattenSeq DEF G!Each
  <2>2. \A x \in ToSet(s) : IsSeq(G!ReadsMissing(x))
    BY ShortSeqs DEF G!ReadsMissing
  <2>3. Blocks(F, s, v)
    BY <1>1, <2>2 DEF Blocks
  <2>4. {v[x] : x \in ToSet(s)} = {ToSet(G!ReadsMissing(x)) : x \in ToSet(s)}
    OBVIOUS
  <2> HIDE DEF F, v
  <2>5. ToSet(FlattenSeq(<<>> \o F)) = UNION {v[x] : x \in ToSet(s)}
    BY <2>3, BlocksHold
  <2> QED BY <2>1, <2>4, <2>5
<1>4. ToSet(G!Each(s, G!UnresolvedCall)) = UNION {ToSet(G!UnresolvedCall(x)) : x \in ToSet(s)}
  <2> DEFINE F == [i \in DOMAIN s |-> G!UnresolvedCall(s[i])]
             v == [x \in ToSet(s) |-> ToSet(G!UnresolvedCall(x))]
  <2>1. G!Each(s, G!UnresolvedCall) = FlattenSeq(<<>> \o F)
    BY OneFlattenSeq DEF G!Each
  <2>2. \A x \in ToSet(s) : IsSeq(G!UnresolvedCall(x))
    BY ShortSeqs DEF G!UnresolvedCall
  <2>3. Blocks(F, s, v)
    BY <1>1, <2>2 DEF Blocks
  <2>4. {v[x] : x \in ToSet(s)} = {ToSet(G!UnresolvedCall(x)) : x \in ToSet(s)}
    OBVIOUS
  <2> HIDE DEF F, v
  <2>5. ToSet(FlattenSeq(<<>> \o F)) = UNION {v[x] : x \in ToSet(s)}
    BY <2>3, BlocksHold
  <2> QED BY <2>1, <2>4, <2>5
<1> QED BY <1>2, <1>3, <1>4

\* The nodes of facts that make one node each or none.
LEMMA NodesHold ==
  ASSUME NEW s, IsSeq(s)
  PROVE  /\ ToSet(G!Each(s, G!DeclarationNode)) = UNION {ToSet(G!DeclarationNode(x)) : x \in ToSet(s)}
         /\ ToSet(G!Each(s, G!RouteNode)) = UNION {ToSet(G!RouteNode(x)) : x \in ToSet(s)}
         /\ ToSet(G!Each(s, G!VariableNode)) = UNION {ToSet(G!VariableNode(x)) : x \in ToSet(s)}
<1>1. DOMAIN s = 1 .. Len(s) /\ \A i \in 1 .. Len(s) : s[i] \in ToSet(s)
  BY MembersAre
<1>2. ToSet(G!Each(s, G!DeclarationNode)) = UNION {ToSet(G!DeclarationNode(x)) : x \in ToSet(s)}
  <2> DEFINE F == [i \in DOMAIN s |-> G!DeclarationNode(s[i])]
             v == [x \in ToSet(s) |-> ToSet(G!DeclarationNode(x))]
  <2>1. G!Each(s, G!DeclarationNode) = FlattenSeq(<<>> \o F)
    BY OneFlattenSeq DEF G!Each
  <2>2. \A x \in ToSet(s) : IsSeq(G!DeclarationNode(x))
    BY ShortSeqs DEF G!DeclarationNode
  <2>3. Blocks(F, s, v)
    BY <1>1, <2>2 DEF Blocks
  <2>4. {v[x] : x \in ToSet(s)} = {ToSet(G!DeclarationNode(x)) : x \in ToSet(s)}
    OBVIOUS
  <2> HIDE DEF F, v
  <2>5. ToSet(FlattenSeq(<<>> \o F)) = UNION {v[x] : x \in ToSet(s)}
    BY <2>3, BlocksHold
  <2> QED BY <2>1, <2>4, <2>5
<1>3. ToSet(G!Each(s, G!RouteNode)) = UNION {ToSet(G!RouteNode(x)) : x \in ToSet(s)}
  <2> DEFINE F == [i \in DOMAIN s |-> G!RouteNode(s[i])]
             v == [x \in ToSet(s) |-> ToSet(G!RouteNode(x))]
  <2>1. G!Each(s, G!RouteNode) = FlattenSeq(<<>> \o F)
    BY OneFlattenSeq DEF G!Each
  <2>2. \A x \in ToSet(s) : IsSeq(G!RouteNode(x))
    BY ShortSeqs DEF G!RouteNode
  <2>3. Blocks(F, s, v)
    BY <1>1, <2>2 DEF Blocks
  <2>4. {v[x] : x \in ToSet(s)} = {ToSet(G!RouteNode(x)) : x \in ToSet(s)}
    OBVIOUS
  <2> HIDE DEF F, v
  <2>5. ToSet(FlattenSeq(<<>> \o F)) = UNION {v[x] : x \in ToSet(s)}
    BY <2>3, BlocksHold
  <2> QED BY <2>1, <2>4, <2>5
<1>4. ToSet(G!Each(s, G!VariableNode)) = UNION {ToSet(G!VariableNode(x)) : x \in ToSet(s)}
  <2> DEFINE F == [i \in DOMAIN s |-> G!VariableNode(s[i])]
             v == [x \in ToSet(s) |-> ToSet(G!VariableNode(x))]
  <2>1. G!Each(s, G!VariableNode) = FlattenSeq(<<>> \o F)
    BY OneFlattenSeq DEF G!Each
  <2>2. \A x \in ToSet(s) : IsSeq(G!VariableNode(x))
    BY ShortSeqs DEF G!VariableNode
  <2>3. Blocks(F, s, v)
    BY <1>1, <2>2 DEF Blocks
  <2>4. {v[x] : x \in ToSet(s)} = {ToSet(G!VariableNode(x)) : x \in ToSet(s)}
    OBVIOUS
  <2> HIDE DEF F, v
  <2>5. ToSet(FlattenSeq(<<>> \o F)) = UNION {v[x] : x \in ToSet(s)}
    BY <2>3, BlocksHold
  <2> QED BY <2>1, <2>4, <2>5
<1> QED BY <1>2, <1>3, <1>4

\* The rows of one route are a list.
LEMMA HandlersMissingIsSeq ==
  ASSUME NEW r, IsSeq(r.handlers)
  PROVE  IsSeq(G!HandlersMissing(r))
<1> DEFINE t == r.handlers
           E(h) == G!Row(<<"HANDLED_BY", G!RouteId(r.method, r.path), h.name, r.at>>, "HANDLED_BY",
                         G!RouteId(r.method, r.path), r.home)
           H == [k \in DOMAIN t |-> IF t[k].target # None THEN <<>> ELSE <<E(t[k])>>]
           other == G!Row(<<"HANDLED_BY", r.home, <<r.method>> \o r.path, r.at>>, "HANDLED_BY", r.source, r.home)
<1>1. G!HandlersMissing(r) = IF G!IsAbsolute(r.path) THEN FlattenSeq(<<>> \o H) ELSE <<other>>
  BY OneFlattenSeq DEF G!HandlersMissing, G!Each
<1>2. IsSeq(t) /\ DOMAIN t = 1 .. Len(t)
  BY SeqIs
<1> HIDE DEF E, other, t
<1>3. H = [k \in DOMAIN t |-> H[k]] /\ \A k \in 1 .. Len(t) : IsSeq(H[k])
  BY <1>2, ShortSeqs
<1> HIDE DEF H
<1>4. IsSeq(FlattenSeq(<<>> \o H))
  BY <1>2, <1>3, EachIsSeq
<1> QED BY <1>1, <1>4, ShortSeqs

\* The edges and the rows of handlers.
LEMMA HandlingHolds ==
  ASSUME NEW s, IsSeq(s), \A r \in ToSet(s) : IsSeq(r.handlers)
  PROVE  /\ ToSet(G!Each(s, G!HandledBy)) = UNION {ToSet(G!HandledBy(x)) : x \in ToSet(s)}
         /\ ToSet(G!Each(s, G!HandlersMissing)) = UNION {ToSet(G!HandlersMissing(x)) : x \in ToSet(s)}
<1>1. DOMAIN s = 1 .. Len(s) /\ \A i \in 1 .. Len(s) : s[i] \in ToSet(s)
  BY MembersAre
<1>2. ToSet(G!Each(s, G!HandledBy)) = UNION {ToSet(G!HandledBy(x)) : x \in ToSet(s)}
  <2> DEFINE F == [i \in DOMAIN s |-> G!HandledBy(s[i])]
             v == [x \in ToSet(s) |-> ToSet(G!HandledBy(x))]
  <2>1. G!Each(s, G!HandledBy) = FlattenSeq(<<>> \o F)
    BY OneFlattenSeq DEF G!Each
  <2>2. \A x \in ToSet(s) : IsSeq(G!HandledBy(x))
    BY HandledByIsSeq
  <2>3. Blocks(F, s, v)
    BY <1>1, <2>2 DEF Blocks
  <2>4. {v[x] : x \in ToSet(s)} = {ToSet(G!HandledBy(x)) : x \in ToSet(s)}
    OBVIOUS
  <2> HIDE DEF F, v
  <2>5. ToSet(FlattenSeq(<<>> \o F)) = UNION {v[x] : x \in ToSet(s)}
    BY <2>3, BlocksHold
  <2> QED BY <2>1, <2>4, <2>5
<1>3. ToSet(G!Each(s, G!HandlersMissing)) = UNION {ToSet(G!HandlersMissing(x)) : x \in ToSet(s)}
  <2> DEFINE F == [i \in DOMAIN s |-> G!HandlersMissing(s[i])]
             v == [x \in ToSet(s) |-> ToSet(G!HandlersMissing(x))]
  <2>1. G!Each(s, G!HandlersMissing) = FlattenSeq(<<>> \o F)
    BY OneFlattenSeq DEF G!Each
  <2>2. \A x \in ToSet(s) : IsSeq(G!HandlersMissing(x))
    BY HandlersMissingIsSeq
  <2>3. Blocks(F, s, v)
    BY <1>1, <2>2 DEF Blocks
  <2>4. {v[x] : x \in ToSet(s)} = {ToSet(G!HandlersMissing(x)) : x \in ToSet(s)}
    OBVIOUS
  <2> HIDE DEF F, v
  <2>5. ToSet(FlattenSeq(<<>> \o F)) = UNION {v[x] : x \in ToSet(s)}
    BY <2>3, BlocksHold
  <2> QED BY <2>1, <2>4, <2>5
<1> QED BY <1>2, <1>3

\* What declares a declaration is a matter of which declarations there are.
LEMMA DeclaringHolds ==
  ASSUME NEW s, NEW t, IsSeq(s), IsSeq(t), ToSet(s) = ToSet(t)
  PROVE  ToSet(G!DeclaresEdges(s)) = ToSet(G!DeclaresEdges(t))
<1> DEFINE declared == {G!DeclarationId(d) : d \in ToSet(s)}
           E(d) == G!Edge("DECLARES", G!DeclaringNodeIdOf(d, declared), G!DeclarationId(d), <<>>,
                          G!FileId(d.file), Head(d.at))
           F == [i \in DOMAIN s |-> <<E(s[i])>>]
           H == [i \in DOMAIN t |-> <<E(t[i])>>]
           v == [x \in ToSet(s) |-> {E(x)}]
<1>1. G!DeclaresEdges(s) = FlattenSeq(<<>> \o F)
  BY OneFlattenSeq, OneToSet DEF G!DeclaresEdges, G!Each
<1>2. G!DeclaresEdges(t) = FlattenSeq(<<>> \o H)
  BY OneFlattenSeq, OneToSet DEF G!DeclaresEdges, G!Each
<1>3. /\ DOMAIN s = 1 .. Len(s) /\ \A i \in 1 .. Len(s) : s[i] \in ToSet(s)
      /\ DOMAIN t = 1 .. Len(t) /\ \A i \in 1 .. Len(t) : t[i] \in ToSet(s)
  BY MembersAre
<1> HIDE DEF E
<1>4. Blocks(F, s, v) /\ Blocks(H, t, v)
  BY <1>3, OneHolds DEF Blocks
<1> HIDE DEF F, H, v
<1>5. /\ ToSet(FlattenSeq(<<>> \o F)) = UNION {v[x] : x \in ToSet(s)}
      /\ ToSet(FlattenSeq(<<>> \o H)) = UNION {v[x] : x \in ToSet(t)}
  BY <1>4, BlocksHold
<1> QED BY <1>1, <1>2, <1>5

\* How many rows there are of an identifier is a number.
LEMMA CountedIsNat ==
  ASSUME NEW rows, IsSeq(rows), NEW id
  PROVE  Counted(rows, id) \in Nat
<1> DEFINE P == SameId(rows, id)
<1>1. P \subseteq 1 .. Len(rows)
  BY DEF SameId
<1> HIDE DEF P
<1>2. IsSeq(Picked(rows, P))
  BY <1>1, PickedIs
<1> QED BY <1>2, SeqIs DEF Counted, P

\* The externals there are references to.
IntroducedBy(R, C) ==
  {G!Node(G!TargetIdentity(r), "External", None, None, r.confidence, Tail(G!TargetIdentity(r)), 0) :
     r \in {q \in R : q.external}}
  \cup {G!Node(G!ExternalId(c.target, c.name), "External", None, None, c.confidence,
               Tail(G!ExternalId(c.target, c.name)), 0) : c \in C}

\* The rows that externals are pooled from: those of relationships and of calls.
LEMMA ExternalRowsAre ==
  ASSUME NEW relationships, IsSeq(relationships), NEW calls, IsSeq(calls)
  PROVE  \E rows : /\ G!RegisterExternals(relationships, calls) = G!Pooled(rows)
                   /\ Poolable(rows, "External", 0)
                   /\ ToSet(rows) = IntroducedBy(ToSet(relationships), ToSet(calls))
<1> DEFINE E(id, confidence) == G!Node(id, "External", None, None, confidence, Tail(id), 0)
           R(r) == E(G!TargetIdentity(r), r.confidence)
           C(c) == E(G!ExternalId(c.target, c.name), c.confidence)
           F == [i \in DOMAIN relationships |-> IF relationships[i].external THEN <<R(relationships[i])>> ELSE <<>>]
           H == [i \in DOMAIN calls |-> <<C(calls[i])>>]
           v == [x \in ToSet(relationships) |-> IF x.external THEN {R(x)} ELSE {}]
           w == [x \in ToSet(calls) |-> {C(x)}]
           f == FlattenSeq(<<>> \o F)
           h == FlattenSeq(<<>> \o H)
           rows == f \o h
<1>1. G!RegisterExternals(relationships, calls) = G!Pooled(rows)
  BY OneFlattenSeq DEF G!RegisterExternals, G!Each
<1>2. /\ DOMAIN relationships = 1 .. Len(relationships)
      /\ \A i \in 1 .. Len(relationships) : relationships[i] \in ToSet(relationships)
      /\ DOMAIN calls = 1 .. Len(calls) /\ \A i \in 1 .. Len(calls) : calls[i] \in ToSet(calls)
  BY MembersAre
<1>3. IsSeq(<<>>) /\ ToSet(<<>>) = {}
  BY ShortSeqs DEF ToSet
<1>4. IntroducedBy(ToSet(relationships), ToSet(calls))
      = {R(r) : r \in {q \in ToSet(relationships) : q.external}} \cup {C(c) : c \in ToSet(calls)}
  BY DEF IntroducedBy
<1>5. \A id, c : E(id, c).id = id /\ E(id, c) = G!Node(id, "External", E(id, c).file, E(id, c).file,
                                                         E(id, c).confidence, E(id, c).name, 0)
  BY DEF G!Node
<1> HIDE DEF E
<1>6. Blocks(F, relationships, v)
  <2> HIDE DEF R
  <2>1. F = [i \in DOMAIN relationships |-> F[i]]
    OBVIOUS
  <2>2. ASSUME NEW i \in 1 .. Len(relationships)
        PROVE  IsSeq(F[i]) /\ ToSet(F[i]) = v[relationships[i]]
    BY <1>2, <1>3, OneHolds
  <2> QED BY <2>1, <2>2 DEF Blocks
<1>7. Blocks(H, calls, w)
  <2> HIDE DEF C
  <2>1. H = [i \in DOMAIN calls |-> H[i]]
    OBVIOUS
  <2>2. ASSUME NEW i \in 1 .. Len(calls)
        PROVE  IsSeq(H[i]) /\ ToSet(H[i]) = w[calls[i]]
    BY <1>2, OneHolds
  <2> QED BY <2>1, <2>2 DEF Blocks
<1>8. UNION {v[x] : x \in ToSet(relationships)} = {R(r) : r \in {q \in ToSet(relationships) : q.external}}
  <2> HIDE DEF R
  <2> QED OBVIOUS
<1>9. UNION {w[x] : x \in ToSet(calls)} = {C(c) : c \in ToSet(calls)}
  <2> HIDE DEF C
  <2> QED OBVIOUS
<1> HIDE DEF F, H, v, w
<1>10. ToSet(f) = UNION {v[x] : x \in ToSet(relationships)} /\ ToSet(h) = UNION {w[x] : x \in ToSet(calls)}
  BY <1>6, <1>7, BlocksHold
<1>11. IsSeq(f)
  <2>1. F = [i \in DOMAIN relationships |-> F[i]] /\ \A i \in 1 .. Len(relationships) : IsSeq(F[i])
    BY <1>6 DEF Blocks
  <2> QED BY <2>1, EachIsSeq
<1>12. IsSeq(h)
  <2>1. H = [i \in DOMAIN calls |-> H[i]] /\ \A i \in 1 .. Len(calls) : IsSeq(H[i])
    BY <1>7 DEF Blocks
  <2> QED BY <2>1, EachIsSeq
<1> HIDE DEF f, h
<1>13. IsSeq(rows) /\ ToSet(rows) = ToSet(f) \cup ToSet(h)
  BY <1>11, <1>12, BothHold
<1> HIDE DEF rows
<1>14. \A x \in ToSet(rows) : \E id, c : x = E(id, c)
  <2> TAKE x \in ToSet(rows)
  <2>1. (\E r : x = R(r)) \/ (\E c : x = C(c))
    BY <1>8, <1>9, <1>10, <1>13
  <2>2. CASE \E r : x = R(r)
    BY <2>2
  <2>3. CASE \E c : x = C(c)
    BY <2>3
  <2> QED BY <2>1, <2>2, <2>3
<1>15. Poolable(rows, "External", 0)
  BY <1>5, <1>13, <1>14 DEF Poolable
<1> HIDE DEF R, C
<1>16. ToSet(rows) = IntroducedBy(ToSet(relationships), ToSet(calls))
  BY <1>4, <1>8, <1>9, <1>10, <1>13
<1> QED BY <1>1, <1>15, <1>16

\* Externals are the same in any order, but for their names.
LEMMA ExternalsAreAlike ==
  ASSUME NEW s, NEW t, NEW calls, NEW others, IsSeq(s), IsSeq(t), ToSet(s) = ToSet(t),
         IsSeq(calls), IsSeq(others), ToSet(calls) = ToSet(others)
  PROVE  {G!Unnamed(x) : x \in ToSet(G!RegisterExternals(s, calls))}
         = {G!Unnamed(x) : x \in ToSet(G!RegisterExternals(t, others))}
<1> DEFINE kind == "External"
           n == 0
<1>1. PICK q : /\ G!RegisterExternals(s, calls) = G!Pooled(q) /\ Poolable(q, kind, n)
               /\ ToSet(q) = IntroducedBy(ToSet(s), ToSet(calls))
  BY ExternalRowsAre
<1>2. PICK r : /\ G!RegisterExternals(t, others) = G!Pooled(r) /\ Poolable(r, kind, n)
               /\ ToSet(r) = IntroducedBy(ToSet(t), ToSet(others))
  BY ExternalRowsAre
<1>3. \A id : n * Counted(q, id) = n * Counted(r, id)
  <2> TAKE id
  <2>1. Counted(q, id) \in Nat /\ Counted(r, id) \in Nat
    BY <1>1, <1>2, CountedIsNat DEF Poolable
  <2> QED BY <2>1
<1> HIDE DEF kind, n
<1>4. {G!Unnamed(x) : x \in ToSet(G!Pooled(q))} = {G!Unnamed(x) : x \in ToSet(G!Pooled(r))}
  BY <1>1, <1>2, <1>3, PooledAreAlike
<1> QED BY <1>1, <1>2, <1>4

\* The rows of routes and of variables.
LEMMA RowsArePoolable ==
  ASSUME NEW s, IsSeq(s)
  PROVE  /\ Poolable(G!Each(s, G!RouteNode), "Route", 1)
         /\ Poolable(G!Each(s, G!VariableNode), "EnvironmentVariable", 1)
         /\ \A x \in ToSet(G!Each(s, G!RouteNode)) : \E r \in ToSet(s) :
              G!IsAbsolute(r.path) /\ x.id = G!RouteId(r.method, r.path) /\ x.name = <<r.method>> \o r.path
<1>1. /\ ToSet(G!Each(s, G!RouteNode)) = UNION {ToSet(G!RouteNode(x)) : x \in ToSet(s)}
      /\ ToSet(G!Each(s, G!VariableNode)) = UNION {ToSet(G!VariableNode(x)) : x \in ToSet(s)}
  BY NodesHold
<1>2. ToSet(<<>>) = {}
  BY DEF ToSet
<1>3. DOMAIN s = 1 .. Len(s)
  BY SeqIs
<1>4. IsSeq(G!Each(s, G!RouteNode))
  <2> DEFINE F == [i \in DOMAIN s |-> G!RouteNode(s[i])]
  <2>1. G!Each(s, G!RouteNode) = FlattenSeq(<<>> \o F)
    BY OneFlattenSeq DEF G!Each
  <2>2. \A r : IsSeq(G!RouteNode(r))
    BY ShortSeqs DEF G!RouteNode
  <2>3. F = [i \in DOMAIN s |-> F[i]] /\ \A i \in 1 .. Len(s) : IsSeq(F[i])
    BY <1>3, <2>2
  <2> HIDE DEF F
  <2> QED BY <2>1, <2>3, EachIsSeq
<1>5. IsSeq(G!Each(s, G!VariableNode))
  <2> DEFINE F == [i \in DOMAIN s |-> G!VariableNode(s[i])]
  <2>1. G!Each(s, G!VariableNode) = FlattenSeq(<<>> \o F)
    BY OneFlattenSeq DEF G!Each
  <2>2. \A r : IsSeq(G!VariableNode(r))
    BY ShortSeqs DEF G!VariableNode
  <2>3. F = [i \in DOMAIN s |-> F[i]] /\ \A i \in 1 .. Len(s) : IsSeq(F[i])
    BY <1>3, <2>2
  <2> HIDE DEF F
  <2> QED BY <2>1, <2>3, EachIsSeq
<1>6. ASSUME NEW r, NEW x \in ToSet(G!RouteNode(r))
      PROVE  /\ x = G!Node(x.id, "Route", x.file, x.file, x.confidence, x.name, 1)
             /\ G!IsAbsolute(r.path) /\ x.id = G!RouteId(r.method, r.path) /\ x.name = <<r.method>> \o r.path
  <2> DEFINE id == G!RouteId(r.method, r.path)
             home == r.home
             c == r.confidence
             name == <<r.method>> \o r.path
             y == G!Node(id, "Route", home, home, c, name, 1)
  <2>1. G!RouteNode(r) = IF G!IsAbsolute(r.path) THEN <<y>> ELSE <<>>
    BY DEF G!RouteNode
  <2> HIDE DEF id, home, c, name
  <2>2. y.id = id /\ y.name = name /\ y = G!Node(y.id, "Route", y.file, y.file, y.confidence, y.name, 1)
    BY DEF G!Node
  <2> HIDE DEF y
  <2>3. G!IsAbsolute(r.path) /\ x = y
    BY <1>2, <1>6, <2>1, OneHolds
  <2> QED BY <2>2, <2>3 DEF id, name
<1>7. ASSUME NEW v, NEW x \in ToSet(G!VariableNode(v))
      PROVE  x = G!Node(x.id, "EnvironmentVariable", x.file, x.file, x.confidence, x.name, 1)
  <2> DEFINE id == G!VariableId(v.name)
             c == v.confidence
             name == v.name
             y == G!Node(id, "EnvironmentVariable", None, None, c, name, 1)
  <2>1. G!VariableNode(v) = <<y>> \/ G!VariableNode(v) = <<>>
    BY DEF G!VariableNode
  <2> HIDE DEF id, c, name
  <2>2. y = G!Node(y.id, "EnvironmentVariable", y.file, y.file, y.confidence, y.name, 1)
    BY DEF G!Node
  <2> HIDE DEF y
  <2>3. x = y
    BY <1>2, <1>7, <2>1, OneHolds
  <2> QED BY <2>2, <2>3
<1>8. \A x \in ToSet(G!Each(s, G!RouteNode)) : \E r \in ToSet(s) : x \in ToSet(G!RouteNode(r))
  BY <1>1
<1>9. \A x \in ToSet(G!Each(s, G!VariableNode)) : \E v \in ToSet(s) : x \in ToSet(G!VariableNode(v))
  BY <1>1
<1>10. Poolable(G!Each(s, G!RouteNode), "Route", 1)
  BY <1>4, <1>6, <1>8 DEF Poolable
<1>11. Poolable(G!Each(s, G!VariableNode), "EnvironmentVariable", 1)
  BY <1>5, <1>7, <1>9 DEF Poolable
<1> QED BY <1>6, <1>8, <1>10, <1>11

\* Routes and variables are the same in any order, but for their names.
LEMMA AnnotatedAreAlike ==
  ASSUME NEW s, NEW t, Shuffled(s, t)
  PROVE  /\ {G!Unnamed(x) : x \in ToSet(G!Pooled(G!Each(s, G!RouteNode)))}
            = {G!Unnamed(x) : x \in ToSet(G!Pooled(G!Each(t, G!RouteNode)))}
         /\ {G!Unnamed(x) : x \in ToSet(G!Pooled(G!Each(s, G!VariableNode)))}
            = {G!Unnamed(x) : x \in ToSet(G!Pooled(G!Each(t, G!VariableNode)))}
<1>1. IsSeq(s) /\ IsSeq(t)
  BY DEF Shuffled
<1>2. PICK p : Rearranged(s, t, p)
  BY DEF Shuffled
<1>3. DOMAIN s = 1 .. Len(s) /\ DOMAIN t = 1 .. Len(t)
  BY <1>1, SeqIs
<1>4. \A i \in 1 .. Len(s) : p[i] \in 1 .. Len(t) /\ s[i] = t[p[i]]
  BY <1>2 DEF Rearranged
<1> DEFINE one == 1
<1>5. Shuffled(G!Each(s, G!RouteNode), G!Each(t, G!RouteNode))
  <2> DEFINE F == [i \in DOMAIN s |-> G!RouteNode(s[i])]
             H == [i \in DOMAIN t |-> G!RouteNode(t[i])]
  <2>1. G!Each(s, G!RouteNode) = FlattenSeq(<<>> \o F) /\ G!Each(t, G!RouteNode) = FlattenSeq(<<>> \o H)
    BY OneFlattenSeq DEF G!Each
  <2>2. \A r : IsSeq(G!RouteNode(r))
    BY ShortSeqs DEF G!RouteNode
  <2>3. /\ F = [i \in DOMAIN s |-> F[i]] /\ H = [i \in DOMAIN t |-> H[i]]
        /\ \A i \in 1 .. Len(s) : IsSeq(F[i]) /\ F[i] = H[p[i]]
    BY <1>3, <1>4, <2>2
  <2> HIDE DEF F, H
  <2>4. Shuffled(FlattenSeq(<<>> \o F), FlattenSeq(<<>> \o H))
    BY <1>1, <1>2, <2>3, EachIsAlike
  <2> QED BY <2>1, <2>4
<1>6. Shuffled(G!Each(s, G!VariableNode), G!Each(t, G!VariableNode))
  <2> DEFINE F == [i \in DOMAIN s |-> G!VariableNode(s[i])]
             H == [i \in DOMAIN t |-> G!VariableNode(t[i])]
  <2>1. G!Each(s, G!VariableNode) = FlattenSeq(<<>> \o F) /\ G!Each(t, G!VariableNode) = FlattenSeq(<<>> \o H)
    BY OneFlattenSeq DEF G!Each
  <2>2. \A r : IsSeq(G!VariableNode(r))
    BY ShortSeqs DEF G!VariableNode
  <2>3. /\ F = [i \in DOMAIN s |-> F[i]] /\ H = [i \in DOMAIN t |-> H[i]]
        /\ \A i \in 1 .. Len(s) : IsSeq(F[i]) /\ F[i] = H[p[i]]
    BY <1>3, <1>4, <2>2
  <2> HIDE DEF F, H
  <2>4. Shuffled(FlattenSeq(<<>> \o F), FlattenSeq(<<>> \o H))
    BY <1>1, <1>2, <2>3, EachIsAlike
  <2> QED BY <2>1, <2>4
<1>7. ASSUME NEW rows, NEW others, NEW kind, Poolable(rows, kind, one), Poolable(others, kind, one),
             Shuffled(rows, others)
      PROVE  {G!Unnamed(x) : x \in ToSet(G!Pooled(rows))} = {G!Unnamed(x) : x \in ToSet(G!Pooled(others))}
  <2>1. ToSet(rows) = ToSet(others)
    BY <1>7, AlikeHold
  <2>2. \A id : one * Counted(rows, id) = one * Counted(others, id)
    BY <1>7, CountedAlike
  <2> HIDE DEF one
  <2> QED BY <1>7, <2>1, <2>2, PooledAreAlike
<1>8. /\ Poolable(G!Each(s, G!RouteNode), "Route", one) /\ Poolable(G!Each(t, G!RouteNode), "Route", one)
      /\ Poolable(G!Each(s, G!VariableNode), "EnvironmentVariable", one)
      /\ Poolable(G!Each(t, G!VariableNode), "EnvironmentVariable", one)
  BY <1>1, RowsArePoolable
<1> HIDE DEF one
<1>9. {G!Unnamed(x) : x \in ToSet(G!Pooled(G!Each(s, G!RouteNode)))}
      = {G!Unnamed(x) : x \in ToSet(G!Pooled(G!Each(t, G!RouteNode)))}
  BY <1>5, <1>7, <1>8
<1>10. {G!Unnamed(x) : x \in ToSet(G!Pooled(G!Each(s, G!VariableNode)))}
       = {G!Unnamed(x) : x \in ToSet(G!Pooled(G!Each(t, G!VariableNode)))}
  BY <1>6, <1>7, <1>8
<1> QED BY <1>9, <1>10

-----------------------------------------------------------------------------
(* The requests that continue to routes *)

Continues(q, n) ==
  /\ G!IsAbsolute(q.path)
  /\ G!Normalise(Tail(n.name)) = G!Normalise(q.path)
  /\ q.method = None \/ Head(n.name) \in {q.method, "ALL"}

Continuation(q, n) == G!Edge("CONTINUES_TO", q.source, n.id, q.path, q.home, q.at)

\* Equal sequences of six have equal members.
LEMMA SixTuples ==
  ASSUME NEW a, NEW b, NEW c, NEW d, NEW e, NEW f, NEW g, NEW h, NEW i, NEW j, NEW k, NEW l,
         <<a, b, c, d, e, f>> = <<g, h, i, j, k, l>>
  PROVE  a = g /\ b = h /\ c = i /\ d = j /\ e = k /\ f = l
OBVIOUS

\* The edges of the linker: one for each request and each route that it continues to.
LEMMA LinksHold ==
  ASSUME NEW requests, IsSeq(requests), NEW routes, IsSeq(routes)
  PROVE  \A x : x \in ToSet(G!LinkClientCallsToRoutes(requests, routes))
                <=> \E q \in ToSet(requests) : \E n \in ToSet(routes) : Continues(q, n) /\ x = Continuation(q, n)
<1> DEFINE Serves(q, n) == /\ G!Normalise(Tail(n.name)) = G!Normalise(q.path)
                           /\ q.method = None \/ Head(n.name) \in {q.method, "ALL"}
           E(q, n) == G!Edge("CONTINUES_TO", q.source, n.id, q.path, q.home, q.at)
           S(q) == FlattenSeq([i \in DOMAIN routes |-> IF Serves(q, routes[i]) THEN <<routes[i]>> ELSE <<>>])
           T(q) == [i \in DOMAIN S(q) |-> <<E(q, S(q)[i])>>]
           Of(q) == IF G!IsAbsolute(q.path) THEN FlattenSeq(<<>> \o T(q)) ELSE <<>>
           F == [i \in DOMAIN requests |-> Of(requests[i])]
           all == FlattenSeq(<<>> \o F)
<1>1. G!LinkClientCallsToRoutes(requests, routes) = G!FirstOfEach(all, G!ById)
  BY OneFlattenSeq DEF G!LinkClientCallsToRoutes, G!Each, G!Selected
<1>2. \A q, n : Continuation(q, n) = E(q, n) /\ (Continues(q, n) <=> G!IsAbsolute(q.path) /\ Serves(q, n))
  BY DEF Continuation, Continues
<1> HIDE DEF Serves, E
<1>3. DOMAIN routes = 1 .. Len(routes) /\ ToSet(routes) = {routes[i] : i \in 1 .. Len(routes)}
  BY SeqIs, ListIs
<1>4. ASSUME NEW q PROVE IsSeq(S(q)) /\ \A n : n \in ToSet(S(q)) <=> n \in ToSet(routes) /\ Serves(q, n)
  <2> DEFINE P == {i \in 1 .. Len(routes) : Serves(q, routes[i])}
             s == S(q)
  <2>1. [i \in DOMAIN routes |-> IF Serves(q, routes[i]) THEN <<routes[i]>> ELSE <<>>]
        = [i \in DOMAIN routes |-> IF i \in P THEN <<routes[i]>> ELSE <<>>]
    BY <1>3
  <2>2. s = Picked(routes, P)
    BY <2>1 DEF Picked
  <2>3. P \subseteq 1 .. Len(routes)
    OBVIOUS
  <2>4. \A i \in 1 .. Len(routes) : i \in P <=> Serves(q, routes[i])
    OBVIOUS
  <2> HIDE DEF P, s
  <2>5. IsSeq(s)
    BY <2>2, <2>3, PickedIs
  <2>6. PICK at : Picks(s, routes, P, at)
    BY <2>2, <2>3, PickedIs
  <2>7. ToSet(s) = {s[i] : i \in 1 .. Len(s)}
    BY <2>5, ListIs
  <2>8. ASSUME NEW k \in 1 .. Len(s) PROVE s[k] \in ToSet(routes) /\ Serves(q, s[k])
    <3>1. at[k] \in P /\ s[k] = routes[at[k]]
      BY <2>6 DEF Picks
    <3> QED BY <1>3, <2>3, <2>4, <3>1
  <2>9. ASSUME NEW n \in ToSet(routes), Serves(q, n) PROVE \E k \in 1 .. Len(s) : s[k] = n
    <3>1. PICK i \in 1 .. Len(routes) : n = routes[i]
      BY <1>3
    <3>2. i \in P
      BY <2>4, <2>9, <3>1
    <3>3. PICK k \in 1 .. Len(s) : at[k] = i
      BY <2>6, <3>2 DEF Picks
    <3>4. s[k] = routes[i]
      BY <2>6, <3>3 DEF Picks
    <3> QED BY <3>1, <3>4
  <2>10. \A n : n \in ToSet(s) <=> n \in ToSet(routes) /\ Serves(q, n)
    BY <2>7, <2>8, <2>9
  <2> QED BY <2>5, <2>10 DEF s
<1> HIDE DEF S
<1>5. ASSUME NEW q
      PROVE  /\ IsSeq(Of(q))
             /\ \A x : x \in ToSet(Of(q)) <=> \E n \in ToSet(routes) : Continues(q, n) /\ x = E(q, n)
  <2> DEFINE s == S(q)
             t == T(q)
             v == [n \in ToSet(s) |-> {E(q, n)}]
  <2>1. IsSeq(s) /\ DOMAIN s = 1 .. Len(s) /\ \A i \in 1 .. Len(s) : s[i] \in ToSet(s)
    BY <1>4, MembersAre
  <2>2. t = [i \in DOMAIN s |-> t[i]] /\ \A i \in 1 .. Len(s) : t[i] = <<E(q, s[i])>>
    BY <2>1
  <2> HIDE DEF s, t
  <2>3. \A i \in 1 .. Len(s) : IsSeq(t[i]) /\ ToSet(t[i]) = v[s[i]]
    BY <2>1, <2>2, OneHolds
  <2>4. UNION {v[n] : n \in ToSet(s)} = {E(q, n) : n \in ToSet(s)}
    OBVIOUS
  <2> HIDE DEF v
  <2>5. Blocks(t, s, v)
    BY <2>2, <2>3 DEF Blocks
  <2>6. ToSet(FlattenSeq(<<>> \o t)) = {E(q, n) : n \in ToSet(s)}
    BY <2>1, <2>4, <2>5, BlocksHold
  <2>7. IsSeq(FlattenSeq(<<>> \o t))
    BY <2>1, <2>2, <2>3, EachIsSeq
  <2>8. \A x : x \in ToSet(FlattenSeq(<<>> \o t))
               <=> \E n \in ToSet(routes) : Serves(q, n) /\ x = E(q, n)
    BY <1>4, <2>6 DEF s
  <2>9. IsSeq(<<>>) /\ ToSet(<<>>) = {}
    BY ShortSeqs DEF ToSet
  <2>10. Of(q) = IF G!IsAbsolute(q.path) THEN FlattenSeq(<<>> \o t) ELSE <<>>
    BY DEF t
  <2> HIDE DEF Of
  <2>11. CASE G!IsAbsolute(q.path)
    BY <1>2, <2>7, <2>8, <2>10, <2>11
  <2>12. CASE ~G!IsAbsolute(q.path)
    BY <1>2, <2>9, <2>10, <2>12
  <2> QED BY <2>11, <2>12
<1> HIDE DEF Of
<1> DEFINE v == [q \in ToSet(requests) |-> ToSet(Of(q))]
<1>6. DOMAIN requests = 1 .. Len(requests) /\ \A i \in 1 .. Len(requests) : requests[i] \in ToSet(requests)
  BY MembersAre
<1>7. F = [i \in DOMAIN requests |-> F[i]] /\ \A i \in 1 .. Len(requests) : F[i] = Of(requests[i])
  BY <1>6
<1> HIDE DEF F
<1>8. Blocks(F, requests, v)
  BY <1>5, <1>6, <1>7 DEF Blocks
<1>9. \A x : x \in UNION {v[q] : q \in ToSet(requests)} <=> \E q \in ToSet(requests) : x \in ToSet(Of(q))
  OBVIOUS
<1> HIDE DEF v
<1>10. ToSet(all) = UNION {v[q] : q \in ToSet(requests)}
  BY <1>8, BlocksHold
<1>11. IsSeq(all)
  BY <1>5, <1>7, EachIsSeq
<1> HIDE DEF all
<1>12. \A x : x \in ToSet(all)
              <=> \E q \in ToSet(requests) : \E n \in ToSet(routes) : Continues(q, n) /\ x = E(q, n)
  <2> TAKE x
  <2>1. x \in ToSet(all) <=> \E q \in ToSet(requests) : x \in ToSet(Of(q))
    BY <1>9, <1>10
  <2>2. ASSUME NEW q
        PROVE  x \in ToSet(Of(q)) <=> \E n \in ToSet(routes) : Continues(q, n) /\ x = E(q, n)
    BY <1>5
  <2> HIDE DEF v, E, Of
  <2>3. (\E q \in ToSet(requests) : x \in ToSet(Of(q)))
        <=> \E q \in ToSet(requests) : \E n \in ToSet(routes) : Continues(q, n) /\ x = E(q, n)
    BY <2>2
  <2> QED BY <2>1, <2>3
<1>13. \A q, n, r, m : E(q, n).id = E(r, m).id => E(q, n) = E(r, m)
  <2> TAKE q, n, r, m
  <2> HAVE E(q, n).id = E(r, m).id
  <2>1. /\ E(q, n).id = <<"CONTINUES_TO", q.source, n.id, q.path, q.home, q.at>>
        /\ E(r, m).id = <<"CONTINUES_TO", r.source, m.id, r.path, r.home, r.at>>
    BY DEF E, G!Edge, G!EdgeOf
  <2>2. <<"CONTINUES_TO", q.source, n.id, q.path, q.home, q.at>>
        = <<"CONTINUES_TO", r.source, m.id, r.path, r.home, r.at>>
    BY <2>1
  <2>3. q.source = r.source /\ n.id = m.id /\ q.path = r.path /\ q.home = r.home /\ q.at = r.at
    BY <2>2, SixTuples
  <2> QED BY <2>3 DEF E
<1>14. \A x, y \in ToSet(all) : x.id = y.id => x = y
  BY <1>12, <1>13
<1>15. ToSet(G!FirstOfEach(all, G!ById)) = ToSet(all)
  BY <1>11, <1>14, FirstsAreAll
<1> QED BY <1>1, <1>2, <1>12, <1>15

\* The identifier of a route says its method.
LEMMA RouteIdSaysMethod ==
  ASSUME NEW method, NEW path, IsSeq(path)
  PROVE  G!RouteId(method, path)[2] = method
<1> DEFINE P == {i \in 1 .. Len(path) : path[i] # ""}
           s == Picked(path, P)
           w == <<"route", method>>
<1>1. DOMAIN path = 1 .. Len(path)
  BY SeqIs
<1>2. [i \in DOMAIN path |-> IF path[i] # "" THEN <<path[i]>> ELSE <<>>]
      = [i \in DOMAIN path |-> IF i \in P THEN <<path[i]>> ELSE <<>>]
  BY <1>1
<1>3. G!RouteId(method, path) = w \o s
  BY <1>2, OneFlattenSeq DEF G!RouteId, G!Selected, Picked
<1>4. P \subseteq 1 .. Len(path)
  OBVIOUS
<1> HIDE DEF P
<1>5. IsSeq(s)
  BY <1>4, PickedIs
<1>6. IsSeq(w) /\ Len(w) = 2 /\ w[2] = method
  <2>1. w \in Seq({"route", method})
    OBVIOUS
  <2> QED BY <2>1 DEF IsSeq
<1> HIDE DEF s, w
<1>7. \A k \in 1 .. Len(w) : (w \o s)[k] = w[k]
  BY <1>5, <1>6, BothSeqs
<1>8. 2 \in 1 .. Len(w)
  BY <1>6
<1> QED BY <1>3, <1>6, <1>7, <1>8

\* The name of a route is its method and its path.
LEMMA NameOfRoute ==
  ASSUME NEW method, NEW path, IsSeq(path)
  PROVE  Head(<<method>> \o path) = method /\ Tail(<<method>> \o path) = path
<1> DEFINE one == <<method>>
           w == one \o path
<1>1. IsSeq(one) /\ Len(one) = 1 /\ one[1] = method
  BY ShortSeqs
<1> HIDE DEF one, w
<1>2. /\ IsSeq(w) /\ Len(path) \in Nat /\ Len(w) = Len(one) + Len(path)
      /\ \A k \in 1 .. Len(one) : w[k] = one[k]
      /\ \A k \in 1 .. Len(path) : w[Len(one) + k] = path[k]
  <2>0. IsSeq(one) /\ IsSeq(path)
    BY <1>1
  <2>1. \A s, t : IsSeq(s) /\ IsSeq(t) =>
                 /\ IsSeq(s \o t) /\ Len(s) \in Nat /\ Len(t) \in Nat
                 /\ Len(s \o t) = Len(s) + Len(t)
                 /\ \A k \in 1 .. Len(s) : (s \o t)[k] = s[k]
                 /\ \A k \in 1 .. Len(t) : (s \o t)[Len(s) + k] = t[k]
    BY BothSeqs
  <2>2. w = one \o path
    BY DEF w
  <2>3. /\ IsSeq(one \o path) /\ Len(one) \in Nat /\ Len(path) \in Nat
        /\ Len(one \o path) = Len(one) + Len(path)
        /\ \A k \in 1 .. Len(one) : (one \o path)[k] = one[k]
        /\ \A k \in 1 .. Len(path) : (one \o path)[Len(one) + k] = path[k]
    BY ONLY <2>0, <2>1
  <2> QED BY ONLY <2>2, <2>3
<1>3. PICK S : w \in Seq(S)
  BY <1>2 DEF IsSeq
<1>4. w # <<>> /\ Len(w) = 1 + Len(path) /\ w[1] = method
  BY <1>1, <1>2
<1>5. Head(w) = method
  BY <1>3, <1>4
<1>6. Tail(w) = path
  <2> DEFINE t == Tail(w)
             n == Len(path)
  <2>1. t \in Seq(S) /\ Len(t) = Len(w) - 1 /\ \A i \in 1 .. Len(t) : t[i] = w[i + 1]
    BY <1>3, <1>4, HeadTailProperties
  <2>2. PICK T : path \in Seq(T)
    BY DEF IsSeq
  <2>3. n \in Nat /\ Len(t) = n /\ Len(path) = n
    BY <1>2, <1>4, <2>1
  <2> HIDE DEF t, n
  <2>4. ASSUME NEW i \in 1 .. n PROVE t[i] = path[i]
    <3>1. i \in 1 .. Len(t) /\ i \in 1 .. Len(path)
      BY <2>3
    <3>2. t[i] = w[i + 1]
      BY <2>1, <3>1
    <3>3. w[Len(one) + i] = path[i]
      BY <1>2, <3>1
    <3>4. Len(one) + i = i + 1
      BY <1>1, <2>3
    <3> QED BY <3>2, <3>3, <3>4
  <2>5. t = [i \in 1 .. Len(t) |-> t[i]] /\ path = [i \in 1 .. Len(path) |-> path[i]]
    BY <2>1, <2>2
  <2>6. t = path
    BY <2>3, <2>4, <2>5
  <2> QED BY <2>6 DEF t
<1> QED BY <1>5, <1>6 DEF w, one

\* Routes of one identifier are compared as the same one.
OneSpelling(routes) ==
  \A r, s \in routes :
    G!RouteId(r.method, r.path) = G!RouteId(s.method, s.path) => G!Normalise(r.path) = G!Normalise(s.path)

\* A request continues to the same route in the other order, if routes of one identifier are spelled alike.
LEMMA LinksAgain ==
  ASSUME NEW requests, NEW others, IsSeq(requests), IsSeq(others), ToSet(requests) = ToSet(others),
         NEW s, NEW t, IsSeq(s), IsSeq(t), ToSet(s) = ToSet(t), \A r \in ToSet(s) : IsSeq(r.path),
         OneSpelling(ToSet(s)),
         NEW x \in ToSet(G!LinkClientCallsToRoutes(requests, G!Pooled(G!Each(s, G!RouteNode))))
  PROVE  x \in ToSet(G!LinkClientCallsToRoutes(others, G!Pooled(G!Each(t, G!RouteNode))))
<1> DEFINE rows == G!Each(s, G!RouteNode)
           mine == G!Each(t, G!RouteNode)
           A == G!Pooled(rows)
           B == G!Pooled(mine)
           kind == "Route"
           one == 1
<1>1. /\ Poolable(rows, kind, one) /\ Poolable(mine, kind, one)
      /\ \A y \in ToSet(rows) : \E r \in ToSet(s) :
           y.id = G!RouteId(r.method, r.path) /\ y.name = <<r.method>> \o r.path
      /\ \A y \in ToSet(mine) : \E r \in ToSet(t) :
           y.id = G!RouteId(r.method, r.path) /\ y.name = <<r.method>> \o r.path
  BY RowsArePoolable
<1>2. ToSet(rows) = ToSet(mine)
  <2>1. ToSet(rows) = UNION {ToSet(G!RouteNode(y)) : y \in ToSet(s)}
    BY NodesHold
  <2>2. ToSet(mine) = UNION {ToSet(G!RouteNode(y)) : y \in ToSet(t)}
    BY NodesHold
  <2> QED BY <2>1, <2>2
<1>3. IsSeq(rows) /\ IsSeq(mine)
  BY <1>1 DEF Poolable
<1> HIDE DEF rows, mine, kind, one
<1>4. IsSeq(A) /\ IsSeq(B)
  BY <1>3, PooledHolds
<1>5. /\ \A n \in ToSet(A) : \E y \in ToSet(rows) : n.id = y.id /\ n.name = y.name
      /\ \A n \in ToSet(B) : \E y \in ToSet(mine) : n.id = y.id /\ n.name = y.name
      /\ \A y \in ToSet(mine) : \E n \in ToSet(B) : n.id = y.id
  BY <1>1, PooledNames
<1>6. x \in ToSet(G!LinkClientCallsToRoutes(requests, A))
  BY DEF rows
<1> HIDE DEF A, B
<1>7. PICK q \in ToSet(requests) : \E n \in ToSet(A) : Continues(q, n) /\ x = Continuation(q, n)
  BY <1>4, <1>6, LinksHold
<1>8. PICK n \in ToSet(A) : Continues(q, n) /\ x = Continuation(q, n)
  BY <1>7
<1>9. PICK y \in ToSet(rows) : n.id = y.id /\ n.name = y.name
  BY <1>5
<1>10. PICK r \in ToSet(s) : y.id = G!RouteId(r.method, r.path) /\ y.name = <<r.method>> \o r.path
  BY <1>1
<1>11. PICK m \in ToSet(B) : m.id = y.id
  BY <1>2, <1>5
<1>12. PICK z \in ToSet(mine) : m.id = z.id /\ m.name = z.name
  BY <1>5
<1>13. PICK p \in ToSet(s) : z.id = G!RouteId(p.method, p.path) /\ z.name = <<p.method>> \o p.path
  BY <1>1
<1>14. G!RouteId(r.method, r.path) = G!RouteId(p.method, p.path)
  BY <1>10, <1>11, <1>12, <1>13
<1>15. G!Normalise(r.path) = G!Normalise(p.path)
  BY <1>14 DEF OneSpelling
<1>16. r.method = p.method
  <2> DEFINE rm == r.method
             rp == r.path
             pm == p.method
             pp == p.path
  <2>1. IsSeq(rp) /\ IsSeq(pp)
    OBVIOUS
  <2>2. G!RouteId(rm, rp) = G!RouteId(pm, pp)
    BY <1>14
  <2> HIDE DEF rm, rp, pm, pp
  <2>3. G!RouteId(rm, rp)[2] = rm /\ G!RouteId(pm, pp)[2] = pm
    BY <2>1, RouteIdSaysMethod
  <2>4. rm = pm
    BY <2>2, <2>3
  <2> QED BY <2>4 DEF rm, pm
<1>17. /\ Head(n.name) = r.method /\ Tail(n.name) = r.path
       /\ Head(m.name) = p.method /\ Tail(m.name) = p.path
  <2> DEFINE rm == r.method
             rp == r.path
             pm == p.method
             pp == p.path
  <2>1. IsSeq(rp) /\ IsSeq(pp)
    OBVIOUS
  <2>2. n.name = <<rm>> \o rp /\ m.name = <<pm>> \o pp
    BY <1>9, <1>10, <1>12, <1>13
  <2> HIDE DEF rm, rp, pm, pp
  <2>3. /\ Head(<<rm>> \o rp) = rm /\ Tail(<<rm>> \o rp) = rp
        /\ Head(<<pm>> \o pp) = pm /\ Tail(<<pm>> \o pp) = pp
    BY <2>1, NameOfRoute
  <2>4. Head(n.name) = rm /\ Tail(n.name) = rp /\ Head(m.name) = pm /\ Tail(m.name) = pp
    BY <2>2, <2>3
  <2> QED BY <2>4 DEF rm, rp, pm, pp
<1>18. Continues(q, m)
  BY <1>8, <1>15, <1>16, <1>17 DEF Continues
<1>19. x = Continuation(q, m)
  <2>1. m.id = n.id
    BY <1>9, <1>11
  <2> QED BY <1>8, <2>1 DEF Continuation
<1>20. x \in ToSet(G!LinkClientCallsToRoutes(others, B))
  BY <1>4, <1>18, <1>19, LinksHold
<1> QED BY <1>20 DEF B, mine

\* So the linker makes the same edges in both orders.
LEMMA LinksAreAlike ==
  ASSUME NEW requests, NEW others, IsSeq(requests), IsSeq(others), ToSet(requests) = ToSet(others),
         NEW s, NEW t, IsSeq(s), IsSeq(t), ToSet(s) = ToSet(t), \A r \in ToSet(s) : IsSeq(r.path),
         OneSpelling(ToSet(s))
  PROVE  ToSet(G!LinkClientCallsToRoutes(requests, G!Pooled(G!Each(s, G!RouteNode))))
         = ToSet(G!LinkClientCallsToRoutes(others, G!Pooled(G!Each(t, G!RouteNode))))
<1>1. \A x \in ToSet(G!LinkClientCallsToRoutes(requests, G!Pooled(G!Each(s, G!RouteNode)))) :
        x \in ToSet(G!LinkClientCallsToRoutes(others, G!Pooled(G!Each(t, G!RouteNode))))
  BY LinksAgain
<1>2. \A x \in ToSet(G!LinkClientCallsToRoutes(others, G!Pooled(G!Each(t, G!RouteNode)))) :
        x \in ToSet(G!LinkClientCallsToRoutes(requests, G!Pooled(G!Each(s, G!RouteNode))))
  <2>1. OneSpelling(ToSet(t)) /\ \A r \in ToSet(t) : IsSeq(r.path)
    OBVIOUS
  <2> QED BY <2>1, LinksAgain
<1> QED BY <1>1, <1>2

\* What is linked, and nothing else, continues.
LEMMA LinksContinue ==
  ASSUME NEW requests, IsSeq(requests), NEW routes, IsSeq(routes)
  PROVE  \A x \in ToSet(G!LinkClientCallsToRoutes(requests, routes)) : x.type = "CONTINUES_TO"
<1>1. \A q, n : Continuation(q, n).type = "CONTINUES_TO"
  BY DEF Continuation, G!Edge, G!EdgeOf
<1> QED BY <1>1, LinksHold

\* What is gathered in one order and in the other.
Mirrored(analyses, others) ==
  \A field \in Fields : Shuffled(G!Gathered(analyses, field), G!Gathered(others, field))

\* What a scan's analysers found, gathered in reverse, is a rearrangement, and is in the same files.
LEMMA ScansAreMirrored ==
  ASSUME NEW u, NEW analyses, OfAScan(u, analyses)
  PROVE  /\ Mirrored(analyses, G!Reverse(analyses))
         /\ Analysed(u, G!Reverse(analyses))
         /\ \A r \in ToSet(G!Gathered(analyses, "routes")) : IsSeq(r.path)
<1> DEFINE others == G!Reverse(analyses)
<1>1. \A s : s \in Seq(ToSet(s)) => IsSeq(s)
  BY DEF IsSeq
<1>2. IsSeq(analyses)
  BY <1>1 DEF OfAScan
<1>3. \A one \in ToSet(analyses) : \A field \in Fields : IsSeq(one[field])
  BY <1>1 DEF OfAScan, Fields
<1>4. \A i \in 1 .. Len(analyses) : analyses[i] \in ToSet(analyses)
  BY <1>2, MembersAre
<1>5. Mirrored(analyses, others)
  <2> SUFFICES ASSUME NEW field \in Fields
               PROVE  Shuffled(G!Gathered(analyses, field), G!Gathered(others, field))
    BY DEF Mirrored
  <2>1. \A i \in 1 .. Len(analyses) : IsSeq(analyses[i][field])
    BY <1>3, <1>4
  <2> QED BY <1>2, <2>1, GatheredAreAlike
<1> HIDE DEF others
<1>6. \A field \in Fields : /\ IsSeq(G!Gathered(others, field))
                            /\ ToSet(G!Gathered(others, field)) = ToSet(G!Gathered(analyses, field))
  <2> TAKE field \in Fields
  <2>1. Shuffled(G!Gathered(analyses, field), G!Gathered(others, field))
    BY <1>5 DEF Mirrored
  <2>2. ToSet(G!Gathered(analyses, field)) = ToSet(G!Gathered(others, field))
    BY <2>1, AlikeHold
  <2> QED BY <2>1, <2>2 DEF Shuffled
<1>7. Analysed(u, analyses)
  BY ScansAre
<1>8. Analysed(u, others)
  <2>1. {"declarations", "routes", "reads", "unresolved", "unbound", "roles"} \subseteq Fields
    BY DEF Fields
  <2> QED BY <1>6, <1>7, <2>1 DEF Analysed
<1>9. \A r \in ToSet(G!Gathered(analyses, "routes")) : IsSeq(r.path)
  <2> DEFINE what == "any"
             field == "routes"
  <2>0. field \in Fields /\ what = "any"
    BY DEF Fields
  <2>1. \A one \in ToSet(analyses) : \A r \in ToSet(one.routes) : IsSeq(r.path)
    BY <1>1 DEF OfAScan
  <2>2. \A one \in ToSet(analyses) : \A r \in ToSet(one[field]) : IsSeq(r.path)
    BY <2>1
  <2>3. \A i \in 1 .. Len(analyses) : IsSeq(analyses[i][field])
    BY <1>3, <1>4, <2>0
  <2> HIDE DEF what, field
  <2>4. \A i \in 1 .. Len(analyses) : List(analyses[i][field], what, u)
    BY <2>0, <2>3 DEF List, Fits
  <2>5. \A x \in ToSet(G!Gathered(analyses, field)) :
          \E i \in 1 .. Len(analyses) : x \in ToSet(analyses[i][field])
    BY <1>2, <2>4, GatheredIsList
  <2>6. \A x \in ToSet(G!Gathered(analyses, field)) : IsSeq(x.path)
    BY <1>4, <2>2, <2>5
  <2> QED BY <2>6 DEF field
<1> QED BY <1>5, <1>8, <1>9 DEF others

UnnamedIn(s) == {G!Unnamed(x) : x \in ToSet(s)}

\* The nodes of two sequences together, without their names.
LEMMA UnnamedInBoth ==
  ASSUME NEW s, NEW t, IsSeq(s), IsSeq(t)
  PROVE  UnnamedIn(s \o t) = UnnamedIn(s) \cup UnnamedIn(t)
<1>1. ToSet(s \o t) = ToSet(s) \cup ToSet(t)
  BY BothHold
<1> QED BY <1>1 DEF UnnamedIn

\* The nodes are the same in both orders, but for their names.
LEMMA NodesAreAlike ==
  ASSUME NEW u, NEW analyses, NEW others, Universally(u), Analysed(u, analyses), Analysed(u, others),
         Mirrored(analyses, others)
  PROVE  UnnamedIn(G!Build(u, analyses).nodes) = UnnamedIn(G!Build(u, others).nodes)
<1> DEFINE Ds(a) == G!Gathered(a, "declarations")
           Rs(a) == G!Gathered(a, "relationships")
           Es(a) == G!Gathered(a, "externalCalls")
           Ts(a) == G!Gathered(a, "routes")
           Vs(a) == G!Gathered(a, "reads")
           N1 == G!Each(u.files, G!FileNode)
           N2 == G!FirstOfEach(G!Each(u.manifests, G!ManifestNodes), G!ById)
           N3 == G!Each(u.technologies, G!TechnologyNode)
           N4 == G!Each(u.artifacts, G!ElementNodes)
           N5(a) == G!SuppliedVariables(u, {v.name : v \in G!ToSet(Vs(a))})
           N6(a) == G!Each(Ds(a), G!DeclarationNode)
           N7(a) == G!RegisterExternals(Rs(a), Es(a))
           N8(a) == G!Pooled(G!Each(Ts(a), G!RouteNode))
           N9(a) == G!Pooled(G!Each(Vs(a), G!VariableNode))
<1>1. \A a : G!Build(u, a).nodes
             = N1 \o N2 \o N3 \o N4 \o N5(a) \o N6(a) \o N7(a) \o N8(a) \o N9(a)
  BY DEF G!Build
<1>2. /\ Shuffled(Ds(analyses), Ds(others)) /\ Shuffled(Rs(analyses), Rs(others)) /\ Shuffled(Es(analyses), Es(others))
      /\ Shuffled(Ts(analyses), Ts(others)) /\ Shuffled(Vs(analyses), Vs(others))
  BY DEF Mirrored, Fields
<1>3. IsSeq(N1) /\ IsSeq(N2) /\ IsSeq(N3) /\ IsSeq(N4)
  BY FileNodesAre, ManifestNodesAre, TechnologyNodesAre, ElementNodesAre DEF List
<1>4. ASSUME NEW a, Analysed(u, a)
      PROVE  IsSeq(N5(a)) /\ IsSeq(N6(a)) /\ IsSeq(N7(a)) /\ IsSeq(N8(a)) /\ IsSeq(N9(a))
  <2> DEFINE d == Ds(a)
             relationships == Rs(a)
             external == Es(a)
             routes == Ts(a)
             reads == Vs(a)
             read == {v.name : v \in G!ToSet(reads)}
  <2>1. IsSeq(d) /\ IsSeq(relationships) /\ IsSeq(external) /\ IsSeq(routes) /\ IsSeq(reads)
    BY <1>4 DEF Analysed, Fields
  <2>2. /\ \A x \in ToSet(d) : G!FileId(x.file) \in Homes(u) /\ x.kind \in G!Declarations /\ IsSeq(x.at)
        /\ \A r \in ToSet(routes) : r.home \in Homes(u)
    BY <1>4 DEF Analysed
  <2> HIDE DEF d, relationships, external, routes, reads, read
  <2>3. IsSeq(G!SuppliedVariables(u, read))
    BY SuppliedVariablesAre DEF List
  <2>4. IsSeq(G!Each(d, G!DeclarationNode))
    BY <2>1, <2>2, DeclarationNodesAre DEF List
  <2>5. IsSeq(G!RegisterExternals(relationships, external))
    BY <2>1, ExternalNodesAre DEF List
  <2>6. IsSeq(G!Pooled(G!Each(routes, G!RouteNode)))
    BY <2>1, <2>2, RouteNodesAre DEF List
  <2>7. IsSeq(G!Pooled(G!Each(reads, G!VariableNode)))
    BY <2>1, VariableNodesAre DEF List
  <2> QED BY <2>3, <2>4, <2>5, <2>6, <2>7 DEF d, relationships, external, routes, reads, read
<1>5. /\ IsSeq(N5(analyses)) /\ IsSeq(N6(analyses)) /\ IsSeq(N7(analyses)) /\ IsSeq(N8(analyses)) /\ IsSeq(N9(analyses))
      /\ IsSeq(N5(others)) /\ IsSeq(N6(others)) /\ IsSeq(N7(others)) /\ IsSeq(N8(others)) /\ IsSeq(N9(others))
  BY <1>4
<1>6. /\ IsSeq(Ds(analyses)) /\ IsSeq(Ds(others)) /\ ToSet(Ds(analyses)) = ToSet(Ds(others))
      /\ IsSeq(Rs(analyses)) /\ IsSeq(Rs(others)) /\ ToSet(Rs(analyses)) = ToSet(Rs(others))
      /\ IsSeq(Es(analyses)) /\ IsSeq(Es(others)) /\ ToSet(Es(analyses)) = ToSet(Es(others))
      /\ ToSet(Vs(analyses)) = ToSet(Vs(others))
  <2> HIDE DEF Ds, Rs, Es, Ts, Vs
  <2> QED BY <1>2, AlikeHold DEF Shuffled
<1>7. N5(analyses) = N5(others)
  BY <1>6, OneToSet
<1>8. UnnamedIn(N6(analyses)) = UnnamedIn(N6(others))
  <2> DEFINE s == Ds(analyses)
             t == Ds(others)
  <2>1. IsSeq(s) /\ IsSeq(t) /\ ToSet(s) = ToSet(t)
    BY <1>6
  <2> HIDE DEF s, t
  <2>2. /\ ToSet(G!Each(s, G!DeclarationNode)) = UNION {ToSet(G!DeclarationNode(x)) : x \in ToSet(s)}
        /\ ToSet(G!Each(t, G!DeclarationNode)) = UNION {ToSet(G!DeclarationNode(x)) : x \in ToSet(t)}
    BY <2>1, NodesHold
  <2>3. ToSet(G!Each(s, G!DeclarationNode)) = ToSet(G!Each(t, G!DeclarationNode))
    BY <2>1, <2>2
  <2> QED BY <2>3 DEF UnnamedIn, s, t
<1>9. UnnamedIn(N7(analyses)) = UnnamedIn(N7(others))
  <2> DEFINE s == Rs(analyses)
             t == Rs(others)
             c == Es(analyses)
             e == Es(others)
  <2>1. IsSeq(s) /\ IsSeq(t) /\ ToSet(s) = ToSet(t) /\ IsSeq(c) /\ IsSeq(e) /\ ToSet(c) = ToSet(e)
    BY <1>6
  <2> HIDE DEF s, t, c, e
  <2>2. {G!Unnamed(x) : x \in ToSet(G!RegisterExternals(s, c))} = {G!Unnamed(x) : x \in ToSet(G!RegisterExternals(t, e))}
    BY <2>1, ExternalsAreAlike
  <2> QED BY <2>2 DEF UnnamedIn, s, t, c, e
<1>10. UnnamedIn(N8(analyses)) = UnnamedIn(N8(others))
  <2> DEFINE s == Ts(analyses)
             t == Ts(others)
  <2>1. Shuffled(s, t)
    BY <1>2
  <2> HIDE DEF s, t
  <2>2. {G!Unnamed(x) : x \in ToSet(G!Pooled(G!Each(s, G!RouteNode)))}
        = {G!Unnamed(x) : x \in ToSet(G!Pooled(G!Each(t, G!RouteNode)))}
    BY <2>1, AnnotatedAreAlike
  <2> QED BY <2>2 DEF UnnamedIn, s, t
<1>11. UnnamedIn(N9(analyses)) = UnnamedIn(N9(others))
  <2> DEFINE s == Vs(analyses)
             t == Vs(others)
  <2>1. Shuffled(s, t)
    BY <1>2
  <2> HIDE DEF s, t
  <2>2. {G!Unnamed(x) : x \in ToSet(G!Pooled(G!Each(s, G!VariableNode)))}
        = {G!Unnamed(x) : x \in ToSet(G!Pooled(G!Each(t, G!VariableNode)))}
    BY <2>1, AnnotatedAreAlike
  <2> QED BY <2>2 DEF UnnamedIn, s, t
<1> HIDE DEF N1, N2, N3, N4, N5, N6, N7, N8, N9
<1>12. \A s, t : IsSeq(s) /\ IsSeq(t) => IsSeq(s \o t) /\ UnnamedIn(s \o t) = UnnamedIn(s) \cup UnnamedIn(t)
  BY BothHold, UnnamedInBoth
<1> DEFINE A4 == N1 \o N2 \o N3 \o N4
<1>13. IsSeq(A4)
  BY <1>3, <1>12
<1>14. \A a : G!Build(u, a).nodes = A4 \o N5(a) \o N6(a) \o N7(a) \o N8(a) \o N9(a)
  BY <1>1
<1> HIDE DEF A4
<1>15. ASSUME NEW a, IsSeq(N5(a)), IsSeq(N6(a)), IsSeq(N7(a)), IsSeq(N8(a)), IsSeq(N9(a))
       PROVE  UnnamedIn(G!Build(u, a).nodes)
              = UnnamedIn(A4) \cup UnnamedIn(N5(a)) \cup UnnamedIn(N6(a)) \cup UnnamedIn(N7(a))
                \cup UnnamedIn(N8(a)) \cup UnnamedIn(N9(a))
  <2> DEFINE p == N5(a)
             q == N6(a)
             r == N7(a)
             s == N8(a)
             t == N9(a)
  <2>1. IsSeq(p) /\ IsSeq(q) /\ IsSeq(r) /\ IsSeq(s) /\ IsSeq(t)
    BY <1>15
  <2>2. G!Build(u, a).nodes = A4 \o p \o q \o r \o s \o t
    BY <1>14
  <2> HIDE DEF p, q, r, s, t
  <2>3. IsSeq(A4 \o p) /\ UnnamedIn(A4 \o p) = UnnamedIn(A4) \cup UnnamedIn(p)
    BY <1>12, <1>13, <2>1
  <2>4. IsSeq(A4 \o p \o q) /\ UnnamedIn(A4 \o p \o q) = UnnamedIn(A4 \o p) \cup UnnamedIn(q)
    BY <1>12, <2>1, <2>3
  <2>5. IsSeq(A4 \o p \o q \o r) /\ UnnamedIn(A4 \o p \o q \o r) = UnnamedIn(A4 \o p \o q) \cup UnnamedIn(r)
    BY <1>12, <2>1, <2>4
  <2>6. IsSeq(A4 \o p \o q \o r \o s) /\ UnnamedIn(A4 \o p \o q \o r \o s) = UnnamedIn(A4 \o p \o q \o r) \cup UnnamedIn(s)
    BY <1>12, <2>1, <2>5
  <2>7. UnnamedIn(A4 \o p \o q \o r \o s \o t) = UnnamedIn(A4 \o p \o q \o r \o s) \cup UnnamedIn(t)
    BY <1>12, <2>1, <2>6
  <2>8. UnnamedIn(A4 \o p \o q \o r \o s \o t)
        = UnnamedIn(A4) \cup UnnamedIn(p) \cup UnnamedIn(q) \cup UnnamedIn(r) \cup UnnamedIn(s) \cup UnnamedIn(t)
    BY <2>3, <2>4, <2>5, <2>6, <2>7
  <2> QED BY <2>2, <2>8 DEF p, q, r, s, t
<1>16. UnnamedIn(G!Build(u, analyses).nodes)
       = UnnamedIn(A4) \cup UnnamedIn(N5(analyses)) \cup UnnamedIn(N6(analyses)) \cup UnnamedIn(N7(analyses))
         \cup UnnamedIn(N8(analyses)) \cup UnnamedIn(N9(analyses))
  BY <1>5, <1>15
<1>17. UnnamedIn(G!Build(u, others).nodes)
       = UnnamedIn(A4) \cup UnnamedIn(N5(others)) \cup UnnamedIn(N6(others)) \cup UnnamedIn(N7(others))
         \cup UnnamedIn(N8(others)) \cup UnnamedIn(N9(others))
  BY <1>5, <1>15
<1> QED BY <1>7, <1>8, <1>9, <1>10, <1>11, <1>16, <1>17

\* The edges are the same in both orders, but for how routes are spelled.
LEMMA EdgesAreAlike ==
  ASSUME NEW u, NEW analyses, NEW others, Universally(u), Analysed(u, analyses), Analysed(u, others),
         Mirrored(analyses, others), \A r \in ToSet(G!Gathered(analyses, "routes")) : IsSeq(r.path),
         NEW same, same => OneSpelling(ToSet(G!Gathered(analyses, "routes")))
  PROVE  {e \in ToSet(G!Build(u, analyses).edges) : e.type = "CONTINUES_TO" => same}
         = {e \in ToSet(G!Build(u, others).edges) : e.type = "CONTINUES_TO" => same}
<1> DEFINE Ds(a) == G!Gathered(a, "declarations")
           Rs(a) == G!Gathered(a, "relationships")
           Es(a) == G!Gathered(a, "externalCalls")
           Ts(a) == G!Gathered(a, "routes")
           Vs(a) == G!Gathered(a, "reads")
           Cs(a) == G!Gathered(a, "calls")
           Qs(a) == G!Gathered(a, "requests")
           Ns(a) == G!Pooled(G!Each(Ts(a), G!RouteNode))
           N1 == G!Each(u.manifests, G!DependencyEdges)
           N2 == G!ArtifactEdges(u)
           N3(a) == G!DeclaresEdges(Ds(a))
           N4(a) == G!Each(Rs(a), G!RelationshipEdge)
           N5(a) == G!Each(Ts(a), G!HandledBy)
           N6(a) == G!Each(Vs(a), G!Reads)
           N7(a) == G!Each(Cs(a), G!CallEdge)
           N8(a) == G!Each(Es(a), G!ExternalCallEdge)
           N9(a) == G!LinkClientCallsToRoutes(Qs(a), Ns(a))
<1>1. \A a : G!Build(u, a).edges
             = N1 \o N2 \o N3(a) \o N4(a) \o N5(a) \o N6(a) \o N7(a) \o N8(a) \o N9(a)
  BY DEF G!Build
<1>2. /\ Shuffled(Ds(analyses), Ds(others)) /\ Shuffled(Rs(analyses), Rs(others)) /\ Shuffled(Es(analyses), Es(others))
      /\ Shuffled(Ts(analyses), Ts(others)) /\ Shuffled(Vs(analyses), Vs(others))
      /\ Shuffled(Cs(analyses), Cs(others)) /\ Shuffled(Qs(analyses), Qs(others))
  BY DEF Mirrored, Fields
<1>3. IsSeq(N1) /\ IsSeq(N2)
  BY DependencyEdgesAre, ArtifactEdgesAre
<1>4. ASSUME NEW a, Analysed(u, a)
      PROVE  /\ IsSeq(N3(a)) /\ IsSeq(N4(a)) /\ IsSeq(N5(a)) /\ IsSeq(N6(a)) /\ IsSeq(N7(a)) /\ IsSeq(N8(a))
             /\ IsSeq(Ns(a)) /\ IsSeq(N9(a))
  <2> DEFINE d == Ds(a)
             relationships == Rs(a)
             external == Es(a)
             routes == Ts(a)
             reads == Vs(a)
             calls == Cs(a)
             requests == Qs(a)
             nodes == G!Pooled(G!Each(routes, G!RouteNode))
  <2>1. /\ IsSeq(d) /\ IsSeq(relationships) /\ IsSeq(external) /\ IsSeq(routes) /\ IsSeq(reads) /\ IsSeq(calls)
        /\ IsSeq(requests)
    BY <1>4 DEF Analysed, Fields
  <2>2. \A r \in ToSet(routes) : r.home \in Homes(u) /\ IsSeq(r.handlers)
    BY <1>4 DEF Analysed
  <2> HIDE DEF d, relationships, external, routes, reads, calls, requests
  <2>3. /\ IsSeq(G!DeclaresEdges(d)) /\ IsSeq(G!Each(relationships, G!RelationshipEdge))
        /\ IsSeq(G!Each(reads, G!Reads)) /\ IsSeq(G!Each(calls, G!CallEdge))
        /\ IsSeq(G!Each(external, G!ExternalCallEdge))
    BY <2>1, PlainEdgesAre
  <2>4. IsSeq(G!Each(routes, G!HandledBy))
    BY <2>1, <2>2, HandlingEdgesAre
  <2>5. IsSeq(nodes)
    BY <2>1, <2>2, RouteNodesAre DEF List
  <2> HIDE DEF nodes
  <2>6. IsSeq(G!LinkClientCallsToRoutes(requests, nodes))
    BY <2>1, <2>5, LinkingEdgesAre
  <2> QED BY <2>3, <2>4, <2>5, <2>6 DEF d, relationships, external, routes, reads, calls, requests, nodes
<1>5. /\ IsSeq(N3(analyses)) /\ IsSeq(N4(analyses)) /\ IsSeq(N5(analyses)) /\ IsSeq(N6(analyses))
      /\ IsSeq(N7(analyses)) /\ IsSeq(N8(analyses)) /\ IsSeq(Ns(analyses)) /\ IsSeq(N9(analyses))
      /\ IsSeq(N3(others)) /\ IsSeq(N4(others)) /\ IsSeq(N5(others)) /\ IsSeq(N6(others))
      /\ IsSeq(N7(others)) /\ IsSeq(N8(others)) /\ IsSeq(Ns(others)) /\ IsSeq(N9(others))
  BY <1>4
<1>6. /\ IsSeq(Ds(analyses)) /\ IsSeq(Ds(others)) /\ ToSet(Ds(analyses)) = ToSet(Ds(others))
      /\ IsSeq(Rs(analyses)) /\ IsSeq(Rs(others)) /\ ToSet(Rs(analyses)) = ToSet(Rs(others))
      /\ IsSeq(Es(analyses)) /\ IsSeq(Es(others)) /\ ToSet(Es(analyses)) = ToSet(Es(others))
      /\ IsSeq(Ts(analyses)) /\ IsSeq(Ts(others)) /\ ToSet(Ts(analyses)) = ToSet(Ts(others))
      /\ IsSeq(Vs(analyses)) /\ IsSeq(Vs(others)) /\ ToSet(Vs(analyses)) = ToSet(Vs(others))
      /\ IsSeq(Cs(analyses)) /\ IsSeq(Cs(others)) /\ ToSet(Cs(analyses)) = ToSet(Cs(others))
      /\ IsSeq(Qs(analyses)) /\ IsSeq(Qs(others)) /\ ToSet(Qs(analyses)) = ToSet(Qs(others))
  <2> HIDE DEF Ds, Rs, Es, Ts, Vs, Cs, Qs
  <2> QED BY <1>2, AlikeHold DEF Shuffled
<1>7. ToSet(N3(analyses)) = ToSet(N3(others))
  <2> DEFINE s == Ds(analyses)
             t == Ds(others)
  <2>1. IsSeq(s) /\ IsSeq(t) /\ ToSet(s) = ToSet(t)
    BY <1>6
  <2> HIDE DEF s, t
  <2>2. ToSet(G!DeclaresEdges(s)) = ToSet(G!DeclaresEdges(t))
    BY <2>1, DeclaringHolds
  <2> QED BY <2>2 DEF s, t
<1>8. ASSUME NEW s, NEW t, IsSeq(s), IsSeq(t), ToSet(s) = ToSet(t)
      PROVE  /\ ToSet(G!Each(s, G!RelationshipEdge)) = ToSet(G!Each(t, G!RelationshipEdge))
             /\ ToSet(G!Each(s, G!Reads)) = ToSet(G!Each(t, G!Reads))
             /\ ToSet(G!Each(s, G!CallEdge)) = ToSet(G!Each(t, G!CallEdge))
             /\ ToSet(G!Each(s, G!ExternalCallEdge)) = ToSet(G!Each(t, G!ExternalCallEdge))
  <2>1. /\ ToSet(G!Each(s, G!RelationshipEdge)) = UNION {ToSet(G!RelationshipEdge(x)) : x \in ToSet(s)}
        /\ ToSet(G!Each(s, G!Reads)) = UNION {ToSet(G!Reads(x)) : x \in ToSet(s)}
        /\ ToSet(G!Each(s, G!CallEdge)) = UNION {ToSet(G!CallEdge(x)) : x \in ToSet(s)}
        /\ ToSet(G!Each(s, G!ExternalCallEdge)) = UNION {ToSet(G!ExternalCallEdge(x)) : x \in ToSet(s)}
    BY <1>8, EdgesHold
  <2>2. /\ ToSet(G!Each(t, G!RelationshipEdge)) = UNION {ToSet(G!RelationshipEdge(x)) : x \in ToSet(t)}
        /\ ToSet(G!Each(t, G!Reads)) = UNION {ToSet(G!Reads(x)) : x \in ToSet(t)}
        /\ ToSet(G!Each(t, G!CallEdge)) = UNION {ToSet(G!CallEdge(x)) : x \in ToSet(t)}
        /\ ToSet(G!Each(t, G!ExternalCallEdge)) = UNION {ToSet(G!ExternalCallEdge(x)) : x \in ToSet(t)}
    BY <1>8, EdgesHold
  <2> QED BY <1>8, <2>1, <2>2
<1>9. ToSet(N4(analyses)) = ToSet(N4(others)) /\ ToSet(N6(analyses)) = ToSet(N6(others))
  <2> HIDE DEF Rs, Vs
  <2> QED BY <1>6, <1>8
<1>10. ToSet(N7(analyses)) = ToSet(N7(others)) /\ ToSet(N8(analyses)) = ToSet(N8(others))
  <2> HIDE DEF Cs, Es
  <2> QED BY <1>6, <1>8
<1>11. ToSet(N5(analyses)) = ToSet(N5(others))
  <2> DEFINE s == Ts(analyses)
             t == Ts(others)
  <2>1. IsSeq(s) /\ IsSeq(t) /\ ToSet(s) = ToSet(t)
    BY <1>6
  <2>2. (\A r \in ToSet(s) : IsSeq(r.handlers)) /\ \A r \in ToSet(t) : IsSeq(r.handlers)
    BY DEF Analysed
  <2> HIDE DEF s, t
  <2>3. /\ ToSet(G!Each(s, G!HandledBy)) = UNION {ToSet(G!HandledBy(x)) : x \in ToSet(s)}
        /\ ToSet(G!Each(t, G!HandledBy)) = UNION {ToSet(G!HandledBy(x)) : x \in ToSet(t)}
    BY <2>1, <2>2, HandlingHolds
  <2>4. ToSet(G!Each(s, G!HandledBy)) = ToSet(G!Each(t, G!HandledBy))
    BY <2>1, <2>3
  <2> QED BY <2>4 DEF s, t
<1>12. same => ToSet(N9(analyses)) = ToSet(N9(others))
  <2> DEFINE s == Ts(analyses)
             t == Ts(others)
             c == Qs(analyses)
             e == Qs(others)
  <2> SUFFICES ASSUME same PROVE ToSet(N9(analyses)) = ToSet(N9(others))
    OBVIOUS
  <2>1. IsSeq(s) /\ IsSeq(t) /\ ToSet(s) = ToSet(t) /\ IsSeq(c) /\ IsSeq(e) /\ ToSet(c) = ToSet(e)
    BY <1>6
  <2>2. OneSpelling(ToSet(s)) /\ \A r \in ToSet(s) : IsSeq(r.path)
    OBVIOUS
  <2> HIDE DEF s, t, c, e
  <2>3. ToSet(G!LinkClientCallsToRoutes(c, G!Pooled(G!Each(s, G!RouteNode))))
        = ToSet(G!LinkClientCallsToRoutes(e, G!Pooled(G!Each(t, G!RouteNode))))
    BY <2>1, <2>2, LinksAreAlike
  <2> QED BY <2>3 DEF s, t, c, e
<1>13. /\ \A x \in ToSet(N9(analyses)) : x.type = "CONTINUES_TO"
       /\ \A x \in ToSet(N9(others)) : x.type = "CONTINUES_TO"
  <2> HIDE DEF Qs, Ns
  <2> QED BY <1>5, <1>6, LinksContinue
<1> HIDE DEF N1, N2, N3, N4, N5, N6, N7, N8, N9
<1>14. \A s, t : IsSeq(s) /\ IsSeq(t) => IsSeq(s \o t) /\ ToSet(s \o t) = ToSet(s) \cup ToSet(t)
  BY BothHold
<1>15. ASSUME NEW a, IsSeq(N3(a)), IsSeq(N4(a)), IsSeq(N5(a)), IsSeq(N6(a)), IsSeq(N7(a)), IsSeq(N8(a)), IsSeq(N9(a))
       PROVE  ToSet(G!Build(u, a).edges)
              = (ToSet(N1 \o N2) \cup ToSet(N3(a)) \cup ToSet(N4(a)) \cup ToSet(N5(a)) \cup ToSet(N6(a))
                 \cup ToSet(N7(a)) \cup ToSet(N8(a))) \cup ToSet(N9(a))
  <2> DEFINE m == N1 \o N2
             n == N3(a)
             o == N4(a)
             p == N5(a)
             q == N6(a)
             r == N7(a)
             s == N8(a)
             t == N9(a)
  <2>1. IsSeq(m) /\ IsSeq(n) /\ IsSeq(o) /\ IsSeq(p) /\ IsSeq(q) /\ IsSeq(r) /\ IsSeq(s) /\ IsSeq(t)
    BY <1>3, <1>14, <1>15
  <2>2. G!Build(u, a).edges = m \o n \o o \o p \o q \o r \o s \o t
    BY <1>1
  <2> HIDE DEF m, n, o, p, q, r, s, t
  <2>3. IsSeq(m \o n) /\ ToSet(m \o n) = ToSet(m) \cup ToSet(n)
    BY <1>14, <2>1
  <2>4. IsSeq(m \o n \o o) /\ ToSet(m \o n \o o) = ToSet(m \o n) \cup ToSet(o)
    BY <1>14, <2>1, <2>3
  <2>5. IsSeq(m \o n \o o \o p) /\ ToSet(m \o n \o o \o p) = ToSet(m \o n \o o) \cup ToSet(p)
    BY <1>14, <2>1, <2>4
  <2>6. IsSeq(m \o n \o o \o p \o q) /\ ToSet(m \o n \o o \o p \o q) = ToSet(m \o n \o o \o p) \cup ToSet(q)
    BY <1>14, <2>1, <2>5
  <2>7. /\ IsSeq(m \o n \o o \o p \o q \o r)
        /\ ToSet(m \o n \o o \o p \o q \o r) = ToSet(m \o n \o o \o p \o q) \cup ToSet(r)
    BY <1>14, <2>1, <2>6
  <2>8. /\ IsSeq(m \o n \o o \o p \o q \o r \o s)
        /\ ToSet(m \o n \o o \o p \o q \o r \o s) = ToSet(m \o n \o o \o p \o q \o r) \cup ToSet(s)
    BY <1>14, <2>1, <2>7
  <2>9. ToSet(m \o n \o o \o p \o q \o r \o s \o t) = ToSet(m \o n \o o \o p \o q \o r \o s) \cup ToSet(t)
    BY <1>14, <2>1, <2>8
  <2>10. ToSet(m \o n \o o \o p \o q \o r \o s)
         = ToSet(m) \cup ToSet(n) \cup ToSet(o) \cup ToSet(p) \cup ToSet(q) \cup ToSet(r) \cup ToSet(s)
    BY <2>3, <2>4, <2>5, <2>6, <2>7, <2>8
  <2>11. ToSet(m \o n \o o \o p \o q \o r \o s \o t)
         = (ToSet(m) \cup ToSet(n) \cup ToSet(o) \cup ToSet(p) \cup ToSet(q) \cup ToSet(r) \cup ToSet(s)) \cup ToSet(t)
    BY <2>9, <2>10
  <2> QED BY <2>2, <2>11 DEF m, n, o, p, q, r, s, t
<1> DEFINE S(a) == ToSet(N1 \o N2) \cup ToSet(N3(a)) \cup ToSet(N4(a)) \cup ToSet(N5(a)) \cup ToSet(N6(a))
                   \cup ToSet(N7(a)) \cup ToSet(N8(a))
<1>16. S(analyses) = S(others)
  BY <1>7, <1>9, <1>10, <1>11
<1>17. /\ ToSet(G!Build(u, analyses).edges) = S(analyses) \cup ToSet(N9(analyses))
       /\ ToSet(G!Build(u, others).edges) = S(others) \cup ToSet(N9(others))
  BY <1>5, <1>15
<1> HIDE DEF S
<1>18. CASE same
  BY <1>12, <1>16, <1>17, <1>18
<1>19. CASE ~same
  BY <1>13, <1>16, <1>17, <1>19
<1> QED BY <1>18, <1>19

\* The same references remain unresolved in both orders.
LEMMA RowsAreAlike ==
  ASSUME NEW u, NEW analyses, NEW others, Universally(u), Analysed(u, analyses), Analysed(u, others),
         Mirrored(analyses, others)
  PROVE  G!Ids(G!Build(u, analyses).unresolved) = G!Ids(G!Build(u, others).unresolved)
<1> DEFINE Us(a) == G!Gathered(a, "unresolved")
           Ts(a) == G!Gathered(a, "routes")
           Vs(a) == G!Gathered(a, "reads")
           Bs(a) == G!Gathered(a, "unbound")
           N1(a) == G!Each(Us(a), G!UnresolvedRow)
           N2 == G!ArtifactsMissing(u)
           N3(a) == G!Each(Ts(a), G!HandlersMissing)
           N4(a) == G!Each(Vs(a), G!ReadsMissing)
           N5(a) == G!Each(Bs(a), G!UnresolvedCall)
<1>1. \A a : G!Build(u, a).unresolved = G!DedupeUnresolved(N1(a) \o N2 \o N3(a) \o N4(a) \o N5(a))
  BY DEF G!Build
<1>2. /\ Shuffled(Us(analyses), Us(others)) /\ Shuffled(Ts(analyses), Ts(others))
      /\ Shuffled(Vs(analyses), Vs(others)) /\ Shuffled(Bs(analyses), Bs(others))
  BY DEF Mirrored, Fields
<1>3. IsSeq(N2)
  BY ArtifactsMissingAre DEF List
<1>4. ASSUME NEW a, Analysed(u, a)
      PROVE  IsSeq(N1(a)) /\ IsSeq(N3(a)) /\ IsSeq(N4(a)) /\ IsSeq(N5(a))
  <2> DEFINE r == Us(a)
             routes == Ts(a)
             reads == Vs(a)
             calls == Bs(a)
  <2>1. IsSeq(r) /\ IsSeq(routes) /\ IsSeq(reads) /\ IsSeq(calls)
    BY <1>4 DEF Analysed, Fields
  <2>2. /\ \A x \in ToSet(r) : x.home \in Homes(u)
        /\ \A x \in ToSet(reads) : x.home \in Homes(u)
        /\ \A x \in ToSet(calls) : x.home \in Homes(u)
        /\ \A x \in ToSet(routes) : x.home \in Homes(u) /\ IsSeq(x.handlers)
    BY <1>4 DEF Analysed
  <2> HIDE DEF r, routes, reads, calls
  <2>3. IsSeq(G!Each(r, G!UnresolvedRow)) /\ IsSeq(G!Each(reads, G!ReadsMissing)) /\ IsSeq(G!Each(calls, G!UnresolvedCall))
    BY <2>1, <2>2, UnresolvedRowsAre DEF List
  <2>4. IsSeq(G!Each(routes, G!HandlersMissing))
    BY <2>1, <2>2, HandlersMissingAre DEF List
  <2> QED BY <2>3, <2>4 DEF r, routes, reads, calls
<1>5. /\ IsSeq(N1(analyses)) /\ IsSeq(N3(analyses)) /\ IsSeq(N4(analyses)) /\ IsSeq(N5(analyses))
      /\ IsSeq(N1(others)) /\ IsSeq(N3(others)) /\ IsSeq(N4(others)) /\ IsSeq(N5(others))
  BY <1>4
<1>6. /\ IsSeq(Us(analyses)) /\ IsSeq(Us(others)) /\ ToSet(Us(analyses)) = ToSet(Us(others))
      /\ IsSeq(Ts(analyses)) /\ IsSeq(Ts(others)) /\ ToSet(Ts(analyses)) = ToSet(Ts(others))
      /\ IsSeq(Vs(analyses)) /\ IsSeq(Vs(others)) /\ ToSet(Vs(analyses)) = ToSet(Vs(others))
      /\ IsSeq(Bs(analyses)) /\ IsSeq(Bs(others)) /\ ToSet(Bs(analyses)) = ToSet(Bs(others))
  <2> HIDE DEF Us, Ts, Vs, Bs
  <2> QED BY <1>2, AlikeHold DEF Shuffled
<1>7. ASSUME NEW s, NEW t, IsSeq(s), IsSeq(t), ToSet(s) = ToSet(t)
      PROVE  /\ ToSet(G!Each(s, G!UnresolvedRow)) = ToSet(G!Each(t, G!UnresolvedRow))
             /\ ToSet(G!Each(s, G!ReadsMissing)) = ToSet(G!Each(t, G!ReadsMissing))
             /\ ToSet(G!Each(s, G!UnresolvedCall)) = ToSet(G!Each(t, G!UnresolvedCall))
  <2>1. /\ ToSet(G!Each(s, G!UnresolvedRow)) = UNION {ToSet(G!UnresolvedRow(x)) : x \in ToSet(s)}
        /\ ToSet(G!Each(s, G!ReadsMissing)) = UNION {ToSet(G!ReadsMissing(x)) : x \in ToSet(s)}
        /\ ToSet(G!Each(s, G!UnresolvedCall)) = UNION {ToSet(G!UnresolvedCall(x)) : x \in ToSet(s)}
    BY <1>7, RowsHold
  <2>2. /\ ToSet(G!Each(t, G!UnresolvedRow)) = UNION {ToSet(G!UnresolvedRow(x)) : x \in ToSet(t)}
        /\ ToSet(G!Each(t, G!ReadsMissing)) = UNION {ToSet(G!ReadsMissing(x)) : x \in ToSet(t)}
        /\ ToSet(G!Each(t, G!UnresolvedCall)) = UNION {ToSet(G!UnresolvedCall(x)) : x \in ToSet(t)}
    BY <1>7, RowsHold
  <2> QED BY <1>7, <2>1, <2>2
<1>8. /\ ToSet(N1(analyses)) = ToSet(N1(others)) /\ ToSet(N4(analyses)) = ToSet(N4(others))
      /\ ToSet(N5(analyses)) = ToSet(N5(others))
  <2> HIDE DEF Us, Vs, Bs
  <2> QED BY <1>6, <1>7
<1>9. ToSet(N3(analyses)) = ToSet(N3(others))
  <2> DEFINE s == Ts(analyses)
             t == Ts(others)
  <2>1. IsSeq(s) /\ IsSeq(t) /\ ToSet(s) = ToSet(t)
    BY <1>6
  <2>2. (\A r \in ToSet(s) : IsSeq(r.handlers)) /\ \A r \in ToSet(t) : IsSeq(r.handlers)
    BY DEF Analysed
  <2> HIDE DEF s, t
  <2>3. /\ ToSet(G!Each(s, G!HandlersMissing)) = UNION {ToSet(G!HandlersMissing(x)) : x \in ToSet(s)}
        /\ ToSet(G!Each(t, G!HandlersMissing)) = UNION {ToSet(G!HandlersMissing(x)) : x \in ToSet(t)}
    BY <2>1, <2>2, HandlingHolds
  <2>4. ToSet(G!Each(s, G!HandlersMissing)) = ToSet(G!Each(t, G!HandlersMissing))
    BY <2>1, <2>3
  <2> QED BY <2>4 DEF s, t
<1> HIDE DEF N1, N2, N3, N4, N5
<1>10. \A s, t : IsSeq(s) /\ IsSeq(t) => IsSeq(s \o t) /\ ToSet(s \o t) = ToSet(s) \cup ToSet(t)
  BY BothHold
<1> DEFINE A(a) == N1(a) \o N2 \o N3(a) \o N4(a) \o N5(a)
<1>11. ASSUME NEW a, IsSeq(N1(a)), IsSeq(N3(a)), IsSeq(N4(a)), IsSeq(N5(a))
       PROVE  /\ IsSeq(A(a))
              /\ ToSet(A(a)) = ToSet(N1(a)) \cup ToSet(N2) \cup ToSet(N3(a)) \cup ToSet(N4(a)) \cup ToSet(N5(a))
  <2> DEFINE m == N1(a)
             o == N3(a)
             p == N4(a)
             q == N5(a)
  <2>1. IsSeq(m) /\ IsSeq(o) /\ IsSeq(p) /\ IsSeq(q)
    BY <1>11
  <2> HIDE DEF m, o, p, q
  <2>2. IsSeq(m \o N2) /\ ToSet(m \o N2) = ToSet(m) \cup ToSet(N2)
    BY <1>3, <1>10, <2>1
  <2>3. IsSeq(m \o N2 \o o) /\ ToSet(m \o N2 \o o) = ToSet(m \o N2) \cup ToSet(o)
    BY <1>10, <2>1, <2>2
  <2>4. IsSeq(m \o N2 \o o \o p) /\ ToSet(m \o N2 \o o \o p) = ToSet(m \o N2 \o o) \cup ToSet(p)
    BY <1>10, <2>1, <2>3
  <2>5. IsSeq(m \o N2 \o o \o p \o q) /\ ToSet(m \o N2 \o o \o p \o q) = ToSet(m \o N2 \o o \o p) \cup ToSet(q)
    BY <1>10, <2>1, <2>4
  <2>6. ToSet(m \o N2 \o o \o p \o q) = ToSet(m) \cup ToSet(N2) \cup ToSet(o) \cup ToSet(p) \cup ToSet(q)
    BY <2>2, <2>3, <2>4, <2>5
  <2> QED BY <2>5, <2>6 DEF m, o, p, q
<1>12. /\ IsSeq(A(analyses)) /\ IsSeq(A(others))
       /\ ToSet(A(analyses)) = ToSet(A(others))
  <2>1. /\ IsSeq(A(analyses))
        /\ ToSet(A(analyses)) = ToSet(N1(analyses)) \cup ToSet(N2) \cup ToSet(N3(analyses)) \cup ToSet(N4(analyses))
                                \cup ToSet(N5(analyses))
    BY <1>5, <1>11
  <2>2. /\ IsSeq(A(others))
        /\ ToSet(A(others)) = ToSet(N1(others)) \cup ToSet(N2) \cup ToSet(N3(others)) \cup ToSet(N4(others))
                              \cup ToSet(N5(others))
    BY <1>5, <1>11
  <2> QED BY <1>8, <1>9, <2>1, <2>2
<1>13. \A a : G!Build(u, a).unresolved = G!DedupeUnresolved(A(a))
  BY <1>1
<1> HIDE DEF A
<1>14. G!Ids(G!DedupeUnresolved(A(analyses))) = G!Ids(G!DedupeUnresolved(A(others)))
  BY <1>12, IdsOfFirsts
<1> QED BY <1>13, <1>14

-----------------------------------------------------------------------------
(* The store *)

\* The transaction has executed so many statements of the replacement, and has the others to do.
Transacting ==
  LET R == G!Replacement(storing.graph, counts.builds)
  IN  \E T : \E j \in Nat :
        /\ Replaces(R, T) /\ Reached(R, T, j, tables)
        /\ storing.todo = SubSeq(R, j + 1, Len(R))

StoreIsSound ==
  /\ Truncating(saved, 0)
  /\ storing = [phase |-> storing.phase, input |-> storing.input, graph |-> storing.graph,
                todo |-> storing.todo, why |-> storing.why]
  /\ storing.phase \in {"built", "open", "writing"} /\ storing.input \in Stored =>
       \A n : \E T : Replaces(G!Replacement(storing.graph, n), T)
  /\ storing.phase \in {"open", "writing"} => storing.input \in Stored
  /\ IF storing.phase = "writing" THEN Transacting ELSE tables = saved
  /\ storing.why # "constraint"

\* The invariant of the store holds at the start.
LEMMA StoreBegins ==
  ASSUME InputsAssumption, CInit
  PROVE  StoreIsSound
<1>1. G!Init
  BY DEF CInit
<1>2. PICK d \in Databases :
        saved = IF d # "written" THEN G!Empty
                ELSE [t \in G!Tables |-> IF t \in {"revisions", "repository"} THEN {G!Written} ELSE {}]
  BY <1>1 DEF G!Init
<1>3. \A t \in G!Tables : saved[t] \subseteq {G!Written}
  BY <1>2 DEF G!Empty
<1>4. saved = [t \in G!Tables |-> saved[t]]
  BY <1>2 DEF G!Empty
<1>5. G!Written.refs = {}
  BY DEF G!Written
<1>6. G!Upheld(saved) /\ RowsStand(saved)
  BY <1>3, <1>5 DEF G!Upheld, RowsStand, RowStands
<1>7. Emptied(0) = {}
  BY DEF Emptied
<1>8. Truncating(saved, 0)
  BY <1>4, <1>6, <1>7 DEF Truncating
<1>9. tables = saved /\ storing = G!Idle
  BY <1>1 DEF G!Init
<1>10. G!Idle = [phase |-> "idle", input |-> None, graph |-> None, todo |-> <<>>, why |-> None]
  BY DEF G!Idle
<1> QED BY <1>8, <1>9, <1>10 DEF StoreIsSound, InputsAssumption

\* Building a graph keeps it.
LEMMA BuildingIsSound ==
  ASSUME InputsAssumption, StoreIsSound, NEW input, G!Builds(input)
  PROVE  StoreIsSound'
<1> DEFINE g == G!Build(input.universal, input.analyses)
           valid == G!ValidateGraph(g)
<1>1. /\ storing.phase \in {"idle", "ended"}
      /\ storing' = [phase |-> IF valid THEN "built" ELSE "ended", input |-> input, graph |-> g,
                     todo |-> <<>>, why |-> IF valid THEN None ELSE "invalid"]
      /\ UNCHANGED <<schema, saved, tables>>
  BY DEF G!Builds
<1>2. valid /\ input \in Stored => \A n : \E T : Replaces(G!Replacement(g, n), T)
  BY BuiltIsReplaceable
<1> HIDE DEF g, valid
<1>3. Truncating(saved, 0)'
  BY <1>1 DEF StoreIsSound
<1>4. tables' = saved'
  BY <1>1 DEF StoreIsSound
<1>5. storing'.phase \in {"built", "ended"} /\ storing'.phase # "writing" /\ storing'.input = input /\ storing'.graph = g
      /\ storing'.todo = <<>> /\ storing'.why \in {None, "invalid"} /\ (storing'.phase = "built" => valid)
  BY <1>1
<1>6. storing'.why # "constraint"
  BY <1>5 DEF InputsAssumption
<1> QED BY <1>1, <1>2, <1>3, <1>4, <1>5, <1>6 DEF StoreIsSound

\* Ending a build keeps it.
LEMMA EndingIsSound ==
  ASSUME StoreIsSound, NEW why, why # "constraint", storing' = G!Ended(why), tables' = saved',
         Truncating(saved, 0)'
  PROVE  StoreIsSound'
<1>1. storing' = [phase |-> "ended", input |-> storing.input, graph |-> storing.graph, todo |-> <<>>, why |-> why]
  BY DEF G!Ended, StoreIsSound
<1> QED BY <1>1 DEF StoreIsSound

\* Opening the database keeps it.
LEMMA OpeningIsSound ==
  ASSUME StoreIsSound, G!Opens
  PROVE  StoreIsSound'
<1>1. UNCHANGED <<saved, tables>> /\ storing.phase = "built" /\ storing.input \in Stored
  BY DEF G!Opens
<1>2. Truncating(saved, 0)' /\ tables' = saved'
  BY <1>1 DEF StoreIsSound
<1>3. CASE storing' = G!Ended("version")
  BY <1>2, <1>3, EndingIsSound
<1>4. CASE storing' = [storing EXCEPT !.phase = "open"]
  <2>1. storing' = [phase |-> "open", input |-> storing.input, graph |-> storing.graph,
                    todo |-> storing.todo, why |-> storing.why]
    BY <1>4 DEF StoreIsSound
  <2> QED BY <1>1, <1>2, <2>1 DEF StoreIsSound
<1> QED BY <1>3, <1>4 DEF G!Opens

\* The beginning of a transaction keeps it.
LEMMA BeginningIsSound ==
  ASSUME StoreIsSound, G!Begins
  PROVE  StoreIsSound'
<1> DEFINE R == G!Replacement(storing.graph, counts.builds)
<1>1. UNCHANGED <<saved, tables, counts>> /\ storing.phase = "open"
      /\ storing' = [storing EXCEPT !.phase = "writing", !.todo = R]
  BY DEF G!Begins
<1>2. PICK T : Replaces(R, T)
  BY <1>1 DEF StoreIsSound
<1>3. IsSeq(R) /\ Len(R) \in Nat
  BY <1>2, ReplacementStatements, SeqIs
<1> HIDE DEF R
<1>4. storing' = [phase |-> "writing", input |-> storing.input, graph |-> storing.graph,
                  todo |-> R, why |-> storing.why]
  BY <1>1 DEF StoreIsSound
<1>5. G!Replacement(storing'.graph, counts'.builds) = R
  BY <1>1, <1>4 DEF R
<1>6. SubSeq(R, 0 + 1, Len(R)) = R
  BY <1>3 DEF IsSeq
<1>7. Reached(R, T, 0, saved)
  BY <1>3 DEF Reached, StoreIsSound
<1>8. tables' = saved
  BY <1>1 DEF StoreIsSound
<1>9. storing'.todo = R
  BY <1>4
<1>10. Transacting'
  BY <1>2, <1>5, <1>6, <1>7, <1>8, <1>9 DEF Transacting
<1>11. Truncating(saved, 0)'
  BY <1>1 DEF StoreIsSound
<1> QED BY <1>1, <1>4, <1>10, <1>11 DEF StoreIsSound

\* What is left to do after one statement more.
LEMMA SuffixGoesOn ==
  ASSUME NEW R, IsSeq(R), NEW j \in 0 .. Len(R), SubSeq(R, j + 1, Len(R)) # <<>>
  PROVE  /\ j < Len(R) /\ Head(SubSeq(R, j + 1, Len(R))) = R[j + 1]
         /\ Tail(SubSeq(R, j + 1, Len(R))) = SubSeq(R, (j + 1) + 1, Len(R))
<1>1. PICK S : R \in Seq(S)
  BY DEF IsSeq
<1> DEFINE q == SubSeq(R, j + 1, Len(R))
           n == Len(R)
<1>2. n \in Nat /\ j \in Nat /\ j <= n
  BY <1>1
<1>3. q \in Seq(S) /\ Len(q) = n - j /\ \A i \in 1 .. n - j : q[i] = R[j + i]
  BY <1>1, <1>2
<1>4. j # n
  <2> SUFFICES ASSUME j = n PROVE FALSE
    OBVIOUS
  <2>1. Len(q) = 0
    BY <1>2, <1>3
  <2> HIDE DEF q
  <2> QED BY <1>3, <2>1 DEF q
<1>5. Head(q) = R[j + 1]
  BY <1>2, <1>3, <1>4
<1>6. Tail(q) = SubSeq(R, (j + 1) + 1, Len(R))
  <2> DEFINE t == SubSeq(R, (j + 1) + 1, Len(R))
  <2>1. t \in Seq(S) /\ Len(t) = n - (j + 1) /\ \A i \in 1 .. n - (j + 1) : t[i] = R[(j + 1) + i]
    BY <1>1, <1>2, <1>4
  <2>2. q # <<>>
    OBVIOUS
  <2> HIDE DEF q, t
  <2>3. Tail(q) \in Seq(S) /\ Len(Tail(q)) = n - (j + 1) /\ \A i \in 1 .. n - (j + 1) : Tail(q)[i] = q[i + 1]
    BY <1>2, <1>3, <2>2
  <2>4. \A i \in 1 .. n - (j + 1) : Tail(q)[i] = t[i]
    BY <1>2, <1>3, <2>1, <2>3
  <2>5. Tail(q) = t
    BY ONLY <1>2, <2>1, <2>3, <2>4, SeqEqual
  <2> QED BY <2>5 DEF t
<1> QED BY <1>2, <1>4, <1>5, <1>6

\* Each statement keeps it, whether it is executed or fails.
LEMMA ExecutingIsSound ==
  ASSUME InputsAssumption, StoreIsSound, G!Executes
  PROVE  StoreIsSound'
<1> DEFINE R == G!Replacement(storing.graph, counts.builds)
           s == Head(storing.todo)
           fails == IF schema = "other" /\ s.does = "insert" /\ s.table = "nodes" THEN "schema"
                    ELSE IF G!Violates(tables, s) THEN "constraint" ELSE None
<1>1. /\ storing.phase = "writing" /\ storing.todo # <<>> /\ UNCHANGED <<saved, counts>>
      /\ IF fails = None
         THEN storing' = [storing EXCEPT !.todo = Tail(@)] /\ tables' = G!After(tables, s)
         ELSE storing' = G!Ended(fails) /\ tables' = saved
  BY DEF G!Executes
<1>2. PICK T : \E j \in Nat :
        Replaces(R, T) /\ Reached(R, T, j, tables) /\ storing.todo = SubSeq(R, j + 1, Len(R))
  BY <1>1 DEF StoreIsSound, Transacting
<1>3. PICK j \in Nat :
        Replaces(R, T) /\ Reached(R, T, j, tables) /\ storing.todo = SubSeq(R, j + 1, Len(R))
  BY <1>2
<1>4. IsSeq(R) /\ Len(R) \in Nat
  BY <1>3, ReplacementStatements, SeqIs
<1> HIDE DEF R
<1>5. j < Len(R) /\ s = R[j + 1] /\ Tail(storing.todo) = SubSeq(R, (j + 1) + 1, Len(R))
  <2>1. j \in 0 .. Len(R)
    BY <1>3 DEF Reached
  <2> QED BY <1>1, <1>3, <1>4, <2>1, SuffixGoesOn
<1>6. ~G!Violates(tables, s) /\ Reached(R, T, j + 1, G!After(tables, s))
  BY <1>3, <1>5, ExecutionGoesOn
<1> HIDE DEF s
<1>7. Truncating(saved, 0)'
  BY <1>1 DEF StoreIsSound
<1>8. CASE fails # None
  <2>1. fails # "constraint"
    BY <1>6 DEF InputsAssumption
  <2> HIDE DEF fails
  <2> QED BY <1>1, <1>7, <1>8, <2>1, EndingIsSound
<1>9. CASE fails = None
  <2> DEFINE todo == Tail(storing.todo)
  <2>0. storing' = [storing EXCEPT !.todo = todo] /\ tables' = G!After(tables, s)
    BY <1>1, <1>9
  <2> HIDE DEF fails, todo
  <2>1. storing' = [phase |-> "writing", input |-> storing.input, graph |-> storing.graph,
                    todo |-> todo, why |-> storing.why]
    BY <1>1, <2>0 DEF StoreIsSound
  <2>2. G!Replacement(storing'.graph, counts'.builds) = R
    BY <1>1, <2>1 DEF R
  <2>3. storing'.todo = SubSeq(R, (j + 1) + 1, Len(R))
    BY <1>5, <2>1 DEF todo
  <2>4. j + 1 \in Nat
    OBVIOUS
  <2>5. Transacting'
    BY <1>3, <1>6, <2>0, <2>2, <2>3, <2>4 DEF Transacting
  <2> QED BY <1>1, <1>7, <2>1, <2>5 DEF StoreIsSound
<1> QED BY <1>8, <1>9

\* When nothing is left to do, the tables hold what the replacement inserts.
LEMMA TransactionEnds ==
  ASSUME StoreIsSound, storing.phase = "writing", storing.todo = <<>>
  PROVE  /\ Truncating(tables, 0)
         /\ \E T : /\ Replaces(G!Replacement(storing.graph, counts.builds), T)
                   /\ tables = Inserted(T, Len(T))
<1> DEFINE R == G!Replacement(storing.graph, counts.builds)
<1>2. PICK T : \E j \in Nat :
        Replaces(R, T) /\ Reached(R, T, j, tables) /\ storing.todo = SubSeq(R, j + 1, Len(R))
  BY DEF StoreIsSound, Transacting
<1>3. PICK j \in Nat :
        Replaces(R, T) /\ Reached(R, T, j, tables) /\ storing.todo = SubSeq(R, j + 1, Len(R))
  BY <1>2
<1>4. IsSeq(R) /\ Len(R) \in Nat /\ Len(T) \in Nat /\ Len(R) = 12 + Len(T)
  BY <1>3, ReplacementStatements, SeqIs
<1> HIDE DEF R
<1>5. j = Len(R)
  <2>1. j \in 0 .. Len(R)
    BY <1>3 DEF Reached
  <2>2. Len(SubSeq(R, j + 1, Len(R))) = 0
    BY <1>3, ShortSeqs
  <2> QED BY <1>4, <2>1, <2>2 DEF IsSeq
<1>6. j - 12 = Len(T) /\ j >= 12
  BY <1>4, <1>5
<1>7. tables = Inserted(T, Len(T))
  BY <1>3, <1>6 DEF Reached
<1>8. Len(T) \in 0 .. Len(T) /\ Sound(T, {})
  BY <1>3, <1>4 DEF Replaces
<1>9. G!Upheld(tables) /\ RowsStand(tables)
  BY <1>7, <1>8, InsertedIsUpheld
<1>10. tables = [t \in G!Tables |-> tables[t]]
  BY <1>7 DEF Inserted
<1>11. Emptied(0) = {}
  BY DEF Emptied
<1> QED BY <1>3, <1>7, <1>9, <1>10, <1>11 DEF Truncating, R

\* Committing keeps it.
LEMMA CommittingIsSound ==
  ASSUME InputsAssumption, StoreIsSound, G!Commits
  PROVE  StoreIsSound'
<1>1. storing.phase = "writing" /\ storing.todo = <<>> /\ saved' = tables /\ tables' = tables
      /\ storing' = G!Ended(None)
  BY DEF G!Commits
<1>2. Truncating(tables, 0)
  BY <1>1, TransactionEnds
<1> QED BY <1>1, <1>2, EndingIsSound DEF InputsAssumption

\* An interruption keeps it: the file is what was last committed.
LEMMA InterruptionIsSound ==
  ASSUME StoreIsSound, G!Interrupted
  PROVE  StoreIsSound'
<1>1. storing' = G!Ended("interrupted") /\ tables' = saved /\ saved' = saved
  BY DEF G!Interrupted
<1>2. Truncating(saved, 0)'
  BY <1>1 DEF StoreIsSound
<1> QED BY <1>1, <1>2, EndingIsSound

\* Steps that leave the store alone keep it.
LEMMA StoreStays ==
  ASSUME StoreIsSound, UNCHANGED graphVars
  PROVE  StoreIsSound'
<1>1. UNCHANGED <<saved, tables, storing, counts>>
  BY DEF graphVars
<1>2. Transacting => Transacting'
  BY <1>1 DEF Transacting
<1> QED BY <1>1, <1>2 DEF StoreIsSound

\* Every step keeps it.
LEMMA StoreStep ==
  ASSUME InputsAssumption, StoreIsSound, [CNext]_allVars
  PROVE  StoreIsSound'
<1>1. CASE Binds
  BY <1>1, StoreStays DEF Binds
<1>2. CASE BuildsProgram
  BY <1>2, BuildingIsSound DEF BuildsProgram
<1>3. CASE Scans
  <2>1. CASE \E input \in Inputs : G!Builds(input)
    BY <2>1, BuildingIsSound
  <2>2. CASE G!Opens
    BY <2>2, OpeningIsSound
  <2>3. CASE G!Begins
    BY <2>3, BeginningIsSound
  <2>4. CASE G!Executes
    BY <2>4, ExecutingIsSound
  <2>5. CASE G!Commits
    BY <2>5, CommittingIsSound
  <2>6. CASE G!Interrupted
    BY <2>6, InterruptionIsSound
  <2> QED BY <1>3, <2>1, <2>2, <2>3, <2>4, <2>5, <2>6 DEF Scans, G!Next
<1>4. CASE UNCHANGED allVars
  BY <1>4, StoreStays DEF allVars
<1> QED BY <1>1, <1>2, <1>3, <1>4 DEF CNext

\* What a replacement leaves is the rows it inserts.
LEMMA InsertedIsAll ==
  ASSUME NEW R, NEW T, Replaces(R, T)
  PROVE  Inserted(T, Len(T)) =
           LET Inserts(t) == {i \in DOMAIN R : R[i].does = "insert" /\ R[i].table = t}
           IN  [t \in G!Tables |-> {R[i].row : i \in Inserts(t)}]
<1>1. /\ IsSeq(R) /\ Len(T) \in Nat /\ Len(R) = 12 + Len(T)
      /\ \A j \in 1 .. 12 : R[j] = Truncates[j]
      /\ \A j \in 1 .. Len(T) : R[12 + j] = T[j]
  BY ReplacementStatements
<1>2. DOMAIN R = 1 .. 12 + Len(T)
  BY <1>1, SeqIs
<1>3. \A j \in 1 .. 12 : Truncates[j].does = "delete"
  BY TruncateIs DEF G!Delete
<1>4. \A j \in 1 .. Len(T) : T[j].does = "insert"
  BY DEF Replaces, Sound
<1>5. ASSUME NEW t \in G!Tables
      PROVE  {R[i].row : i \in {k \in DOMAIN R : R[k].does = "insert" /\ R[k].table = t}}
               = {T[i].row : i \in {j \in 1 .. Len(T) : T[j].table = t}}
  <2>1. ASSUME NEW i \in DOMAIN R, R[i].does = "insert", R[i].table = t
        PROVE  \E j \in 1 .. Len(T) : T[j].table = t /\ R[i].row = T[j].row
    <3>1. i \notin 1 .. 12
      BY <1>1, <1>3, <2>1
    <3>2. i - 12 \in 1 .. Len(T) /\ 12 + (i - 12) = i
      BY <1>1, <1>2, <3>1
    <3> QED BY <1>1, <2>1, <3>2
  <2>2. ASSUME NEW j \in 1 .. Len(T), T[j].table = t
        PROVE  \E i \in DOMAIN R : R[i].does = "insert" /\ R[i].table = t /\ R[i].row = T[j].row
    <3>1. 12 + j \in DOMAIN R /\ R[12 + j] = T[j]
      BY <1>1, <1>2
    <3> QED BY <1>4, <2>2, <3>1
  <2> QED BY <2>1, <2>2
<1> QED BY <1>5 DEF Inserted

\* A graph that was validated violates no key of the schema.
THEOREM AcceptedGraphsAreAlwaysStored == CSpec => []AcceptedGraphsAreStored
<1>1. CInit => StoreIsSound
  BY StoreBegins, InputsAssumption
<1>2. StoreIsSound /\ [CNext]_allVars => StoreIsSound'
  BY StoreStep, InputsAssumption
<1>3. StoreIsSound => AcceptedGraphsAreStored
  BY DEF StoreIsSound, AcceptedGraphsAreStored, G!AcceptedGraphsAreStored
<1>4. QED BY <1>1, <1>2, <1>3, PTL DEF CSpec

\* What a step may do to the file.
Replaced ==
  saved' # saved =>
    LET statements == G!Replacement(storing.graph, counts.builds)
        Inserts(t) == {i \in DOMAIN statements : statements[i].does = "insert" /\ statements[i].table = t}
    IN  saved' = [t \in G!Tables |-> {statements[i].row : i \in Inserts(t)}]

\* A step that changes the file commits a whole replacement.
LEMMA StepReplaces ==
  ASSUME StoreIsSound, [CNext]_allVars
  PROVE  [Replaced]_(G!vars)
<1>1. CASE G!Commits
  <2>1. storing.phase = "writing" /\ storing.todo = <<>> /\ saved' = tables
    BY <1>1 DEF G!Commits
  <2>2. PICK T : /\ Replaces(G!Replacement(storing.graph, counts.builds), T)
                 /\ tables = Inserted(T, Len(T))
    BY <2>1, TransactionEnds
  <2> QED BY <2>1, <2>2, InsertedIsAll DEF Replaced
<1>2. CASE ~G!Commits
  <2>1. saved' = saved
    BY <1>2 DEF CNext, Binds, BuildsProgram, Scans, G!Next, G!Builds, G!Opens, G!Begins, G!Executes,
                G!Interrupted, allVars, graphVars
  <2> QED BY <2>1 DEF Replaced
<1> QED BY <1>1, <1>2

\* The file goes from one whole graph to the next.
THEOREM GraphsAreReplacedAsAWhole == CSpec => ReplacedAsAWhole
<1>1. CInit => StoreIsSound
  BY StoreBegins, InputsAssumption
<1>2. StoreIsSound /\ [CNext]_allVars => StoreIsSound'
  BY StoreStep, InputsAssumption
<1>3. StoreIsSound /\ [CNext]_allVars => [Replaced]_(G!vars)
  BY StepReplaces
<1>4. CSpec => [][Replaced]_(G!vars)
  BY <1>1, <1>2, <1>3, PTL DEF CSpec
<1>5. ReplacedAsAWhole <=> [][Replaced]_(G!vars)
  BY DEF ReplacedAsAWhole, G!ReplacedAsAWhole, Replaced
<1> QED BY <1>4, <1>5

-----------------------------------------------------------------------------
(* The order of the analysers *)

\* What Build makes of a scan and of its reverse; of one contribution, the reverse is itself.
LEMMA OrderIsNothing ==
  ASSUME NEW u, NEW analyses, OfAScan(u, analyses) \/ \E c : analyses = <<c>>,
         NEW same, same => OneSpelling(ToSet(G!Gathered(analyses, "routes")))
  PROVE  LET g == G!Build(u, G!Reverse(analyses))
             h == G!Build(u, analyses)
         IN  /\ UnnamedIn(g.nodes) = UnnamedIn(h.nodes)
             /\ {e \in ToSet(g.edges) : e.type = "CONTINUES_TO" => same}
                = {e \in ToSet(h.edges) : e.type = "CONTINUES_TO" => same}
             /\ G!Ids(g.unresolved) = G!Ids(h.unresolved)
<1>1. CASE OfAScan(u, analyses)
  <2> DEFINE others == G!Reverse(analyses)
  <2>1. Universally(u) /\ Analysed(u, analyses)
    BY <1>1, ScansAre
  <2>2. /\ Mirrored(analyses, others) /\ Analysed(u, others)
        /\ \A r \in ToSet(G!Gathered(analyses, "routes")) : IsSeq(r.path)
    BY <1>1, ScansAreMirrored
  <2> HIDE DEF others
  <2>3. UnnamedIn(G!Build(u, analyses).nodes) = UnnamedIn(G!Build(u, others).nodes)
    BY <2>1, <2>2, NodesAreAlike
  <2>4. {e \in ToSet(G!Build(u, analyses).edges) : e.type = "CONTINUES_TO" => same}
        = {e \in ToSet(G!Build(u, others).edges) : e.type = "CONTINUES_TO" => same}
    BY <2>1, <2>2, EdgesAreAlike
  <2>5. G!Ids(G!Build(u, analyses).unresolved) = G!Ids(G!Build(u, others).unresolved)
    BY <2>1, <2>2, RowsAreAlike
  <2> QED BY <2>3, <2>4, <2>5 DEF others
<1>2. CASE \E c : analyses = <<c>>
  <2>1. PICK c : analyses = <<c>>
    BY <1>2
  <2>2. Len(analyses) = 1 /\ analyses[1] = c /\ analyses = [i \in 1 .. 1 |-> analyses[i]]
    BY <2>1
  <2>3. G!Reverse(analyses) = [i \in 1 .. Len(analyses) |-> analyses[(Len(analyses) - i) + 1]]
    BY DEF G!Reverse
  <2>4. G!Reverse(analyses) = analyses
    BY <2>2, <2>3
  <2> QED BY <2>4
<1> QED BY <1>1, <1>2

\* The graph in hand was built of what the scan found: by analysers of their own, or by one resolver.
GraphIsOfScan ==
  IF storing.phase = "idle" THEN storing.why # "invalid"
  ELSE /\ storing.graph = G!Build(G!U, G!Analyses)
       /\ OfAScan(G!U, G!Analyses) \/ \E c : G!Analyses = <<c>>

\* A step that keeps the input and the graph keeps that one was built of the other.
LEMMA GraphStays ==
  ASSUME GraphIsOfScan, storing.phase # "idle", storing'.phase # "idle",
         storing'.input = storing.input, storing'.graph = storing.graph
  PROVE  GraphIsOfScan'
<1>1. G!U' = G!U /\ G!Analyses' = G!Analyses
  BY DEF G!U, G!Analyses
<1> QED BY <1>1 DEF GraphIsOfScan

\* What a scan builds is built of what it found.
LEMMA BuiltOfScan ==
  ASSUME NEW input, G!Builds(input),
         OfAScan(input.universal, input.analyses) \/ \E c : input.analyses = <<c>>
  PROVE  GraphIsOfScan'
<1> DEFINE g == G!Build(input.universal, input.analyses)
           valid == G!ValidateGraph(g)
<1>1. storing' = [phase |-> IF valid THEN "built" ELSE "ended", input |-> input, graph |-> g,
                  todo |-> <<>>, why |-> IF valid THEN None ELSE "invalid"]
  BY DEF G!Builds
<1> HIDE DEF g, valid
<1>2. storing'.phase # "idle" /\ storing'.input = input /\ storing'.graph = g
  BY <1>1
<1>3. G!U' = input.universal /\ G!Analyses' = input.analyses
  BY <1>2 DEF G!U, G!Analyses
<1> QED BY <1>2, <1>3 DEF GraphIsOfScan, g

\* The end of a scan, however it ends, keeps its graph.
LEMMA EndingKeeps ==
  ASSUME StoreIsSound, GraphIsOfScan, storing.phase # "idle", NEW why, storing' = G!Ended(why)
  PROVE  GraphIsOfScan'
<1>1. storing' = [phase |-> "ended", input |-> storing.input, graph |-> storing.graph, todo |-> <<>>, why |-> why]
  BY DEF G!Ended, StoreIsSound
<1>2. storing'.phase # "idle" /\ storing'.input = storing.input /\ storing'.graph = storing.graph
  BY <1>1
<1> QED BY <1>2, GraphStays

\* Only a build changes the graph in hand.
LEMMA GraphStep ==
  ASSUME InputsAssumption, StoreIsSound, GraphIsOfScan, [CNext]_allVars
  PROVE  GraphIsOfScan'
<1>1. ASSUME UNCHANGED storing PROVE GraphIsOfScan'
  BY <1>1 DEF GraphIsOfScan, G!U, G!Analyses
<1>2. CASE BuildsProgram
  <2>1. PICK contribution : G!Builds([universal |-> Universal, analyses |-> <<contribution>>])
    BY <1>2 DEF BuildsProgram
  <2> DEFINE input == [universal |-> Universal, analyses |-> <<contribution>>]
  <2>2. \E c : input.analyses = <<c>>
    OBVIOUS
  <2>3. G!Builds(input)
    BY <2>1
  <2> HIDE DEF input
  <2> QED BY <2>2, <2>3, BuiltOfScan
<1>3. CASE \E input \in Inputs : G!Builds(input)
  <2>1. PICK input \in Inputs : G!Builds(input)
    BY <1>3
  <2>2. OfAScan(input.universal, input.analyses)
    BY DEF InputsAssumption
  <2> QED BY <2>1, <2>2, BuiltOfScan
<1>4. storing = [phase |-> storing.phase, input |-> storing.input, graph |-> storing.graph,
                 todo |-> storing.todo, why |-> storing.why]
  BY DEF StoreIsSound
<1>5. CASE G!Opens
  <2>1. storing.phase # "idle"
    BY <1>5 DEF G!Opens
  <2>2. CASE storing' = G!Ended("version")
    BY <2>1, <2>2, EndingKeeps
  <2>3. CASE storing' = [storing EXCEPT !.phase = "open"]
    <3>1. storing' = [phase |-> "open", input |-> storing.input, graph |-> storing.graph,
                      todo |-> storing.todo, why |-> storing.why]
      BY <1>4, <2>3
    <3>2. storing'.phase # "idle" /\ storing'.input = storing.input /\ storing'.graph = storing.graph
      BY <3>1
    <3> QED BY <2>1, <3>2, GraphStays
  <2> QED BY <1>5, <2>2, <2>3 DEF G!Opens
<1>6. CASE G!Begins
  <2> DEFINE todo == G!Replacement(storing.graph, counts.builds)
  <2>1. storing.phase # "idle" /\ storing' = [storing EXCEPT !.phase = "writing", !.todo = todo]
    BY <1>6 DEF G!Begins
  <2> HIDE DEF todo
  <2>2. storing' = [phase |-> "writing", input |-> storing.input, graph |-> storing.graph,
                    todo |-> todo, why |-> storing.why]
    BY <1>4, <2>1
  <2>3. storing'.phase # "idle" /\ storing'.input = storing.input /\ storing'.graph = storing.graph
    BY <2>2
  <2> QED BY <2>1, <2>3, GraphStays
<1>7. CASE G!Executes
  <2>1. storing.phase = "writing"
    BY <1>7 DEF G!Executes
  <2>2. (\E why : storing' = G!Ended(why)) \/ storing' = [storing EXCEPT !.todo = Tail(@)]
    BY <1>7 DEF G!Executes
  <2>3. CASE \E why : storing' = G!Ended(why)
    BY <2>1, <2>3, EndingKeeps
  <2>4. CASE storing' = [storing EXCEPT !.todo = Tail(@)]
    <3> DEFINE todo == Tail(storing.todo)
    <3>1. storing' = [phase |-> storing.phase, input |-> storing.input, graph |-> storing.graph,
                      todo |-> todo, why |-> storing.why]
      BY <1>4, <2>4
    <3> HIDE DEF todo
    <3>2. storing'.phase # "idle" /\ storing'.input = storing.input /\ storing'.graph = storing.graph
      BY <2>1, <3>1
    <3> QED BY <2>1, <3>2, GraphStays
  <2> QED BY <2>2, <2>3, <2>4
<1>8. CASE G!Commits
  <2>1. storing.phase = "writing" /\ storing' = G!Ended(None)
    BY <1>8 DEF G!Commits
  <2> QED BY <2>1, EndingKeeps
<1>9. CASE G!Interrupted
  <2>1. storing.phase \in {"open", "writing"} /\ storing' = G!Ended("interrupted")
    BY <1>9 DEF G!Interrupted
  <2> QED BY <2>1, EndingKeeps
<1>10. CASE Binds
  BY <1>1, <1>10 DEF Binds, graphVars
<1>11. CASE UNCHANGED allVars
  BY <1>1, <1>11 DEF allVars, graphVars
<1> QED BY <1>2, <1>3, <1>5, <1>6, <1>7, <1>8, <1>9, <1>10, <1>11 DEF CNext, Scans, G!Next

\* It is the same graph in whichever order the analysers ran, but for how a route is spelled.
THEOREM OrderNeverMatters == CSpec => []OrderOfAnalysersIsImmaterial
<1>1. CInit => StoreIsSound /\ GraphIsOfScan
  <2> SUFFICES ASSUME CInit PROVE StoreIsSound /\ GraphIsOfScan
    OBVIOUS
  <2>1. StoreIsSound
    BY StoreBegins, InputsAssumption
  <2>2. storing.phase = "idle" /\ storing.why = None
    BY DEF CInit, G!Init, G!Idle
  <2> QED BY <2>1, <2>2, InputsAssumption DEF GraphIsOfScan
<1>2. StoreIsSound /\ GraphIsOfScan /\ [CNext]_allVars => StoreIsSound' /\ GraphIsOfScan'
  BY StoreStep, GraphStep, InputsAssumption
<1>3. GraphIsOfScan => OrderOfAnalysersIsImmaterial
  <2> SUFFICES ASSUME GraphIsOfScan, G!IsBuilt
               PROVE  LET Regardless(e) == e.type = "CONTINUES_TO" => G!SpelledAlike
                          g == G!Build(G!U, G!Reverse(G!Analyses))
                      IN  /\ {G!Unnamed(n) : n \in G!NodesOf(g)} = {G!Unnamed(n) : n \in G!NodesOf(storing.graph)}
                          /\ {e \in G!EdgesOf(g) : Regardless(e)} = {e \in G!EdgesOf(storing.graph) : Regardless(e)}
                          /\ G!Ids(g.unresolved) = G!Ids(storing.graph.unresolved)
    BY DEF OrderOfAnalysersIsImmaterial, G!OrderOfAnalysersIsImmaterial
  <2> DEFINE u == G!U
             analyses == G!Analyses
             g == G!Build(u, G!Reverse(analyses))
             h == G!Build(u, analyses)
             same == G!SpelledAlike
  <2>1. storing.graph = h /\ (OfAScan(u, analyses) \/ \E c : analyses = <<c>>)
    BY DEF GraphIsOfScan, G!IsBuilt
  <2>2. same => OneSpelling(ToSet(G!Gathered(analyses, "routes")))
    BY OneToSet DEF G!SpelledAlike, G!Found, OneSpelling
  <2> HIDE DEF u, analyses, same
  <2>3. /\ UnnamedIn(g.nodes) = UnnamedIn(h.nodes)
        /\ {e \in ToSet(g.edges) : e.type = "CONTINUES_TO" => same}
           = {e \in ToSet(h.edges) : e.type = "CONTINUES_TO" => same}
        /\ G!Ids(g.unresolved) = G!Ids(h.unresolved)
    BY <2>1, <2>2, OrderIsNothing
  <2> HIDE DEF g, h
  <2>4. /\ {G!Unnamed(n) : n \in G!NodesOf(g)} = {G!Unnamed(n) : n \in G!NodesOf(h)}
        /\ {e \in G!EdgesOf(g) : e.type = "CONTINUES_TO" => same}
           = {e \in G!EdgesOf(h) : e.type = "CONTINUES_TO" => same}
    BY <2>3, OneToSet DEF UnnamedIn, G!NodesOf, G!EdgesOf
  <2> QED BY <2>1, <2>3, <2>4 DEF g, u, analyses, same
<1> QED BY <1>1, <1>2, <1>3, PTL DEF CSpec
=============================================================================
