------------------------------ MODULE Projection ------------------------------
(***************************************************************************)
(* project() of packages/ai/src/projection.ts: which facts of a context    *)
(* are put before the model, within a budget of tokens.                    *)
(*                                                                         *)
(* Five passes over the extractors admit facts into one prompt: the stable *)
(* core, two rounds of the priority floor, the supplement in which every   *)
(* group of facts has a share, and a sweep without shares.  One step takes *)
(* an extractor in hand, or considers one of its drafts, or passes from a  *)
(* pass to the next.                                                       *)
(*                                                                         *)
(* A fact is a number that stands for its triple and Cost is the tokens of *)
(* its line; an offer is what an extractor finds in the context, without   *)
(* repeated triples and without the externals admissible() drops.  The     *)
(* digest, the permitted names and the wording of the lines are left out.  *)
(***************************************************************************)
EXTENDS Integers, Sequences, FiniteSets, SequencesExt

CONSTANTS Declared,            \* the parts, in the order of EXTRACTORS
          GroupOf,             \* part -> the group its facts are charged to
          Pinned,              \* the parts no profile reorders
          Cap, CoreCap,        \* part -> facts per pass at this tier
          FloorFacts, RecoveryFacts, SupportingCap,   \* facts per part at this tier
          Tier,                \* TIER_TOKENS
          Cost,                \* fact -> tokens
          Contexts,            \* what a repository has to offer
          Questions            \* what is asked of it

Parts  == ToSet(Declared)
Groups == {GroupOf[p] : p \in Parts}
Drafted == DOMAIN Cost

\* estimatingCounter never says zero; answer() refuses a reservation of the whole tier;
\* plans and policies name parts some extractor has.
ASSUME ProjectionAssumption ==
  /\ Declared \in Seq(Parts)
  /\ Cost \in [Drafted -> Nat \ {0}] /\ Tier \in Nat
  /\ Cap \in [Parts -> Nat \ {0}] /\ CoreCap \in [Parts -> Nat \ {0}]
  /\ {FloorFacts, RecoveryFacts, SupportingCap} \subseteq Nat
  /\ \A c \in Contexts : \A p \in Parts :
       c.offers[p] \in Seq(Drafted) /\ IsInjective(c.offers[p])
  /\ \A q \in Questions :
       /\ q.coreReserved \in 0 .. q.reserved /\ q.reserved \in 0 .. Tier - 1
       /\ {q.recovery, q.parts, q.policy} \subseteq Seq(Parts)
       /\ q.shares \in [Groups -> Nat]

VARIABLES context, question,
          facts,               \* the admitted facts
          spent,               \* their cost
          tally,               \* part -> facts kept of those available
          pass,                \* the running pass, and the parts it has left
          hand                 \* the running extractor: what is left of its drafts

projectVars == <<context, question, facts, spent, tally, pass, hand>>

-----------------------------------------------------------------------------
(* What a pass is made of *)

Budget == Tier - question.reserved
AtLeastZero(n) == IF n < 0 THEN 0 ELSE n
Lesser(a, b)   == IF a < b THEN a ELSE b
Percent(n, of) == (n * of) \div 100

\* An order gives each part its place; the foremost of some parts comes first.
Place(s, p)           == Min({i \in DOMAIN s : s[i] = p})
Foremost(order, some) == CHOOSE p \in some : \A q \in some : order[p] <= order[q]

DeclaredOrder == [p \in Parts |-> Place(Declared, p)]

\* A stable sort: the parts named come first, as named; with pin, behind the pinned ones.
\* With no part named nothing moves.
Reordered(order, wanted, pin) ==
  LET Rank(p) == IF pin /\ wanted # <<>> /\ p \in Pinned THEN 0
                 ELSE IF p \in ToSet(wanted) THEN Place(wanted, p) ELSE Len(wanted) + 1
      Before(p) == {q \in Parts : \/ Rank(q) < Rank(p)
                                  \/ Rank(q) = Rank(p) /\ order[q] < order[p]}
  IN [p \in Parts |-> Cardinality(Before(p))]

ShapedFor  == Reordered(DeclaredOrder, context.typeParts, TRUE)
OrderedFor == Reordered(ShapedFor, question.parts \o question.policy, FALSE)

\* What recovery asked for, then the plan, then the policy of the intent.
Requested    == question.recovery \o question.parts \o question.policy
Families == ToSet(Requested)
Priority == [p \in Families |-> Place(Requested, p)]

\* Drafts no pass has admitted, by their place in the offer: seen holds what was said, not
\* what was offered.
Unsaid(p) == {i \in DOMAIN context.offers[p] : context.offers[p][i] \notin facts}

\* The first n of some places, and the fact at the first of them.
Capped(some, n) == {i \in some : Cardinality({j \in some : j < i}) < n}
First(p, some)  == context.offers[p][Min(some)]

Already(p)  == tally[p].kept
UpTo(n, p)  == AtLeastZero(n - Already(p))
IsSupporting(p) == context.repository /\ p \in question.supporting
SupportCap(p) == IF IsSupporting(p) THEN Lesser(Cap[p], UpTo(SupportingCap, p)) ELSE Cap[p]

-----------------------------------------------------------------------------
(* One extractor of a pass *)

At(name)   == pass.name = name /\ hand.drafts = {} /\ pass.left # {}
Served       == Foremost(pass.order, pass.left)
PassedOver == [pass EXCEPT !.left = @ \ {Served}]
NoLimit    == Tier

\* The extractor whose turn it is: at most so many of its drafts, under the ceiling of
\* the pass and in the room of its group.
Takes(most, ceiling, room) ==
  /\ hand' = [part |-> Served, drafts |-> Capped(Unsaid(Served), most),
              ceiling |-> ceiling, room |-> room]
  /\ tally' = [tally EXCEPT ![Served].total =
                 Max({@, Already(Served) + Cardinality(Unsaid(Served))})]
  /\ pass' = PassedOver
  /\ UNCHANGED <<context, question, facts, spent>>

\* The next of its drafts.
Draft == First(hand.part, hand.drafts)
Group == GroupOf[hand.part]
Fits  == spent + Cost[Draft] <= hand.ceiling
HasRoom == pass.used[Group] + Cost[Draft] <= hand.room

Admit ==
  /\ hand.drafts # {} /\ Fits /\ HasRoom
  /\ facts' = facts \cup {Draft}
  /\ spent' = spent + Cost[Draft]
  /\ pass' = [pass EXCEPT !.used[Group] = @ + Cost[Draft]]
  /\ tally' = [tally EXCEPT ![hand.part].kept = @ + 1]
  /\ hand' = [hand EXCEPT !.drafts = @ \ {Min(@)}]
  /\ UNCHANGED <<context, question>>

\* The share of the group is spent; the pass goes on.
EndOfRoom ==
  /\ hand.drafts # {} /\ Fits /\ ~HasRoom
  /\ hand' = [hand EXCEPT !.drafts = {}]
  /\ UNCHANGED <<context, question, facts, spent, tally, pass>>

\* An exhausted pass is over, except that each part of the floor is a pass of its own.
Exhausts ==
  /\ hand.drafts # {} /\ ~Fits
  /\ hand' = [hand EXCEPT !.drafts = {}]
  /\ pass' = IF pass.name \in {"coverage", "depth"} THEN pass ELSE [pass EXCEPT !.left = {}]
  /\ UNCHANGED <<context, question, facts, spent, tally>>

-----------------------------------------------------------------------------
(* The passes *)

\* The core's ceiling is a share of what no question can change, within what is left.
CoreCeiling ==
  LET stated   == question.coreReserved
      guidance == IF stated = 0 THEN 0 ELSE Percent(13, Tier)
  IN  AtLeastZero(Lesser(Percent(60, Tier - stated - guidance), Budget))

Core == At("core") /\ Takes(CoreCap[Served], CoreCeiling, NoLimit)

\* Seeded fault: the first round is held to the floor's ceiling like the second.
CoverageHeldToTheFloor == spent + Percent(25, AtLeastZero(Budget - spent))

\* Round one of the floor: one fact of every family, within the whole budget.
CoverageCeiling == Budget

Coverage ==
  At("coverage") /\ Takes(Lesser(Cap[Served], UpTo(1, Served)), CoverageCeiling, NoLimit)

\* Round two: depth, in equal rooms of what the families before left of the floor.
DepthOf(p) == IF p \in ToSet(question.recovery) THEN RecoveryFacts ELSE FloorFacts

Depth ==
  /\ At("depth")
  /\ LET room == AtLeastZero(pass.ceiling - spent) \div Cardinality(pass.left)
     IN  IF room = 0
         THEN pass' = PassedOver /\ UNCHANGED <<context, question, facts, spent, tally, hand>>
         ELSE Takes(Lesser(Cap[Served], UpTo(DepthOf(Served), Served)), spent + room, NoLimit)

Share(p) == IF question.allocated
            THEN Percent(pass.share, question.shares[GroupOf[p]]) ELSE NoLimit

Supplement == At("supplement") /\ Takes(SupportCap(Served), Budget, Share(Served))

Sweep == At("sweep") /\ Takes(SupportCap(Served), Budget, NoLimit)

-----------------------------------------------------------------------------
(* From one pass to the next *)

Pass(name, order, ceiling) ==
  [name |-> name, left |-> DOMAIN order, order |-> order, ceiling |-> ceiling,
   share |-> AtLeastZero(ceiling - spent), used |-> [g \in Groups |-> 0]]

\* Seeded fault: the sweep is skipped where there were shares to refuse something.
SweptWithoutShares == ~question.allocated /\ spent < Budget

\* What the shares refused is offered again while the budget lasts.
Swept == question.allocated /\ spent < Budget

FloorCeiling == Lesser(Budget, spent + Percent(75, AtLeastZero(Budget - spent)))

NextPass ==
  /\ hand.drafts = {} /\ pass.left = {}
  /\ \/ pass.name = "core"     /\ pass' = Pass("coverage", Priority, Budget)
     \/ pass.name = "coverage" /\ pass' = Pass("depth", Priority, FloorCeiling)
     \/ pass.name = "depth"    /\ pass' = Pass("supplement", OrderedFor, Budget)
     \/ pass.name = "supplement" /\ Swept  /\ pass' = Pass("sweep", OrderedFor, Budget)
     \/ pass.name = "supplement" /\ ~Swept /\ pass' = [pass EXCEPT !.name = "done"]
     \/ pass.name = "sweep"    /\ pass' = [pass EXCEPT !.name = "done"]
  /\ UNCHANGED <<context, question, facts, spent, tally, hand>>

ProjectInit ==
  /\ context \in Contexts /\ question \in Questions
  /\ facts = {} /\ spent = 0
  /\ tally = [p \in Parts |-> [kept |-> 0, total |-> 0]]
  /\ pass = [name |-> "core", left |-> Parts, order |-> ShapedFor, ceiling |-> CoreCeiling,
             share |-> CoreCeiling, used |-> [g \in Groups |-> 0]]
  /\ hand = [part |-> "none", drafts |-> {}, ceiling |-> 0, room |-> 0]

ProjectNext ==
  \/ Core \/ Coverage \/ Depth \/ Supplement \/ Sweep
  \/ Admit \/ EndOfRoom \/ Exhausts \/ NextPass

ProjectSpec == ProjectInit /\ [][ProjectNext]_projectVars

Omissions == {p \in Parts : tally[p].kept < tally[p].total}

-----------------------------------------------------------------------------
(* Properties *)

Projected == pass.name = "done"

\* The part has a fact nothing has said, and not even the first of them can be paid for.
TooDear(p) == Unsaid(p) # {} /\ spent + Cost[First(p, Unsaid(p))] > Budget

\* Every family a question is answered from is represented in the prompt, whatever the core,
\* the shares and the families before it took: it is missing only when it has nothing to say that
\* was not said, or when its first fact no longer fits.
EveryFamilyIsHeard ==
  Projected => \A p \in Families : tally[p].kept > 0 \/ Unsaid(p) = {} \/ TooDear(p)

\* Shares and rooms decide what is bought first, never how much: the projection ends with a
\* fact that cannot be paid for, or with every part said or at its cap.
TheBudgetIsUsed ==
  Projected => \/ \E p \in Parts : TooDear(p)
          \/ \A p \in Parts : Unsaid(p) = {} \/ tally[p].kept >= Cap[p] \/ SupportCap(p) = 0
=============================================================================
