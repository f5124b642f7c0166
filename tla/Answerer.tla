------------------------------ MODULE Answerer ------------------------------
(***************************************************************************)
(* packages/ai/src/answer.ts: RepositoryAnswerer.answer, one question from *)
(* projection to verified answer, with the verification it leans on        *)
(* (grounding.ts, recovery.ts, finalize.ts).                               *)
(*                                                                         *)
(* The generator waits in one place only, for the model's next event, so   *)
(* each action is one such event with everything the method does until it  *)
(* waits again.  What it yields on the way is `yielded`, in order; the     *)
(* status events, which only name the stage, are left out.                 *)
(*                                                                         *)
(* Prose is a sequence of sentences, and a sentence is what the verifier   *)
(* would say of it: the fact it rests on, or one of the kinds below.       *)
(***************************************************************************)
EXTENDS Naturals, Sequences, FiniteSets

CONSTANTS Facts,      \* the kinds of fact a claim can rest on
          Missed,     \* the claims removal does not find again when they failed
          MaxTier,    \* the number of budget tiers, smallest first
          MaxText     \* sentences per generation the model considers

ASSUME TierAssumption == MaxTier \in Nat \ {0}
ASSUME TextAssumption == MaxText \in Nat
ASSUME FactAssumption == /\ IsFiniteSet(Facts)
                         /\ Facts \cap {"plain", "judgement", "miscited",
                                        "fragment", "removed", "nothing"} = {}
ASSUME MissedAssumption == Missed \subseteq Facts \cup {"judgement"}

VARIABLES phase,        \* "idle", "awaiting" the model, "done" or "failed"
          room,         \* smallest tier at which a fact fits beside the question
          projection,   \* the evidence, and the tier it was projected at
          text, attempts,
          first,        \* the first attempt, once a second was begun
          yielded       \* the events of the last turn

vars == <<phase, room, projection, text, attempts, first, yielded>>

-----------------------------------------------------------------------------
(* Vocabulary *)

Tiers == 1 .. MaxTier

\* "plain" claims nothing; no fact licenses a "judgement"; "miscited" and "fragment"
\* cite a fact id that does not resolve, the second in a paragraph too short for
\* the sentence splitter.
Generated == Facts \cup {"plain", "judgement", "miscited", "fragment"}

\* Finalisation leaves "removed" where a sentence was, and "nothing" is NOTHING_HELD.
Sentence  == Generated \cup {"removed", "nothing"}

Projection == [tier : Tiers, facts : SUBSET Facts]
Candidate  == [text : Seq(Sentence), projection : Projection]

None == [text |-> <<>>, projection |-> [tier |-> 1, facts |-> {}]]

Statuses == {"grounded", "grounded-after-recovery", "limited-evidence", "unverifiable"}

Grounding(p)   == [type |-> "grounding", projection |-> p]
Delta(t)       == [type |-> "delta", text |-> t]
Restart        == [type |-> "restart"]
Complete(c, s) == [type |-> "complete", answer |-> c, status |-> s]

\* An AiError; what of it was generated is known to the thrower.
Thrown == [type |-> "thrown"]

-----------------------------------------------------------------------------
(* Verification *)

Supported(p, s) == s \in p.facts \cup {"plain", "removed", "nothing"}

\* The positions checkGrounding reports something about.
Failing(c) == {i \in 1 .. Len(c.text) : ~Supported(c.projection, c.text[i])}

Unsound(c) == Failing(c) # {}

\* recoveryFor: some claim failed for want of a fact that would license it.
Recoverable(c) == \E i \in Failing(c) : c.text[i] \in Facts

Cites(c) == \E i \in 1 .. Len(c.text) : c.text[i] \in c.projection.facts

\* Seeded fault: an attempt is returned with the evidence of the other one.
SaferOfMixed(a, b) ==
  IF /\ 5 * Len(b.text) >= 2 * Len(a.text)
     /\ Cardinality(Failing(b)) <= Cardinality(Failing(a))
    THEN b ELSE [a EXCEPT !.projection = b.projection]

\* saferOf, with DETAIL_FLOOR.
SaferOf(a, b) ==
  IF /\ 5 * Len(b.text) >= 2 * Len(a.text)
     /\ Cardinality(Failing(b)) <= Cardinality(Failing(a))
    THEN b ELSE a

\* A sentence whose failure finalise does not see.  A fragment is kept unread.  A missed
\* claim is one the comparisons do not match: namesRejected compares whole tokens, and
\* a path before a full stop, or a term of other characters, is not one; a sentence is
\* compared verbatim, and one that runs over a paragraph break was checked as one.
Overlooked(s) == s = "fragment" \/ s \in Missed

\* What is left of a sentence: a claim that failed goes if it is found, and a citation
\* that does not resolve is stripped.
Left(p, s) == CASE Supported(p, s) \/ Overlooked(s) -> s
                [] s = "miscited" -> "plain"
                [] OTHER -> "removed"

Reduced(c) == [c EXCEPT !.text = [i \in DOMAIN @ |-> Left(c.projection, @[i])]]

NothingHeld(c) == [c EXCEPT !.text = <<"nothing">>]

\* Seeded fault: the reduced text is not checked again.
FinaliseUnchecked(c) == IF Unsound(c) THEN Reduced(c) ELSE c

\* finalise, with its second check.
Finalise(c) ==
  IF ~Unsound(c) THEN c
  ELSE IF Unsound(Reduced(c)) \/ \A i \in 1 .. Len(c.text) : Reduced(c).text[i] = "removed"
    THEN NothingHeld(c)
    ELSE Reduced(c)

\* statusOf.
StatusOf(c, final) == IF Unsound(c) THEN "limited-evidence"
                      ELSE IF ~Cites(final) THEN "unverifiable"
                      ELSE IF attempts > 1 THEN "grounded-after-recovery"
                      ELSE "grounded"

-----------------------------------------------------------------------------
(* Turns *)

\* What project can return at a tier.
Projections(tier) == {p \in Projection : /\ p.tier = tier
                                         /\ p.facts # {} <=> tier >= room}

Current == [text |-> text, projection |-> projection]

Fail == /\ phase' = "failed"
        /\ yielded' = <<Thrown>>
        /\ UNCHANGED <<room, projection, text, attempts, first>>

\* The question arrives: the context is acquired, or there is none; the tier is the
\* request's or the window's; the reservation leaves room for facts, or does not.
Ask ==
  /\ phase = "idle"
  /\ \/ Fail
     \/ /\ projection' \in UNION {Projections(t) : t \in room .. MaxTier}
        /\ phase' = "awaiting"
        /\ attempts' = 1
        /\ yielded' = <<Grounding(projection')>>
        /\ UNCHANGED <<room, text, first>>

Says(s) ==
  /\ phase = "awaiting" /\ Len(text) < MaxText
  /\ text' = Append(text, s)
  /\ yielded' = <<Delta(<<s>>)>>
  /\ UNCHANGED <<phase, room, projection, attempts, first>>

\* Seeded fault: the rejected prose is left where it is.
RecoverSilently ==
  /\ attempts = 1 /\ Recoverable(Current)
  /\ projection' \in Projections(projection.tier)
  /\ attempts' = 2
  /\ first' = Current
  /\ text' = <<>>
  /\ yielded' = <<Grounding(projection')>>
  /\ UNCHANGED <<phase, room>>

\* The one second attempt, from evidence selected again at the same tier.
Recover ==
  /\ attempts = 1 /\ Recoverable(Current)
  /\ projection' \in Projections(projection.tier)
  /\ attempts' = 2
  /\ first' = Current
  /\ text' = <<>>
  /\ yielded' = <<Restart, Grounding(projection')>>
  /\ UNCHANGED <<phase, room>>

\* The prose on screen is replaced where it differs.
Replaced(old, new) == IF old = new THEN <<>> ELSE <<Restart, Delta(new)>>

Conclude ==
  LET safer == IF attempts > 1 THEN SaferOf(first, Current) ELSE Current
      final == Finalise(safer)
  IN  /\ attempts > 1 \/ ~Recoverable(Current)
      /\ phase' = "done"
      /\ text' = final.text
      /\ projection' = final.projection
      /\ yielded' = Replaced(text, safer.text) \o Replaced(safer.text, final.text)
                      \o <<Complete(final, StatusOf(safer, final))>>
      /\ UNCHANGED <<room, attempts, first>>

\* The model ended its answer.
Ended == phase = "awaiting" /\ (Recover \/ Conclude)

\* The provider rejected the prompt as too long: one tier down, if nothing was said.
\* The projection is made without what a recovery asked for, and is not looked at.
TooLong ==
  /\ phase = "awaiting"
  /\ \/ /\ text = <<>> /\ projection.tier > 1
        /\ projection' \in Projections(projection.tier - 1)
        /\ yielded' = <<Grounding(projection')>>
        /\ UNCHANGED <<phase, room, text, attempts, first>>
     \/ /\ text # <<>> \/ projection.tier = 1
        /\ Fail

\* Any other failure of the model.
Fails == phase = "awaiting" /\ Fail

-----------------------------------------------------------------------------
Init ==
  /\ phase = "idle" /\ room \in Tiers
  /\ projection = None.projection /\ text = <<>>
  /\ attempts = 0 /\ first = None
  /\ yielded = <<>>

Next == Ask \/ (\E s \in Generated : Says(s)) \/ Ended \/ TooLong \/ Fails

Spec == Init /\ [][Next]_vars

-----------------------------------------------------------------------------
(* Properties *)

TypeOK ==
  /\ phase \in {"idle", "awaiting", "done", "failed"}
  /\ room \in Tiers
  /\ projection \in Projection
  /\ text \in Seq(Sentence)
  /\ attempts \in 0 .. 2
  /\ first \in Candidate

\* "Unsupported prose is never returned" (answer.ts): every sentence of an answer
\* verifies against the evidence that is returned with it, whichever attempt it is.
ReturnedIsSound == phase = "done" => ~Unsound(Current)

\* "Returning the first attempt's prose beside the second attempt's evidence list would
\* show a reader citations for an answer that was not written from them" (answer.ts):
\* what is cited was cited by an attempt that had the evidence returned.
ReturnedWithItsEvidence ==
  [][phase' = "done" =>
       \E c \in {first, Current} :
         /\ projection' = c.projection
         /\ \A i \in 1 .. Len(text') : text'[i] \in Facts =>
              \E j \in 1 .. Len(c.text) : c.text[j] = text'[i]]_vars
=============================================================================
