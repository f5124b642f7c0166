--------------------------- MODULE AnswererProofs ---------------------------
(***************************************************************************)
(* Proofs about Answerer: what finalisation returns, type correctness      *)
(* (which bounds the attempts), and that no unsupported prose is returned. *)
(***************************************************************************)
EXTENDS Answerer, SequenceTheorems, TLAPS

-----------------------------------------------------------------------------
(* Candidates *)

LEMMA CurrentIsCandidate ==
  ASSUME TypeOK
  PROVE  Current \in Candidate
BY DEF TypeOK, Current, Candidate

LEMMA LeftIsSentence ==
  ASSUME NEW p \in Projection, NEW s \in Sentence
  PROVE  Left(p, s) \in Sentence
BY DEF Left, Sentence, Generated

LEMMA LeftAlone ==
  ASSUME NEW p \in Projection, NEW s, Supported(p, s) \/ Overlooked(s)
  PROVE  Left(p, s) = s
<1>1. Supported(p, s) => s # "miscited"
  BY FactAssumption DEF Supported, Projection
<1>2. Overlooked(s) => s # "miscited"
  BY FactAssumption, MissedAssumption DEF Overlooked
<1> QED
  BY <1>1, <1>2 DEF Left

LEMMA ReducedIsCandidate ==
  ASSUME NEW c \in Candidate
  PROVE  /\ Reduced(c) \in Candidate
         /\ Reduced(c).projection = c.projection
         /\ Len(Reduced(c).text) = Len(c.text)
         /\ \A i \in 1 .. Len(c.text) :
              Reduced(c).text[i] = Left(c.projection, c.text[i])
<1> DEFINE t == [i \in DOMAIN c.text |-> Left(c.projection, c.text[i])]
<1>1. c.text \in Seq(Sentence) /\ c.projection \in Projection
  BY DEF Candidate
<1>2. DOMAIN c.text = 1 .. Len(c.text) /\ Len(c.text) \in Nat
  BY <1>1
<1>3. \A i \in 1 .. Len(c.text) : t[i] \in Sentence
  BY <1>1, <1>2, LeftIsSentence
<1>4. t \in Seq(Sentence) /\ Len(t) = Len(c.text)
  <2>1. t = [i \in 1 .. Len(c.text) |-> Left(c.projection, c.text[i])]
    BY <1>2
  <2>2. t \in [1 .. Len(c.text) -> Sentence]
    BY <2>1, <1>3, <1>2
  <2> HIDE DEF t
  <2>3. t \in Seq(Sentence)
    BY <2>2, <1>2, SeqDef, Zenon
  <2>4. DOMAIN t = 1 .. Len(c.text) /\ DOMAIN t = 1 .. Len(t) /\ Len(t) \in Nat
    BY <2>2, <2>3, LenProperties
  <2> QED
    BY <1>2, <2>3, <2>4
<1>5. Reduced(c) = [c EXCEPT !.text = t]
  BY DEF Reduced
<1>6. Reduced(c) = [text |-> t, projection |-> c.projection]
  BY <1>5 DEF Candidate
<1> QED
  BY <1>1, <1>2, <1>4, <1>6 DEF Candidate

LEMMA NothingHeldIsCandidate ==
  ASSUME NEW c \in Candidate
  PROVE  NothingHeld(c) \in Candidate /\ ~Unsound(NothingHeld(c))
<1>1. NothingHeld(c) = [text |-> <<"nothing">>, projection |-> c.projection]
  BY DEF NothingHeld, Candidate
<1>2. <<"nothing">> \in Seq(Sentence) /\ Len(<<"nothing">>) = 1 /\ <<"nothing">>[1] = "nothing"
  BY DEF Sentence
<1>3. NothingHeld(c) \in Candidate
  BY <1>1, <1>2 DEF Candidate
<1>4. \A i \in 1 .. 1 : Supported(c.projection, <<"nothing">>[i])
  BY <1>2 DEF Supported
<1> QED
  BY <1>1, <1>2, <1>3, <1>4 DEF Unsound, Failing

-----------------------------------------------------------------------------
(* Finalisation *)

\* "This branch should be unreachable" (finalize.ts, of its second check): it is reached
\* exactly when something overlooked had failed.  Removal alone does not make an answer
\* sound, and no other sentence fails after it.
THEOREM WhatTheSecondCheckCatches ==
  ASSUME NEW c \in Candidate
  PROVE  Failing(Reduced(c)) = {i \in Failing(c) : Overlooked(c.text[i])}
<1>1. Failing(Reduced(c)) =
        {i \in 1 .. Len(c.text) : ~Supported(c.projection, Left(c.projection, c.text[i]))}
  BY ReducedIsCandidate DEF Failing
<1>2. ASSUME NEW i \in 1 .. Len(c.text)
      PROVE  ~Supported(c.projection, Left(c.projection, c.text[i]))
               <=> ~Supported(c.projection, c.text[i]) /\ Overlooked(c.text[i])
  <2>1. CASE Supported(c.projection, c.text[i]) \/ Overlooked(c.text[i])
    BY <2>1, LeftAlone DEF Candidate
  <2>2. CASE ~Supported(c.projection, c.text[i]) /\ ~Overlooked(c.text[i])
    <3>1. Left(c.projection, c.text[i]) \in {"plain", "removed"}
      BY <2>2 DEF Left
    <3> QED
      BY <3>1, <2>2 DEF Supported
  <2> QED
    BY <2>1, <2>2
<1> QED
  BY <1>1, <1>2 DEF Failing

\* Whatever finalise is given (finalize.ts), what it returns verifies.
THEOREM FinaliseIsSound ==
  ASSUME NEW c \in Candidate
  PROVE  Finalise(c) \in Candidate /\ ~Unsound(Finalise(c))
BY ReducedIsCandidate, NothingHeldIsCandidate DEF Finalise

LEMMA SaferIsEither ==
  ASSUME NEW a \in Candidate, NEW b \in Candidate
  PROVE  SaferOf(a, b) \in {a, b}
BY DEF SaferOf

-----------------------------------------------------------------------------
(* The state machine *)

LEMMA NoneIsCandidate == None \in Candidate
<1>1. 1 \in Tiers
  BY TierAssumption DEF Tiers
<1> QED
  BY <1>1 DEF None, Candidate, Projection

LEMMA ConcludesWithACandidate ==
  ASSUME TypeOK, Conclude
  PROVE  \E c \in Candidate : /\ text' = c.text /\ projection' = c.projection
                              /\ ~Unsound(c)
<1> DEFINE safer == IF attempts > 1 THEN SaferOf(first, Current) ELSE Current
<1>1. safer \in Candidate
  BY CurrentIsCandidate, SaferIsEither DEF TypeOK
<1>2. text' = Finalise(safer).text /\ projection' = Finalise(safer).projection
  BY DEF Conclude
<1> QED
  BY <1>1, <1>2, FinaliseIsSound

LEMMA TypeStep ==
  ASSUME TypeOK, [Next]_vars
  PROVE  TypeOK'
<1>1. CASE Ask
  BY <1>1 DEF TypeOK, Ask, Fail, Projections
<1>2. ASSUME NEW s \in Generated, Says(s)
      PROVE  TypeOK'
  BY <1>2 DEF TypeOK, Says, Sentence
<1>3. CASE Ended
  <2>1. CASE Recover
    BY <1>3, <2>1, CurrentIsCandidate DEF TypeOK, Ended, Recover, Projections
  <2>2. CASE Conclude
    BY <1>3, <2>2, ConcludesWithACandidate DEF TypeOK, Conclude, Candidate
  <2> QED
    BY <1>3, <2>1, <2>2 DEF Ended
<1>4. CASE TooLong
  BY <1>4 DEF TypeOK, TooLong, Fail, Projections
<1>5. CASE Fails
  BY <1>5 DEF TypeOK, Fails, Fail
<1>6. CASE UNCHANGED vars
  BY <1>6 DEF TypeOK, vars
<1> QED
  BY <1>1, <1>2, <1>3, <1>4, <1>5, <1>6 DEF Next

\* The answerer keeps its types; with them goes the bound that matters: no question
\* has more than two attempts (answer.ts, the loop over attempts).
THEOREM TypeCorrect == Spec => []TypeOK
<1>1. Init => TypeOK
  BY NoneIsCandidate DEF Init, TypeOK, None, Candidate
<1> QED
  BY <1>1, TypeStep, PTL DEF Spec

\* No unsupported prose is returned (answer.ts, "safe finalisation"): whatever the
\* model generates, and whichever of two attempts is returned, every sentence of the
\* answer verifies against the evidence returned with it.
THEOREM AnswersAreSound == Spec => []ReturnedIsSound
<1>1. Init => ReturnedIsSound
  BY DEF Init, ReturnedIsSound
<1>2. TypeOK /\ ReturnedIsSound /\ [Next]_vars => ReturnedIsSound'
  <2> SUFFICES ASSUME TypeOK, ReturnedIsSound, [Next]_vars, phase' = "done"
               PROVE  ~Unsound(Current)'
    BY DEF ReturnedIsSound
  <2>1. CASE phase = "done"
    <3>1. UNCHANGED <<text, projection>>
      BY <2>1 DEF Next, Ask, Says, Ended, TooLong, Fails, vars
    <3> QED
      BY <2>1, <3>1 DEF ReturnedIsSound, Unsound, Failing, Current, Supported
  <2>2. CASE phase # "done"
    <3>1. Conclude
      BY <2>2 DEF Next, Ask, Says, Ended, Recover, TooLong, Fails, Fail, vars
    <3>2. PICK c \in Candidate : /\ text' = c.text /\ projection' = c.projection
                                 /\ ~Unsound(c)
      BY <3>1, ConcludesWithACandidate
    <3> QED
      BY <3>2 DEF Unsound, Failing, Current, Supported
  <2> QED
    BY <2>1, <2>2
<1> QED
  BY <1>1, <1>2, TypeCorrect, PTL DEF Spec

LEMMA FinaliseInventsNoClaim ==
  ASSUME NEW c \in Candidate
  PROVE  /\ Finalise(c).projection = c.projection
         /\ \A i \in 1 .. Len(Finalise(c).text) : Finalise(c).text[i] \in Facts =>
              \E j \in 1 .. Len(c.text) : c.text[j] = Finalise(c).text[i]
<1>1. CASE Finalise(c) = c
  BY <1>1
<1>2. CASE Finalise(c) = NothingHeld(c)
  <2>1. NothingHeld(c) = [text |-> <<"nothing">>, projection |-> c.projection]
    BY DEF NothingHeld, Candidate
  <2>2. Len(<<"nothing">>) = 1 /\ <<"nothing">>[1] = "nothing" /\ "nothing" \notin Facts
    BY FactAssumption
  <2> QED
    BY <1>2, <2>1, <2>2
<1>3. CASE Finalise(c) = Reduced(c)
  <2>1. \A i \in 1 .. Len(c.text) :
          Left(c.projection, c.text[i]) \in Facts => Left(c.projection, c.text[i]) = c.text[i]
    BY FactAssumption DEF Left
  <2> QED
    BY <1>3, <2>1, ReducedIsCandidate
<1> QED
  BY <1>1, <1>2, <1>3 DEF Finalise

\* An answer is reported beside the evidence it was written from (answer.ts, Candidate
\* and saferOf): what it cites was cited by an attempt that had that evidence.
THEOREM EvidenceIsItsOwn == Spec => ReturnedWithItsEvidence
<1>1. TypeOK /\ [Next]_vars =>
        [phase' = "done" =>
           \E c \in {first, Current} :
             /\ projection' = c.projection
             /\ \A i \in 1 .. Len(text') : text'[i] \in Facts =>
                  \E j \in 1 .. Len(c.text) : c.text[j] = text'[i]]_vars
  <2> SUFFICES ASSUME TypeOK, Next, phase' = "done"
               PROVE  \E c \in {first, Current} :
                        /\ projection' = c.projection
                        /\ \A i \in 1 .. Len(text') : text'[i] \in Facts =>
                             \E j \in 1 .. Len(c.text) : c.text[j] = text'[i]
    BY DEF vars
  <2> DEFINE safer == IF attempts > 1 THEN SaferOf(first, Current) ELSE Current
  <2>1. Conclude
    BY DEF Next, Ask, Says, Ended, Recover, TooLong, Fails, Fail
  <2>2. safer \in {first, Current} /\ safer \in Candidate
    BY CurrentIsCandidate, SaferIsEither DEF TypeOK
  <2>3. text' = Finalise(safer).text /\ projection' = Finalise(safer).projection
    BY <2>1 DEF Conclude
  <2> HIDE DEF safer
  <2> QED
    BY <2>2, <2>3, FinaliseInventsNoClaim
<1> QED
  BY <1>1, TypeCorrect, PTL DEF Spec, ReturnedWithItsEvidence
=============================================================================
