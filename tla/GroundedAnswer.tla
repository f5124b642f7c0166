--------------------------- MODULE GroundedAnswer ---------------------------
(***************************************************************************)
(* What a reader of one streamed answer is promised (packages/ai/src       *)
(* stream.ts and answer.ts say so in their comments; the chat page of      *)
(* apps/web relies on it), without saying how the answer is produced.      *)
(*                                                                         *)
(* Evidence is on screen before prose is, it is never exchanged under the  *)
(* prose, and an answer that completes is the text already on screen,      *)
(* every sentence of it established by the evidence stated with it.        *)
(***************************************************************************)
EXTENDS Naturals, Sequences

CONSTANTS Sentence,            \* what prose is made of
          Evidence,            \* the fact sets an answer may be grounded in
          NoEvidence,          \* what is on screen before the first of them
          Establishes(_, _)    \* whether evidence supports a sentence

VARIABLES status, text, evidence

vars == <<status, text, evidence>>

Init == /\ status = "streaming"
        /\ text = <<>>
        /\ evidence = NoEvidence

\* The evidence the next prose will be written from.
Reveal == /\ status = "streaming" /\ text = <<>>
          /\ evidence' \in Evidence
          /\ UNCHANGED <<status, text>>

Say == /\ status = "streaming" /\ evidence # NoEvidence
       /\ text' \in Seq(Sentence)
       /\ Len(text') >= Len(text) /\ SubSeq(text', 1, Len(text)) = text
       /\ UNCHANGED <<status, evidence>>

\* What was said is withdrawn: it did not verify.
Withdraw == /\ status = "streaming"
            /\ text' = <<>>
            /\ UNCHANGED <<status, evidence>>

\* The evidence is restated, because the answer may be an earlier attempt.
Complete == /\ status = "streaming"
            /\ status' = "complete"
            /\ evidence' \in Evidence
            /\ \A i \in 1 .. Len(text) : Establishes(evidence', text[i])
            /\ UNCHANGED text

\* A failure keeps what had arrived; so does the reader's own stop.
Stop == /\ status = "streaming"
        /\ status' \in {"failed", "cancelled"}
        /\ UNCHANGED <<text, evidence>>

Next == Reveal \/ Say \/ Withdraw \/ Complete \/ Stop

Spec == Init /\ [][Next]_vars
=============================================================================
