----------------------------- MODULE ChatStream -----------------------------
(***************************************************************************)
(* One question from the chat page to the model and back:                  *)
(*   - the page's turn (apps/web: use-chat.ts, chat-service.ts),           *)
(*   - the connection, which the reader or the network may cut,            *)
(*   - POST /chat/stream and its event sink (endpoints.ts, sse.ts),        *)
(*   - the answerer (Answerer) pulling on the provider (OllamaModel).      *)
(*                                                                         *)
(* On the server a line from the daemon is carried through generator,      *)
(* answerer, handler and sink in one turn of the event loop, so each       *)
(* action here joins the three.  Frames then travel in order; either side  *)
(* learns of a cut in its own time.                                        *)
(***************************************************************************)
EXTENDS Naturals, Sequences, FiniteSets

CONSTANTS Facts, Missed, MaxTier, MaxText,   \* see Answerer
          MaxLines,                  \* see OllamaModel
          NoEvidence                 \* a turn's grounding before its first frame

VARIABLES phase, room, projection, text, attempts, first, yielded,   \* the answerer
          call,         \* the provider's generation
          open,         \* EventSink.open
          link,         \* the connection: "up" or "cut"
          wire,         \* frames sent and not yet read
          turn          \* what the page shows

A == INSTANCE Answerer
O == INSTANCE OllamaModel WITH Words <- A!Generated

ASSUME AnswererAssumption == /\ A!TierAssumption /\ A!TextAssumption
                             /\ A!FactAssumption /\ A!MissedAssumption
ASSUME LinesAssumption == MaxLines \in Nat
ASSUME EvidenceAssumption == NoEvidence \notin A!Projection

answerer == <<phase, room, projection, text, attempts, first, yielded>>
vars     == <<answerer, call, open, link, wire, turn>>

Turn == [status : {"streaming", "complete", "failed", "cancelled"},
         text : Seq(A!Sentence), grounding : A!Projection \cup {NoEvidence}]

\* partial is null unless kept.
Error(code, kept, partial) ==
  [type |-> "error", code |-> code, kept |-> kept, partial |-> partial]

-----------------------------------------------------------------------------
(* The server's turns *)

\* Seeded fault: a failure is left to the connection.
SendNoError(error) ==
  wire' = IF open /\ link = "up" /\ yielded' # <<A!Thrown>> THEN wire \o yielded' ELSE wire

\* What the answerer yields is sent as it is, and what it throws as a last frame;
\* a closed sink sends nothing, and a cut link carries nothing.
Send(error) ==
  wire' = IF open /\ link = "up"
            THEN wire \o [i \in DOMAIN yielded' |-> IF yielded'[i] = A!Thrown
                                                      THEN error ELSE yielded'[i]]
            ELSE wire

\* The answerer asks the model again, or it has finished.
NextCall == call' = IF phase' = "awaiting" THEN O!Posted ELSE O!NoCall

Asked ==
  /\ A!Ask
  /\ NextCall
  /\ Send(Error("unanswerable", FALSE, <<>>))
  /\ UNCHANGED <<open, link, turn>>

Responds  == O!Responds /\ UNCHANGED <<answerer, open, link, wire, turn>>
KeepAlive == O!KeepAlive /\ UNCHANGED <<answerer, open, link, wire, turn>>
Expires   == O!Expires /\ UNCHANGED <<answerer, open, link, wire, turn>>

Word(w) ==
  /\ O!Line(w) /\ A!Says(w)
  /\ Send(<<>>)
  /\ UNCHANGED <<open, link, turn>>

Done ==
  /\ O!MayEnd /\ A!Ended
  /\ NextCall
  /\ Send(<<>>)
  /\ UNCHANGED <<open, link, turn>>

TooLong ==
  /\ O!MayBreak /\ A!TooLong
  /\ NextCall
  /\ Send(Error("context-window-exceeded", TRUE, call.delivered))
  /\ UNCHANGED <<open, link, turn>>

Breaks ==
  /\ O!MayBreak /\ A!Fails
  /\ NextCall
  /\ \E kept \in BOOLEAN : Send(Error("provider", kept, call.delivered))
  /\ UNCHANGED <<open, link, turn>>

\* An aborted body has been released, and the generator throws.
Released ==
  /\ call.at = "releasing" /\ A!Fails
  /\ NextCall
  /\ Send(Error(O!Reported, TRUE, call.delivered))
  /\ UNCHANGED <<open, link, turn>>

\* The response closed before it was finished.
CloseNoticed ==
  /\ link = "cut" /\ open /\ phase # "idle"
  /\ open' = FALSE
  /\ call' = O!Aborted
  /\ UNCHANGED <<answerer, link, wire, turn>>

-----------------------------------------------------------------------------
(* The connection and the page *)

Shown(e) ==
  CASE e.type = "grounding" -> [turn EXCEPT !.grounding = e.projection]
    [] e.type = "delta"     -> [turn EXCEPT !.text = @ \o e.text]
    [] e.type = "restart"   -> [turn EXCEPT !.text = <<>>]
    [] e.type = "complete"  -> [turn EXCEPT !.status = "complete", !.text = e.answer.text,
                                            !.grounding = e.answer.projection]
    [] e.type = "error"     -> [turn EXCEPT !.status = "failed",
                                            !.text = IF e.kept THEN e.partial ELSE @]

Reads ==
  /\ turn.status = "streaming" /\ wire # <<>>
  /\ turn' = Shown(Head(wire))
  /\ wire' = Tail(wire)
  /\ UNCHANGED <<answerer, call, open, link>>

\* Stop, or leaving the page.
Stops ==
  /\ turn.status = "streaming"
  /\ turn' = [turn EXCEPT !.status = "cancelled"]
  /\ link' = "cut"
  /\ wire' = <<>>
  /\ UNCHANGED <<answerer, call, open>>

\* A proxy or the network ends the connection, with some of what was on its way.
LinkBreaks ==
  /\ link = "up"
  /\ link' = "cut"
  /\ \E n \in 0 .. Len(wire) : wire' = SubSeq(wire, 1, n)
  /\ UNCHANGED <<answerer, call, open, turn>>

\* The response is ended with the handler.
Over == link = "cut" \/ phase \in {"done", "failed"}

\* The page reaches the end of a stream that sent no terminal frame.
LossNoticed ==
  /\ turn.status = "streaming" /\ Over /\ wire = <<>>
  /\ turn' = [turn EXCEPT !.status = "failed"]
  /\ UNCHANGED <<answerer, call, open, link, wire>>

-----------------------------------------------------------------------------
Init ==
  /\ A!Init /\ O!CInit
  /\ open = TRUE /\ link = "up" /\ wire = <<>>
  /\ turn = [status |-> "streaming", text |-> <<>>, grounding |-> NoEvidence]

Next ==
  \/ Asked \/ Responds \/ KeepAlive \/ Expires
  \/ (\E w \in A!Generated : Word(w))
  \/ Done \/ TooLong \/ Breaks \/ Released \/ CloseNoticed
  \/ Reads \/ Stops \/ LinkBreaks \/ LossNoticed

\* The two event loops and their timers make progress.  Nothing is assumed of the
\* daemon, except that what it sends is bounded (MaxText, MaxLines).
Spec ==
  /\ Init /\ [][Next]_vars
  /\ WF_vars(Asked) /\ WF_vars(Expires) /\ WF_vars(Released) /\ WF_vars(CloseNoticed)
  /\ WF_vars(Reads) /\ WF_vars(LossNoticed)
-----------------------------------------------------------------------------
(* Properties *)

TypeOK ==
  /\ A!TypeOK
  /\ call \in O!Call
  /\ open \in BOOLEAN /\ link \in {"up", "cut"}
  /\ turn \in Turn

\* The page sees what GroundedAnswer promises, frame by frame and whatever is cut:
\* evidence before prose, rejected prose withdrawn before it is replaced, a complete
\* answer that is already on screen and sound, and nothing after the last frame.
Promise == INSTANCE GroundedAnswer WITH
             Sentence <- A!Sentence, Evidence <- A!Projection, Establishes <- A!Supported,
             status <- turn.status, text <- turn.text, evidence <- turn.grounding

ImplementsGroundedAnswer == Promise!Spec

\* "So a cancelled request actually stops the model generating" (app.ts): a sink that
\* has closed has no generation behind it, nor is another one begun for it.
LeavingStopsTheModel == ~open => ~O!Listening

\* A reader who has not left is never told that the answer was cancelled: a timeout
\* goes through the same controller and must not come out as the reader's doing.
ReaderIsNotBlamed ==
  \A i \in 1 .. Len(wire) :
    wire[i].type = "error" => wire[i].code # "generation-aborted"

\* "A stream that ends without one leaves the UI spinning forever" (endpoints.ts, of
\* terminal frames): a reader still connected has one before the response ends.
EndsWithTerminalFrame ==
  phase \in {"done", "failed"} /\ link = "up" /\ turn.status = "streaming" =>
    wire # <<>> /\ wire[Len(wire)].type \in {"complete", "error"}

\* Every turn leaves its streaming state, although the daemon may fall silent and
\* either side may disappear.
EveryStreamEnds == turn.status = "streaming" ~> turn.status # "streaming"
=============================================================================
