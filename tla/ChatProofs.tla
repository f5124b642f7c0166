------------------------------ MODULE ChatProofs ------------------------------
(***************************************************************************)
(* What is true of a question on its way through the chat.                 *)
(*                                                                         *)
(* 1. The stream: a reader who has left has no generation behind him; one  *)
(*    who has not is told how his question ended, by a last frame, which   *)
(*    never says that he cancelled it; and ChatStream implements           *)
(*    GroundedAnswer.                                                      *)
(* 2. The projection: every family of a question is heard and the budget   *)
(*    is used, for every set of extractors, every context, every question, *)
(*    tier and counter.  Both rest on one fact: what cannot be paid for    *)
(*    now never can be, since no pass has more than the budget and what is *)
(*    spent is not refunded.                                               *)
(***************************************************************************)
EXTENDS ChatStream, Projection, FiniteSetTheorems, SequenceTheorems, WellFoundedInduction, TLAPS

\* The signal is aborted once, when the close is noticed, and only a generation that
\* has begun by then hears it: none may begin afterwards.  Only the first one could,
\* for the handler is there before the answerer is asked.
IInv == /\ call \in O!Call
        /\ phase = "idle" => open
        /\ LeavingStopsTheModel

\* What the answerer's turns can do to its phase.
LEMMA PhaseNeverIdleAgain ==
  ASSUME A!Next, phase # "idle"
  PROVE  phase' # "idle"
BY DEF A!Next, A!Ask, A!Says, A!Ended, A!Recover, A!Conclude, A!TooLong, A!Fails, A!Fail

\* What the provider's generation is set to when one begins or ends.
LEMMA CallsAreCalls ==
  O!NoCall \in O!Call /\ O!Posted \in O!Call
<1>1. 0 \in 0 .. MaxLines /\ <<>> \in Seq(A!Generated)
  BY LinesAssumption
<1>2. O!NoCall \in O!Call
  BY <1>1 DEF O!NoCall, O!Call, O!Phases, O!Limits
<1>3. O!Posted = [O!NoCall EXCEPT !.at = "posting"]
  BY DEF O!Posted
<1> QED
  BY <1>2, <1>3 DEF O!Call, O!Phases

LEMMA InductiveStep ==
  ASSUME IInv, [Next]_vars
  PROVE  IInv'
<1> USE LinesAssumption, CallsAreCalls DEF IInv, LeavingStopsTheModel, O!Listening
<1>1. CASE Asked
  <2>1. phase = "idle" /\ phase' # "idle" /\ open' = open /\ NextCall
    BY <1>1 DEF Asked, A!Ask, A!Fail
  <2> QED
    BY <2>1 DEF NextCall
<1>2. CASE Responds
  BY <1>2 DEF Responds, O!Responds, answerer, O!Call, O!Phases
<1>3. CASE KeepAlive
  <2>1. /\ call' = [call EXCEPT !.limit = IF call.delivered = <<>> THEN "first" ELSE "idle",
                                !.lines = call.lines + 1]
        /\ call.at = "reading" /\ call.lines < MaxLines
        /\ UNCHANGED <<phase, open>>
    BY <1>3 DEF KeepAlive, O!KeepAlive, O!Rearmed, O!Call, answerer
  <2>2. call.lines + 1 \in 0 .. MaxLines
    BY <2>1 DEF O!Call
  <2>3. call' \in O!Call /\ call'.at = call.at
    BY <2>1, <2>2 DEF O!Call, O!Limits
  <2> QED
    BY <2>1, <2>3
<1>4. CASE Expires
  BY <1>4 DEF Expires, O!Expires, answerer, O!Call, O!Phases
<1>5. ASSUME NEW w \in A!Generated, Word(w)
      PROVE  IInv'
  <2>1. call' = [call EXCEPT !.limit = IF call.delivered = <<>> THEN "first" ELSE "idle",
                             !.delivered = Append(call.delivered, w)]
    BY <1>5 DEF Word, O!Line, O!Rearmed, O!Call
  <2>2. Append(call.delivered, w) \in Seq(A!Generated)
    BY DEF O!Call
  <2>3. call' \in O!Call /\ call'.at = call.at
    BY <2>1, <2>2 DEF O!Call, O!Limits
  <2> QED
    BY <1>5, <2>3 DEF Word, A!Says
<1>6. CASE Done
  BY <1>6, PhaseNeverIdleAgain DEF Done, O!MayEnd, A!Next, A!Ended, NextCall
<1>7. CASE TooLong
  BY <1>7, PhaseNeverIdleAgain DEF TooLong, O!MayBreak, A!Next, A!TooLong, NextCall
<1>8. CASE Breaks
  BY <1>8, PhaseNeverIdleAgain DEF Breaks, O!MayBreak, A!Next, A!Fails, NextCall
<1>9. CASE Released
  BY <1>9 DEF Released, A!Fails, A!Fail, NextCall, O!NoCall
<1>10. CASE CloseNoticed
  BY <1>10 DEF CloseNoticed, O!Aborted, answerer, O!Call, O!Phases
<1>11. CASE Reads \/ Stops \/ LinkBreaks \/ LossNoticed \/ UNCHANGED vars
  BY <1>11 DEF Reads, Stops, LinkBreaks, LossNoticed, vars, answerer
<1> QED
  BY <1>1, <1>2, <1>3, <1>4, <1>5, <1>6, <1>7, <1>8, <1>9, <1>10, <1>11 DEF Next

\* "A cancelled request actually stops the model generating" (app.ts): once the sink
\* has closed no generation is being listened to, and none is begun.
THEOREM LeavingStops == Spec => []LeavingStopsTheModel
<1>1. Init => IInv
  BY CallsAreCalls DEF Init, IInv, LeavingStopsTheModel, O!CInit
<1>2. IInv => LeavingStopsTheModel
  BY DEF IInv
<1> QED
  BY <1>1, <1>2, InductiveStep, PTL DEF Spec

-----------------------------------------------------------------------------
(* What is on the wire *)

\* The frames the page knows what to do with, none of which blames the reader.
Legible(S) ==
  \A e \in S : /\ e.type \in {"grounding", "delta", "restart", "complete", "error"}
               /\ e.type = "error" => e.code # "generation-aborted"

WireStands == \E S : wire \in Seq(S) /\ Legible(S)

\* What Send puts on an open wire.
Sent(y, error) == [i \in DOMAIN y |-> IF y[i] = A!Thrown THEN error ELSE y[i]]

\* An abort comes from the timer or from the close, and the close shuts the sink first;
\* the sink of a connection that stands is open.
WInv == /\ IInv
        /\ link = "up" => open
        /\ call.at = "releasing" => call.timedOut \/ ~open
        /\ DOMAIN turn = {"status", "text", "grounding"}
        /\ WireStands
        /\ EndsWithTerminalFrame

LEMMA SentFrames ==
  ASSUME NEW S, NEW y \in Seq(S), NEW error, NEW T,
         \A i \in 1 .. Len(y) : (IF y[i] = A!Thrown THEN error ELSE y[i]) \in T
  PROVE  /\ Sent(y, error) \in Seq(T)
         /\ Len(Sent(y, error)) = Len(y)
         /\ \A i \in 1 .. Len(y) :
              Sent(y, error)[i] = IF y[i] = A!Thrown THEN error ELSE y[i]
<1>1. DOMAIN y = 1 .. Len(y) /\ Len(y) \in Nat
  BY LenProperties
<1>2. Sent(y, error) = [i \in 1 .. Len(y) |-> IF y[i] = A!Thrown THEN error ELSE y[i]]
  BY <1>1 DEF Sent
<1>3. Sent(y, error) \in [1 .. Len(y) -> T]
  BY <1>2
<1>4. Sent(y, error) \in Seq(T)
  BY <1>1, <1>3, SeqDef
<1>5. Len(Sent(y, error)) = Len(y)
  BY <1>1, <1>3, <1>4, LenProperties
<1> QED
  BY <1>2, <1>4, <1>5

\* A turn of the server leaves the wire legible, and ends it with the last frame sent.
LEMMA SendKeeps ==
  ASSUME WireStands, NEW S, yielded' \in Seq(S), NEW error, Send(error),
         NEW T, Legible(T),
         open /\ link = "up" =>
           \A i \in 1 .. Len(yielded') :
             (IF yielded'[i] = A!Thrown THEN error ELSE yielded'[i]) \in T
  PROVE  /\ WireStands'
         /\ open /\ link = "up" /\ Len(yielded') > 0 =>
              /\ wire' # <<>>
              /\ wire'[Len(wire')] =
                   IF yielded'[Len(yielded')] = A!Thrown THEN error
                                                       ELSE yielded'[Len(yielded')]
<1>1. PICK R : wire \in Seq(R) /\ Legible(R)
  BY DEF WireStands
<1>2. CASE ~(open /\ link = "up")
  <2>1. wire' = wire
    BY <1>2 DEF Send
  <2> QED
    BY <1>1, <1>2, <2>1 DEF WireStands
<1>3. CASE open /\ link = "up"
  <2> DEFINE y == yielded'
             z == Sent(y, error)
  <2>1. wire' = wire \o z
    BY <1>3 DEF Send, Sent
  <2>2. y \in Seq(S)
    OBVIOUS
  <2>3. \A i \in 1 .. Len(y) : (IF y[i] = A!Thrown THEN error ELSE y[i]) \in T
    BY <1>3
  <2> HIDE DEF y
  <2>4. /\ z \in Seq(T) /\ Len(z) = Len(y)
        /\ \A i \in 1 .. Len(y) : z[i] = IF y[i] = A!Thrown THEN error ELSE y[i]
    BY <2>2, <2>3, SentFrames
  <2> HIDE DEF z
  <2>5. wire \in Seq(R \cup T) /\ z \in Seq(R \cup T)
    BY <1>1, <2>4, SMT
  <2>6. wire' \in Seq(R \cup T)
    BY <2>1, <2>5, ConcatProperties
  <2>7. Legible(R \cup T)
    BY <1>1 DEF Legible
  <2>8. WireStands'
    BY <2>6, <2>7 DEF WireStands
  <2>9. ASSUME Len(y) > 0
        PROVE  wire' # <<>> /\ wire'[Len(wire')] = z[Len(y)]
    <3>1. Len(y) \in Nat /\ Len(wire) \in Nat
      BY <2>2, <2>5, LenProperties
    <3>2. Len(wire') = Len(wire) + Len(z)
      BY <2>1, <2>5, ConcatProperties
    <3>3. wire' # <<>>
      BY <2>4, <2>9, <3>1, <3>2, EmptySeq
    <3>4. wire'[Len(wire) + Len(y)] = z[Len(y)]
      BY <2>1, <2>4, <2>5, <2>9, <3>1
    <3> QED
      BY <2>4, <3>2, <3>3, <3>4
  <2>10. Len(y) \in Nat
    BY <2>2, LenProperties
  <2> QED
    BY <2>4, <2>8, <2>9, <2>10 DEF y
<1> QED
  BY <1>2, <1>3

-----------------------------------------------------------------------------
(* What the answerer yields *)

\* The last event of an answerer that has finished.
LastEvent == phase' \in {"done", "failed"} =>
               /\ Len(yielded') > 0
               /\ \/ yielded'[Len(yielded')] = A!Thrown
                  \/ yielded'[Len(yielded')].type = "complete"

\* A turn that throws nothing.
Fluent == \E S : /\ yielded' \in Seq(S)
                 /\ \A e \in S : e.type \in {"grounding", "delta", "restart", "complete"}

LEMMA TypesDiffer ==
  /\ A!Thrown.type = "thrown" /\ A!Restart.type = "restart"
  /\ \A p : A!Grounding(p).type = "grounding"
  /\ \A t : A!Delta(t).type = "delta"
  /\ \A c, s : A!Complete(c, s).type = "complete"
BY DEF A!Thrown, A!Restart, A!Grounding, A!Delta, A!Complete

LEMMA OneEvent ==
  ASSUME NEW e
  PROVE  <<e>> \in Seq({e}) /\ Len(<<e>>) = 1 /\ <<e>>[1] = e
OBVIOUS

LEMMA FailThrows ==
  ASSUME A!Fail
  PROVE  yielded' \in Seq({A!Thrown}) /\ Len(yielded') = 1 /\ yielded'[1] = A!Thrown
BY OneEvent DEF A!Fail

LEMMA RecoverIsFluent ==
  ASSUME A!Recover
  PROVE  Fluent /\ phase' = phase
<1>1. yielded' = <<A!Restart, A!Grounding(projection')>> /\ phase' = phase
  BY DEF A!Recover
<1> DEFINE S == {A!Restart, A!Grounding(projection')}
<1>2. yielded' \in Seq(S)
  BY <1>1
<1>3. \A e \in S : e.type \in {"grounding", "delta", "restart", "complete"}
  BY TypesDiffer
<1> HIDE DEF S
<1> QED
  BY <1>1, <1>2, <1>3 DEF Fluent

LEMMA ReplacedIsFluent ==
  ASSUME NEW old, NEW new, NEW t
  PROVE  A!Replaced(old, new) \in Seq({A!Restart, A!Delta(new), A!Delta(t)})
<1>1. <<>> \in Seq({A!Restart, A!Delta(new), A!Delta(t)})
  OBVIOUS
<1>2. <<A!Restart, A!Delta(new)>> \in Seq({A!Restart, A!Delta(new), A!Delta(t)})
  OBVIOUS
<1> QED
  BY <1>1, <1>2 DEF A!Replaced

LEMMA ConcludeIsFluent ==
  ASSUME A!Conclude
  PROVE  Fluent /\ LastEvent
<1> DEFINE safer == IF attempts > 1 THEN A!SaferOf(first, A!Current) ELSE A!Current
           final == A!Finalise(safer)
           last  == A!Complete(final, A!StatusOf(safer, final))
           r1    == A!Replaced(text, safer.text)
           r2    == A!Replaced(safer.text, final.text)
           S     == {A!Restart, A!Delta(safer.text), A!Delta(final.text), last}
<1>1. yielded' = r1 \o r2 \o <<last>>
  BY DEF A!Conclude
<1>2. r1 \in Seq({A!Restart, A!Delta(safer.text), A!Delta(final.text)})
  BY ReplacedIsFluent
<1>3. r2 \in Seq({A!Restart, A!Delta(final.text), A!Delta(safer.text)})
  BY ReplacedIsFluent
<1>4. last.type = "complete"
  BY TypesDiffer
<1>5. \A e \in S : e.type \in {"grounding", "delta", "restart", "complete"}
  BY <1>4, TypesDiffer
<1> HIDE DEF r1, r2, last
<1>6. r1 \in Seq(S) /\ r2 \in Seq(S) /\ <<last>> \in Seq(S)
  BY <1>2, <1>3
<1> HIDE DEF S
<1>7. r1 \o r2 \in Seq(S)
  BY <1>6, ConcatProperties
<1>8. /\ yielded' \in Seq(S)
      /\ Len(yielded') = Len(r1 \o r2) + 1
      /\ yielded'[Len(yielded')] = last
  <2>1. Len(r1 \o r2) \in Nat /\ Len(<<last>>) = 1 /\ <<last>>[1] = last
    BY <1>7, LenProperties
  <2>2. Len(yielded') = Len(r1 \o r2) + 1 /\ yielded' \in Seq(S)
    BY <1>1, <1>6, <1>7, <2>1, ConcatProperties
  <2>3. yielded'[Len(r1 \o r2) + 1] = <<last>>[1]
    BY <1>1, <1>6, <1>7, <2>1
  <2> QED
    BY <2>1, <2>2, <2>3
<1>9. Len(r1 \o r2) \in Nat
  BY <1>7, LenProperties
<1> QED
  BY <1>4, <1>5, <1>8, <1>9 DEF Fluent, LastEvent

LEMMA OneEventIsFluent ==
  ASSUME NEW e, yielded' = <<e>>, e.type \in {"grounding", "delta", "restart", "complete"}
  PROVE  Fluent
<1> DEFINE S == {e}
<1>1. yielded' \in Seq(S)
  OBVIOUS
<1>2. \A x \in S : x.type \in {"grounding", "delta", "restart", "complete"}
  BY Zenon
<1> HIDE DEF S
<1> QED
  BY <1>1, <1>2 DEF Fluent

\* A turn that throws nothing is sent as it is.
LEMMA FluentSends ==
  ASSUME WireStands, Fluent, NEW error, Send(error)
  PROVE  /\ WireStands'
         /\ open /\ link = "up" /\ Len(yielded') > 0 =>
              wire' # <<>> /\ wire'[Len(wire')] = yielded'[Len(yielded')]
<1>1. PICK S : /\ yielded' \in Seq(S)
               /\ \A e \in S : e.type \in {"grounding", "delta", "restart", "complete"}
  BY DEF Fluent
<1>2. \A i \in 1 .. Len(yielded') : yielded'[i] \in S /\ yielded'[i] # A!Thrown
  <2>1. yielded' \in [1 .. Len(yielded') -> S]
    BY <1>1, LenProperties
  <2> QED
    BY <1>1, <2>1, TypesDiffer
<1>3. Legible(S)
  BY <1>1 DEF Legible
<1>4. Len(yielded') \in Nat
  BY <1>1, LenProperties
<1>5. Len(yielded') > 0 => yielded'[Len(yielded')] # A!Thrown
  BY <1>2, <1>4
<1>6. \A i \in 1 .. Len(yielded') :
        (IF yielded'[i] = A!Thrown THEN error ELSE yielded'[i]) \in S
  BY <1>2
<1> QED
  BY <1>1, <1>3, <1>5, <1>6, SendKeeps

\* A failure is sent as the error it is.
LEMMA FailureSends ==
  ASSUME WireStands, A!Fail, NEW error, Send(error),
         error.type = "error", open => error.code # "generation-aborted"
  PROVE  /\ WireStands'
         /\ open /\ link = "up" => wire' # <<>> /\ wire'[Len(wire')].type = "error"
<1>1. yielded' \in Seq({A!Thrown}) /\ Len(yielded') = 1 /\ yielded'[1] = A!Thrown
  BY FailThrows
<1> DEFINE T == {e \in {error} : open}
<1>2. Legible(T)
  BY DEF Legible
<1>3. open /\ link = "up" => \A i \in 1 .. Len(yielded') :
        (IF yielded'[i] = A!Thrown THEN error ELSE yielded'[i]) \in T
  BY <1>1
<1> HIDE DEF T
<1>4. /\ WireStands'
      /\ open /\ link = "up" /\ Len(yielded') > 0 =>
           /\ wire' # <<>>
           /\ wire'[Len(wire')] = IF yielded'[Len(yielded')] = A!Thrown
                                    THEN error ELSE yielded'[Len(yielded')]
  BY <1>1, <1>2, <1>3, SendKeeps
<1> QED
  BY <1>1, <1>4

-----------------------------------------------------------------------------
(* The last frame *)

\* What a turn of the answerer must leave for the rest of WInv to follow.
LEMMA TurnKeeps ==
  ASSUME WInv, IInv', NextCall, UNCHANGED <<open, link, turn>>, WireStands',
         phase' \in {"done", "failed"} /\ open /\ link = "up" =>
           wire' # <<>> /\ wire'[Len(wire')].type \in {"complete", "error"}
  PROVE  WInv'
<1>1. call'.at # "releasing"
  BY DEF NextCall, O!Posted, O!NoCall
<1>2. EndsWithTerminalFrame'
  BY DEF WInv, EndsWithTerminalFrame
<1> QED
  BY <1>1, <1>2 DEF WInv

\* A failed turn.
LEMMA FailureKeeps ==
  ASSUME WInv, IInv', NextCall, UNCHANGED <<open, link, turn>>, A!Fail,
         NEW error, Send(error),
         error.type = "error", open => error.code # "generation-aborted"
  PROVE  WInv'
<1>1. WireStands
  BY DEF WInv
<1> QED
  BY <1>1, FailureSends, TurnKeeps

LEMMA WireStep ==
  ASSUME WInv, [Next]_vars
  PROVE  WInv'
<1>1. IInv'
  BY InductiveStep DEF WInv
<1>2. WireStands
  BY DEF WInv
<1>3. CASE Asked
  <2>1. CASE A!Fail
    <3> DEFINE error == Error("unanswerable", FALSE, <<>>)
    <3>1. Send(error) /\ NextCall /\ UNCHANGED <<open, link, turn>>
      BY <1>3 DEF Asked
    <3>2. error.type = "error" /\ error.code # "generation-aborted"
      BY DEF Error
    <3> HIDE DEF error
    <3> QED
      BY <1>1, <2>1, <3>1, <3>2, FailureKeeps
  <2>2. CASE ~A!Fail
    <3>1. /\ phase' = "awaiting" /\ yielded' = <<A!Grounding(projection')>>
          /\ Send(Error("unanswerable", FALSE, <<>>)) /\ NextCall
          /\ UNCHANGED <<open, link, turn>>
      BY <1>3, <2>2 DEF Asked, A!Ask
    <3>2. Fluent
      BY <3>1, OneEventIsFluent, TypesDiffer
    <3>3. WireStands'
      BY <1>2, <3>1, <3>2, FluentSends
    <3> QED
      BY <1>1, <3>1, <3>3, TurnKeeps
  <2> QED
    BY <2>1, <2>2
<1>4. CASE Responds \/ KeepAlive
  <2>1. UNCHANGED <<open, link, turn, wire, phase>> /\ call \in O!Call
    BY <1>4 DEF Responds, KeepAlive, answerer, WInv, IInv
  <2>2. call'.at # "releasing"
    BY <1>4, <2>1 DEF Responds, KeepAlive, O!Responds, O!KeepAlive, O!Rearmed, O!Call
  <2> QED
    BY <1>1, <2>1, <2>2 DEF WInv, WireStands, EndsWithTerminalFrame
<1>5. CASE Expires
  <2>1. UNCHANGED <<open, link, turn, wire, phase>> /\ call \in O!Call
    BY <1>5 DEF Expires, answerer, WInv, IInv
  <2>2. call'.timedOut
    BY <1>5, <2>1 DEF Expires, O!Expires, O!Call
  <2> QED
    BY <1>1, <2>1, <2>2 DEF WInv, WireStands, EndsWithTerminalFrame
<1>6. ASSUME NEW w \in A!Generated, Word(w)
      PROVE  WInv'
  <2>1. /\ phase' = "awaiting" /\ yielded' = <<A!Delta(<<w>>)>>
        /\ Send(<<>>) /\ UNCHANGED <<open, link, turn>> /\ call \in O!Call
    BY <1>6 DEF Word, A!Says, WInv, IInv
  <2>2. Fluent
    BY <2>1, OneEventIsFluent, TypesDiffer
  <2>3. WireStands'
    BY <1>2, <2>1, <2>2, FluentSends
  <2>4. call'.at # "releasing"
    BY <1>6, <2>1 DEF Word, O!Line, O!Rearmed, O!Call
  <2> QED
    BY <1>1, <2>1, <2>3, <2>4 DEF WInv, EndsWithTerminalFrame
<1>7. CASE Done
  <2>1. /\ NextCall /\ Send(<<>>) /\ UNCHANGED <<open, link, turn>>
        /\ phase = "awaiting" /\ (A!Recover \/ A!Conclude)
    BY <1>7 DEF Done, A!Ended
  <2>2. Fluent /\ LastEvent
    <3>1. CASE A!Recover
      BY <2>1, <3>1, RecoverIsFluent DEF LastEvent
    <3>2. CASE A!Conclude
      BY <3>2, ConcludeIsFluent
    <3> QED
      BY <2>1, <3>1, <3>2
  <2>3. /\ WireStands'
        /\ open /\ link = "up" /\ Len(yielded') > 0 =>
             wire' # <<>> /\ wire'[Len(wire')] = yielded'[Len(yielded')]
    BY <1>2, <2>1, <2>2, FluentSends
  <2>4. yielded'[Len(yielded')] = A!Thrown \/ phase' \notin {"done", "failed"}
          \/ yielded'[Len(yielded')].type = "complete"
    BY <2>2 DEF LastEvent
  <2>5. Len(yielded') > 0 => yielded'[Len(yielded')] # A!Thrown
    <3>1. PICK S : /\ yielded' \in Seq(S)
                   /\ \A e \in S : e.type \in {"grounding", "delta", "restart", "complete"}
      BY <2>2 DEF Fluent
    <3>2. Len(yielded') \in Nat /\ yielded' \in [1 .. Len(yielded') -> S]
      BY <3>1, LenProperties
    <3> QED
      BY <3>1, <3>2, TypesDiffer
  <2> QED
    BY <1>1, <2>1, <2>2, <2>3, <2>4, <2>5, TurnKeeps DEF LastEvent
<1>8. CASE TooLong
  <2> DEFINE error == Error("context-window-exceeded", TRUE, call.delivered)
  <2>1. /\ NextCall /\ Send(error)
        /\ UNCHANGED <<open, link, turn>> /\ phase = "awaiting"
    BY <1>8 DEF TooLong, A!TooLong
  <2>4. error.type = "error" /\ error.code # "generation-aborted"
    BY DEF Error
  <2> HIDE DEF error
  <2>2. CASE A!Fail
    BY <1>1, <2>1, <2>2, <2>4, FailureKeeps
  <2>3. CASE ~A!Fail
    <3>1. phase' = phase /\ yielded' = <<A!Grounding(projection')>>
      BY <1>8, <2>3 DEF TooLong, A!TooLong
    <3>2. Fluent
      BY <3>1, OneEventIsFluent, TypesDiffer
    <3>3. WireStands'
      BY <1>2, <2>1, <3>2, FluentSends
    <3> QED
      BY <1>1, <2>1, <3>1, <3>3, TurnKeeps
  <2> QED
    BY <2>2, <2>3
<1>9. CASE Breaks
  <2>1. PICK kept \in BOOLEAN : Send(Error("provider", kept, call.delivered))
    BY <1>9 DEF Breaks
  <2> DEFINE error == Error("provider", kept, call.delivered)
  <2>2. NextCall /\ UNCHANGED <<open, link, turn>> /\ A!Fail /\ Send(error)
    BY <1>9, <2>1 DEF Breaks, A!Fails
  <2>3. error.type = "error" /\ error.code # "generation-aborted"
    BY DEF Error
  <2> HIDE DEF error
  <2> QED
    BY <1>1, <2>2, <2>3, FailureKeeps
<1>10. CASE Released
  <2> DEFINE error == Error(O!Reported, TRUE, call.delivered)
  <2>1. /\ NextCall /\ UNCHANGED <<open, link, turn>> /\ A!Fail
        /\ Send(error) /\ call.at = "releasing"
    BY <1>10 DEF Released, A!Fails
  <2>2. open => O!Reported # "generation-aborted"
    BY <2>1 DEF WInv, O!Reported
  <2>3. error.type = "error" /\ (open => error.code # "generation-aborted")
    BY <2>2 DEF Error
  <2> HIDE DEF error
  <2> QED
    BY <1>1, <2>1, <2>3, FailureKeeps
<1>11. CASE CloseNoticed
  BY <1>1, <1>11 DEF CloseNoticed, answerer, WInv, WireStands, EndsWithTerminalFrame
<1>12. CASE Reads
  <2>1. PICK S : wire \in Seq(S) /\ Legible(S)
    BY <1>2 DEF WireStands
  <2>2. /\ wire # <<>> /\ turn' = Shown(Head(wire)) /\ wire' = Tail(wire)
        /\ turn.status = "streaming" /\ UNCHANGED <<phase, call, open, link>>
    BY <1>12 DEF Reads, answerer
  <2>3. /\ Head(wire) \in S /\ Tail(wire) \in Seq(S)
        /\ Len(Tail(wire)) = Len(wire) - 1
        /\ \A i \in 1 .. Len(Tail(wire)) : Tail(wire)[i] = wire[i + 1]
    BY <2>1, <2>2, HeadTailProperties
  <2>4. Head(wire).type \in {"grounding", "delta", "restart", "complete", "error"}
    <3> DEFINE e == Head(wire)
    <3>1. e \in S
      BY <2>3
    <3> HIDE DEF e
    <3>2. e.type \in {"grounding", "delta", "restart", "complete", "error"}
      BY <2>1, <3>1, Zenon DEF Legible
    <3> QED
      BY <3>2, Zenon DEF e
  <2>5. /\ DOMAIN turn' = {"status", "text", "grounding"}
        /\ Head(wire).type \in {"complete", "error"} => turn'.status # "streaming"
    BY <2>2, <2>4 DEF Shown, WInv
  <2>6. WireStands'
    BY <2>1, <2>2, <2>3 DEF WireStands
  <2>7. EndsWithTerminalFrame'
    <3> SUFFICES ASSUME phase \in {"done", "failed"}, link = "up", turn'.status = "streaming"
                 PROVE  wire' # <<>> /\ wire'[Len(wire')].type \in {"complete", "error"}
      BY <2>2 DEF EndsWithTerminalFrame
    <3>1. wire[Len(wire)].type \in {"complete", "error"}
      BY <2>2 DEF WInv, EndsWithTerminalFrame
    <3>2. Len(wire) \in Nat \ {0} /\ Head(wire) = wire[1]
      BY <2>1, <2>2, EmptySeq
    <3>3. Len(wire) # 1
      BY <2>5, <3>1, <3>2
    <3>4. Len(wire') \in Nat \ {0} /\ wire'[Len(wire')] = wire[Len(wire)]
      BY <2>2, <2>3, <3>2, <3>3
    <3> QED
      BY <3>1, <3>4, EmptySeq
  <2> QED
    BY <1>1, <2>2, <2>5, <2>6, <2>7 DEF WInv
<1>13. CASE Stops
  <2>1. /\ link' = "cut" /\ wire' = <<>> /\ UNCHANGED <<call, open>>
        /\ turn' = [turn EXCEPT !.status = "cancelled"]
    BY <1>13 DEF Stops
  <2>2. WireStands'
    BY <2>1, EmptySeq DEF WireStands, Legible
  <2> QED
    BY <1>1, <2>1, <2>2 DEF WInv, EndsWithTerminalFrame
<1>14. CASE LinkBreaks
  <2>1. /\ link' = "cut" /\ UNCHANGED <<call, open, turn>>
        /\ \E n \in 0 .. Len(wire) : wire' = SubSeq(wire, 1, n)
    BY <1>14 DEF LinkBreaks
  <2>2. WireStands'
    <3>1. PICK S : wire \in Seq(S) /\ Legible(S)
      BY <1>2 DEF WireStands
    <3>2. wire' \in Seq(S)
      BY <2>1, <3>1
    <3> QED
      BY <3>1, <3>2 DEF WireStands
  <2> QED
    BY <1>1, <2>1, <2>2 DEF WInv, EndsWithTerminalFrame
<1>15. CASE LossNoticed
  BY <1>1, <1>15 DEF LossNoticed, answerer, WInv, WireStands, EndsWithTerminalFrame
<1>16. CASE UNCHANGED vars
  BY <1>1, <1>16 DEF vars, answerer, WInv, WireStands, EndsWithTerminalFrame
<1> QED
  BY <1>3, <1>4, <1>5, <1>6, <1>7, <1>8, <1>9, <1>10, <1>11, <1>12, <1>13, <1>14, <1>15,
     <1>16 DEF Next

LEMMA WireStart ==
  Init => WInv
<1>1. Init => IInv
  BY CallsAreCalls DEF Init, IInv, LeavingStopsTheModel, O!CInit
<1>2. Init => WireStands
  <2>1. <<>> \in Seq({}) /\ Legible({})
    BY EmptySeq DEF Legible
  <2> QED
    BY <2>1 DEF Init, WireStands
<1> QED
  BY <1>1, <1>2 DEF Init, WInv, EndsWithTerminalFrame, A!Init, O!CInit, O!NoCall

\* "A stream that ends without one leaves the UI spinning forever" (endpoints.ts): when
\* the answerer has finished, a reader still connected has a last frame before him.
THEOREM EndsWithALastFrame == Spec => []EndsWithTerminalFrame
<1>1. WInv => EndsWithTerminalFrame
  BY DEF WInv
<1> QED
  BY <1>1, WireStart, WireStep, PTL DEF Spec

\* No frame on its way to a reader who has not left says that he cancelled the answer,
\* although the timeouts abort through the same controller as he does.
THEOREM TimeoutIsNotHisDoing == Spec => []ReaderIsNotBlamed
<1>1. WInv => ReaderIsNotBlamed
  <2> SUFFICES ASSUME WInv, NEW i \in 1 .. Len(wire), wire[i].type = "error"
               PROVE  wire[i].code # "generation-aborted"
    BY DEF ReaderIsNotBlamed
  <2>1. PICK S : wire \in Seq(S) /\ Legible(S)
    BY DEF WInv, WireStands
  <2>2. wire[i] \in S
    BY <2>1, LenProperties
  <2> QED
    BY <2>1, <2>2 DEF Legible
<1> QED
  BY <1>1, WireStart, WireStep, PTL DEF Spec

-----------------------------------------------------------------------------
(* What AnswererProofs says of the answerer: its instance and that of      *)
(* ChatStream are one module over the same constants and variables         *)

AP == INSTANCE AnswererProofs

LEMMA Assumed ==
  AP!TierAssumption /\ AP!TextAssumption /\ AP!FactAssumption /\ AP!MissedAssumption
BY AnswererAssumption
   DEF A!TierAssumption, A!TextAssumption, A!FactAssumption, A!MissedAssumption, A!IsFiniteSet,
       AP!TierAssumption, AP!TextAssumption, AP!FactAssumption, AP!MissedAssumption,
       AP!IsFiniteSet

LEMMA SameVocabulary ==
  /\ A!Sentence = AP!Sentence /\ A!Projection = AP!Projection
  /\ A!Candidate = AP!Candidate /\ A!Current = AP!Current
  /\ A!TypeOK <=> AP!TypeOK
BY DEF A!Sentence, AP!Sentence, A!Generated, AP!Generated, A!Projection, AP!Projection,
       A!Tiers, AP!Tiers, A!Candidate, AP!Candidate, A!Current, AP!Current,
       A!TypeOK, AP!TypeOK

LEMMA SameJudgement ==
  /\ \A p, s : A!Supported(p, s) <=> AP!Supported(p, s)
  /\ \A c : A!Unsound(c) <=> AP!Unsound(c)
  /\ \A c : A!Recoverable(c) <=> AP!Recoverable(c)
  /\ \A a, b : A!SaferOf(a, b) = AP!SaferOf(a, b)
  /\ \A c : A!Finalise(c) = AP!Finalise(c)
BY DEF A!Supported, AP!Supported, A!Unsound, AP!Unsound, A!Failing, AP!Failing,
       A!Recoverable, AP!Recoverable, A!SaferOf, AP!SaferOf, A!Finalise, AP!Finalise,
       A!Reduced, AP!Reduced, A!Left, AP!Left, A!Overlooked, AP!Overlooked,
       A!NothingHeld, AP!NothingHeld,
       A!Cardinality, AP!Cardinality, A!IsFiniteSet, AP!IsFiniteSet

\* Both instances take the same turns.
LEMMA SameTurns ==
  [A!Next]_answerer => [AP!Next]_AP!vars
BY DEF answerer, AP!vars, A!Next, AP!Next, A!Ask, AP!Ask, A!Says, AP!Says, A!Ended, AP!Ended,
       A!Recover, AP!Recover, A!Conclude, AP!Conclude, A!TooLong, AP!TooLong,
       A!Fails, AP!Fails, A!Fail, AP!Fail,
       A!Thrown, AP!Thrown, A!Restart, AP!Restart, A!Delta, AP!Delta,
       A!Grounding, AP!Grounding, A!Complete, AP!Complete, A!Replaced, AP!Replaced,
       A!Generated, AP!Generated, A!Tiers, AP!Tiers, A!Projection, AP!Projection,
       A!Projections, AP!Projections, A!Current, AP!Current, A!StatusOf, AP!StatusOf,
       A!Cites, AP!Cites, A!Supported, AP!Supported, A!Unsound, AP!Unsound,
       A!Failing, AP!Failing, A!Recoverable, AP!Recoverable, A!SaferOf, AP!SaferOf,
       A!Finalise, AP!Finalise, A!Reduced, AP!Reduced, A!Left, AP!Left,
       A!Overlooked, AP!Overlooked,
       A!NothingHeld, AP!NothingHeld, A!Cardinality, AP!Cardinality,
       A!IsFiniteSet, AP!IsFiniteSet

LEMMA TypesKept ==
  ASSUME A!TypeOK, [A!Next]_answerer
  PROVE  A!TypeOK'
<1>1. AP!TypeOK
  BY SameVocabulary
<1>2. [AP!Next]_AP!vars
  BY SameTurns
<1>3. AP!TypeOK'
  BY <1>1, <1>2, Assumed, AP!TypeStep
<1> QED
  BY <1>3 DEF A!Sentence, AP!Sentence, A!Generated, AP!Generated, A!Projection, AP!Projection,
              A!Tiers, AP!Tiers, A!Candidate, AP!Candidate, A!TypeOK, AP!TypeOK

-----------------------------------------------------------------------------
(* What a page makes of the frames on their way to it *)

\* A page in the midst of an answer may read this frame, and is then in that state.
Lawful(a, e, b) ==
  /\ a.status = "streaming"
  /\ \/ /\ e.type = "grounding" /\ a.text = <<>> /\ e.projection \in A!Projection
        /\ b = [a EXCEPT !.grounding = e.projection]
     \/ /\ e.type = "delta" /\ a.grounding # NoEvidence /\ e.text \in Seq(A!Sentence)
        /\ b = [a EXCEPT !.text = a.text \o e.text]
     \/ /\ e.type = "restart"
        /\ b = [a EXCEPT !.text = <<>>]
     \/ /\ e.type = "complete" /\ e.answer.text = a.text
        /\ e.answer.projection \in A!Projection
        /\ \A i \in 1 .. Len(a.text) : A!Supported(e.answer.projection, a.text[i])
        /\ b = [a EXCEPT !.status = "complete", !.grounding = e.answer.projection]
     \/ /\ e.type = "error" /\ (e.kept => e.partial = a.text)
        /\ b = [a EXCEPT !.status = "failed"]

\* The frames of w, read one after the other, bring a page from a to b.
Tells(w, a, b) ==
  \E f \in [0 .. Len(w) -> Turn] :
    /\ f[0] = a /\ f[Len(w)] = b
    /\ \A i \in 1 .. Len(w) : Lawful(f[i - 1], w[i], f[i])

LEMMA TellsNothing ==
  ASSUME NEW a \in Turn
  PROVE  Tells(<<>>, a, a)
<1> DEFINE f == [i \in 0 .. 0 |-> a]
<1>1. f \in [0 .. Len(<<>>) -> Turn] /\ f[0] = a /\ f[Len(<<>>)] = a
  OBVIOUS
<1>2. \A i \in 1 .. Len(<<>>) : Lawful(f[i - 1], <<>>[i], f[i])
  OBVIOUS
<1> HIDE DEF f
<1> QED
  BY <1>1, <1>2 DEF Tells

LEMMA TellsOne ==
  ASSUME NEW e, NEW a \in Turn, NEW b \in Turn, Lawful(a, e, b)
  PROVE  Tells(<<e>>, a, b)
<1> DEFINE f == [i \in 0 .. 1 |-> IF i = 0 THEN a ELSE b]
<1>1. Len(<<e>>) = 1 /\ <<e>>[1] = e
  OBVIOUS
<1>2. f \in [0 .. 1 -> Turn] /\ f[0] = a /\ f[1] = b
  OBVIOUS
<1>3. \A i \in 1 .. 1 : Lawful(f[i - 1], <<e>>[i], f[i])
  BY <1>1, <1>2
<1> HIDE DEF f
<1> QED
  BY <1>1, <1>2, <1>3 DEF Tells

LEMMA TellsBoth ==
  ASSUME NEW S, NEW w \in Seq(S), NEW z \in Seq(S), NEW a, NEW b, NEW c,
         Tells(w, a, b), Tells(z, b, c)
  PROVE  Tells(w \o z, a, c)
<1>1. PICK f \in [0 .. Len(w) -> Turn] :
        /\ f[0] = a /\ f[Len(w)] = b
        /\ \A i \in 1 .. Len(w) : Lawful(f[i - 1], w[i], f[i])
  BY DEF Tells
<1>2. PICK g \in [0 .. Len(z) -> Turn] :
        /\ g[0] = b /\ g[Len(z)] = c
        /\ \A i \in 1 .. Len(z) : Lawful(g[i - 1], z[i], g[i])
  BY DEF Tells
<1>3. Len(w) \in Nat /\ Len(z) \in Nat
  BY LenProperties
<1>4. /\ Len(w \o z) = Len(w) + Len(z)
      /\ \A i \in 1 .. Len(w) : (w \o z)[i] = w[i]
      /\ \A i \in Len(w) + 1 .. Len(w) + Len(z) : (w \o z)[i] = z[i - Len(w)]
  BY ConcatProperties
<1> DEFINE h == [i \in 0 .. Len(w) + Len(z) |-> IF i <= Len(w) THEN f[i] ELSE g[i - Len(w)]]
<1>5. h \in [0 .. Len(w) + Len(z) -> Turn]
  BY <1>3
<1>6. h[0] = a /\ h[Len(w) + Len(z)] = c
  <2>1. h[0] = f[0]
    BY <1>3
  <2>2. CASE Len(z) = 0
    BY <1>1, <1>2, <1>3, <2>1, <2>2
  <2>3. CASE Len(z) # 0
    BY <1>1, <1>2, <1>3, <2>1, <2>3
  <2> QED
    BY <2>2, <2>3
<1>7. ASSUME NEW i \in 1 .. Len(w) + Len(z)
      PROVE  Lawful(h[i - 1], (w \o z)[i], h[i])
  <2>1. CASE i <= Len(w)
    <3>1. h[i - 1] = f[i - 1] /\ h[i] = f[i] /\ (w \o z)[i] = w[i] /\ i \in 1 .. Len(w)
      BY <1>3, <1>4, <2>1
    <3> HIDE DEF h
    <3> QED
      BY <1>1, <3>1
  <2>2. CASE i > Len(w)
    <3>1. /\ i - Len(w) \in 1 .. Len(z) /\ i \in Len(w) + 1 .. Len(w) + Len(z)
          /\ i - 1 - Len(w) = (i - Len(w)) - 1
      BY <1>3, <2>2
    <3>2. h[i] = g[i - Len(w)] /\ (w \o z)[i] = z[i - Len(w)]
      BY <1>3, <1>4, <2>2, <3>1
    <3>3. h[i - 1] = g[(i - Len(w)) - 1]
      BY <1>1, <1>2, <1>3, <2>2
    <3> HIDE DEF h
    <3> QED
      BY <1>2, <3>1, <3>2, <3>3
  <2> QED
    BY <1>3, <2>1, <2>2
<1> HIDE DEF h
<1> QED
  BY <1>4, <1>5, <1>6, <1>7 DEF Tells

LEMMA TellsFirst ==
  ASSUME NEW S, NEW w \in Seq(S), w # <<>>, NEW a, NEW c, Tells(w, a, c)
  PROVE  \E b \in Turn : Lawful(a, Head(w), b) /\ Tells(Tail(w), b, c)
<1>1. PICK f \in [0 .. Len(w) -> Turn] :
        /\ f[0] = a /\ f[Len(w)] = c
        /\ \A i \in 1 .. Len(w) : Lawful(f[i - 1], w[i], f[i])
  BY DEF Tells
<1>2. Len(w) \in Nat \ {0} /\ Head(w) = w[1]
  BY EmptySeq
<1>3. /\ Len(Tail(w)) = Len(w) - 1
      /\ \A i \in 1 .. Len(Tail(w)) : Tail(w)[i] = w[i + 1]
  BY HeadTailProperties
<1> DEFINE g == [i \in 0 .. Len(w) - 1 |-> f[i + 1]]
<1>4. g \in [0 .. Len(w) - 1 -> Turn] /\ g[0] = f[1] /\ g[Len(w) - 1] = c
  BY <1>1, <1>2
<1>5. ASSUME NEW i \in 1 .. Len(w) - 1
      PROVE  Lawful(g[i - 1], Tail(w)[i], g[i])
  <2>1. i + 1 \in 1 .. Len(w) /\ (i + 1) - 1 = i /\ i - 1 \in 0 .. Len(w) - 1
    BY <1>2
  <2>2. g[i - 1] = f[(i + 1) - 1] /\ g[i] = f[i + 1] /\ Tail(w)[i] = w[i + 1]
    BY <1>2, <1>3, <2>1
  <2> HIDE DEF g
  <2> QED
    BY <1>1, <2>1, <2>2
<1>6. Lawful(a, Head(w), f[1]) /\ f[1] \in Turn
  BY <1>1, <1>2
<1> HIDE DEF g
<1>7. Tells(Tail(w), f[1], c)
  BY <1>3, <1>4, <1>5 DEF Tells
<1> QED
  BY <1>6, <1>7

\* A page whose connection breaks has been told the beginning.
LEMMA TellsBeginning ==
  ASSUME NEW S, NEW w \in Seq(S), NEW n \in 0 .. Len(w), NEW a, NEW c, Tells(w, a, c)
  PROVE  \E b \in Turn : Tells(SubSeq(w, 1, n), a, b)
<1>1. PICK f \in [0 .. Len(w) -> Turn] :
        /\ f[0] = a /\ f[Len(w)] = c
        /\ \A i \in 1 .. Len(w) : Lawful(f[i - 1], w[i], f[i])
  BY DEF Tells
<1>2. Len(w) \in Nat /\ n \in Nat /\ \A i \in 1 .. n : w[i] \in S
  BY LenProperties
<1>3. Len(SubSeq(w, 1, n)) = n /\ \A i \in 1 .. n : SubSeq(w, 1, n)[i] = w[i]
  BY <1>2
<1> DEFINE g == [i \in 0 .. n |-> f[i]]
<1>4. g \in [0 .. n -> Turn] /\ g[0] = a /\ g[n] \in Turn
  BY <1>1, <1>2
<1>5. \A i \in 1 .. n : g[i - 1] = f[i - 1] /\ g[i] = f[i] /\ i \in 1 .. Len(w)
  BY <1>2
<1> HIDE DEF g
<1>6. \A i \in 1 .. n : Lawful(g[i - 1], SubSeq(w, 1, n)[i], g[i])
  BY <1>1, <1>3, <1>5
<1> QED
  BY <1>3, <1>4, <1>6 DEF Tells

\* What the answerer knows of the page that has read everything sent to it.
Reflects(v) ==
  /\ phase = "idle" =>
       v = [status |-> "streaming", text |-> <<>>, grounding |-> NoEvidence]
  /\ phase = "awaiting" =>
       v = [status |-> "streaming", text |-> text, grounding |-> projection]

PageIsTold ==
  turn.status = "streaming" =>
    \E v \in Turn : Tells(wire, turn, v) /\ (open /\ link = "up" => Reflects(v))

\* The provider counts the words of this generation, and so does the answerer.
GInv == /\ A!TypeOK /\ turn \in Turn
        /\ phase = "idle" => text = <<>>
        /\ phase = "awaiting" => call.delivered = text
        /\ PageIsTold

LEMMA StreamingPage ==
  ASSUME A!TypeOK
  PROVE  /\ [status |-> "streaming", text |-> text, grounding |-> projection] \in Turn
         /\ [status |-> "streaming", text |-> <<>>, grounding |-> NoEvidence] \in Turn
         /\ projection \in A!Projection /\ projection # NoEvidence
         /\ text \in Seq(A!Sentence)
BY EvidenceAssumption, EmptySeq DEF A!TypeOK, Turn

\* What a turn of the server that sends z leaves to be read.
LEMMA MoreIsTold ==
  ASSUME PageIsTold, WireStands, UNCHANGED <<open, link, turn>>,
         NEW S, NEW z \in Seq(S),
         open /\ link = "up" => wire' = wire \o z,
         ~(open /\ link = "up") => wire' = wire,
         \A v \in Turn : Reflects(v) => \E u \in Turn : Tells(z, v, u) /\ Reflects(u)'
  PROVE  PageIsTold'
<1> SUFFICES ASSUME turn.status = "streaming"
             PROVE  \E u \in Turn : Tells(wire', turn, u) /\ (open /\ link = "up" => Reflects(u)')
  BY DEF PageIsTold
<1>1. PICK v \in Turn : Tells(wire, turn, v) /\ (open /\ link = "up" => Reflects(v))
  BY DEF PageIsTold
<1>2. CASE open /\ link = "up"
  <2>1. PICK u \in Turn : Tells(z, v, u) /\ Reflects(u)'
    BY <1>1, <1>2
  <2>2. PICK R : wire \in Seq(R)
    BY DEF WireStands
  <2>3. wire \in Seq(R \cup S) /\ z \in Seq(R \cup S)
    BY <2>2, SMT
  <2>4. Tells(wire \o z, turn, u)
    BY <1>1, <2>1, <2>3, TellsBoth
  <2> QED
    BY <1>2, <2>1, <2>4
<1>3. CASE ~(open /\ link = "up")
  BY <1>1, <1>3
<1> QED
  BY <1>2, <1>3

\* A turn that throws nothing reaches the wire as it is.
LEMMA SentAsItIs ==
  ASSUME Fluent, NEW error, Send(error)
  PROVE  /\ open /\ link = "up" => wire' = wire \o yielded'
         /\ ~(open /\ link = "up") => wire' = wire
<1>1. PICK S : /\ yielded' \in Seq(S)
               /\ \A e \in S : e.type \in {"grounding", "delta", "restart", "complete"}
  BY DEF Fluent
<1> DEFINE y == yielded'
<1>2. /\ y \in [1 .. Len(y) -> S] /\ DOMAIN y = 1 .. Len(y)
  BY <1>1, LenProperties
<1> HIDE DEF y
<1>3. \A i \in 1 .. Len(y) : y[i] # A!Thrown
  BY <1>1, <1>2, TypesDiffer
<1>4. [i \in DOMAIN y |-> IF y[i] = A!Thrown THEN error ELSE y[i]] = y
  BY <1>2, <1>3
<1> QED
  BY <1>4 DEF Send, y

LEMMA FailureSent ==
  ASSUME A!Fail, NEW error, Send(error)
  PROVE  /\ open /\ link = "up" => wire' = wire \o <<error>>
         /\ ~(open /\ link = "up") => wire' = wire
<1>1. yielded' = <<A!Thrown>>
  BY DEF A!Fail
<1>2. [i \in DOMAIN yielded' |-> IF yielded'[i] = A!Thrown THEN error ELSE yielded'[i]] = <<error>>
  BY <1>1
<1> QED
  BY <1>2 DEF Send

\* A failure, of which the page keeps what it shows.
LEMMA FailureIsTold ==
  ASSUME GInv, WireStands, UNCHANGED <<open, link, turn>>, A!Fail,
         phase \in {"idle", "awaiting"},
         NEW code, NEW kept, NEW partial, Send(Error(code, kept, partial)),
         kept => phase = "awaiting" /\ partial = text
  PROVE  PageIsTold'
<1> DEFINE error == Error(code, kept, partial)
<1>1. error.type = "error" /\ error.kept = kept /\ error.partial = partial
  BY DEF Error
<1>2. Send(error)
  OBVIOUS
<1> HIDE DEF error
<1>3. phase' = "failed"
  BY DEF A!Fail
<1>4. ASSUME NEW v \in Turn, Reflects(v)
      PROVE  \E u \in Turn : Tells(<<error>>, v, u) /\ Reflects(u)'
  <2> DEFINE u == [v EXCEPT !.status = "failed"]
  <2>1. u \in Turn
    BY DEF Turn
  <2>2. v.status = "streaming" /\ (kept => partial = v.text)
    BY <1>4 DEF Reflects
  <2>3. Lawful(v, error, u)
    BY <1>1, <2>2 DEF Lawful
  <2>4. Tells(<<error>>, v, u)
    BY <2>1, <2>3, TellsOne
  <2>5. Reflects(u)'
    BY <1>3 DEF Reflects
  <2> HIDE DEF u
  <2> QED
    BY <2>1, <2>4, <2>5
<1>5. <<error>> \in Seq({error})
  OBVIOUS
<1>6. /\ open /\ link = "up" => wire' = wire \o <<error>>
      /\ ~(open /\ link = "up") => wire' = wire
  BY <1>2, FailureSent
<1> QED
  BY <1>4, <1>5, <1>6, MoreIsTold DEF GInv

\* A page shown new evidence before any prose.
LEMMA EvidenceIsTold ==
  ASSUME NEW v \in Turn, v.status = "streaming", v.text = <<>>, NEW p \in A!Projection
  PROVE  /\ [v EXCEPT !.grounding = p] \in Turn
         /\ Tells(<<A!Grounding(p)>>, v, [v EXCEPT !.grounding = p])
<1> DEFINE e == A!Grounding(p)
           u == [v EXCEPT !.grounding = p]
<1>1. u \in Turn
  BY DEF Turn
<1>2. Lawful(v, e, u)
  BY DEF Lawful, A!Grounding
<1> HIDE DEF e, u
<1>3. Tells(<<e>>, v, u)
  BY <1>1, <1>2, TellsOne
<1> QED
  BY <1>1, <1>3 DEF e, u

LEMMA RestartIsTold ==
  ASSUME NEW v \in Turn, v.status = "streaming"
  PROVE  /\ [v EXCEPT !.text = <<>>] \in Turn
         /\ Tells(<<A!Restart>>, v, [v EXCEPT !.text = <<>>])
<1> DEFINE u == [v EXCEPT !.text = <<>>]
<1>1. u \in Turn
  BY EmptySeq DEF Turn
<1>2. Lawful(v, A!Restart, u)
  BY DEF Lawful, A!Restart
<1> HIDE DEF u
<1>3. Tells(<<A!Restart>>, v, u)
  BY <1>1, <1>2, TellsOne
<1> QED
  BY <1>1, <1>3 DEF u

LEMMA ProseIsTold ==
  ASSUME NEW v \in Turn, v.status = "streaming", v.grounding # NoEvidence,
         NEW t \in Seq(A!Sentence)
  PROVE  /\ [v EXCEPT !.text = v.text \o t] \in Turn
         /\ Tells(<<A!Delta(t)>>, v, [v EXCEPT !.text = v.text \o t])
<1> DEFINE e == A!Delta(t)
           u == [v EXCEPT !.text = v.text \o t]
<1>1. u \in Turn
  <2>1. v.text \in Seq(A!Sentence)
    BY DEF Turn
  <2>2. v.text \o t \in Seq(A!Sentence)
    BY <2>1, ConcatProperties
  <2> QED
    BY <2>2 DEF Turn
<1>2. Lawful(v, e, u)
  BY DEF Lawful, A!Delta
<1> HIDE DEF e, u
<1>3. Tells(<<e>>, v, u)
  BY <1>1, <1>2, TellsOne
<1> QED
  BY <1>1, <1>3 DEF e, u

LEMMA Retexted ==
  ASSUME NEW s, NEW t, NEW g, NEW x
  PROVE  [[status |-> s, text |-> t, grounding |-> g] EXCEPT !.text = x]
           = [status |-> s, text |-> x, grounding |-> g]
OBVIOUS

\* Two frames, one after the other.
LEMMA TwoAreTold ==
  ASSUME NEW d, NEW e, NEW a, NEW b, NEW c, Tells(<<d>>, a, b), Tells(<<e>>, b, c)
  PROVE  Tells(<<d, e>>, a, c)
<1>1. <<d>> \in Seq({d, e}) /\ <<e>> \in Seq({d, e})
  OBVIOUS
<1>2. <<d, e>> = <<d>> \o <<e>>
  <2> DEFINE both == <<d>> \o <<e>>
             pair == <<d, e>>
  <2>1. Len(<<d>>) = 1 /\ <<d>>[1] = d /\ Len(<<e>>) = 1 /\ <<e>>[1] = e
    OBVIOUS
  <2>2. both \in Seq({d, e}) /\ Len(both) = 2 /\ both[1] = d /\ both[2] = e
    BY <1>1, <2>1, ConcatProperties
  <2>3. pair \in Seq({d, e}) /\ Len(pair) = 2 /\ pair[1] = d /\ pair[2] = e
    OBVIOUS
  <2> HIDE DEF both, pair
  <2>4. \A i \in 1 .. Len(both) : both[i] = pair[i]
    BY <2>2, <2>3
  <2> QED
    BY <2>2, <2>3, <2>4, SeqEqual DEF both, pair
<1>3. Tells(<<d>> \o <<e>>, a, c)
  BY <1>1, TellsBoth
<1> QED
  BY <1>2, <1>3

LEMMA ReplacementIsTold ==
  ASSUME NEW v \in Turn, v.status = "streaming", v.grounding # NoEvidence,
         NEW t \in Seq(A!Sentence)
  PROVE  /\ [v EXCEPT !.text = t] \in Turn
         /\ Tells(A!Replaced(v.text, t), v, [v EXCEPT !.text = t])
<1>1. [v EXCEPT !.text = t] \in Turn
  BY DEF Turn
<1>2. CASE v.text = t
  <2>1. [v EXCEPT !.text = t] = v
    BY <1>2 DEF Turn
  <2>2. Tells(<<>>, v, v)
    BY TellsNothing
  <2> QED
    BY <1>1, <1>2, <2>1, <2>2 DEF A!Replaced
<1>3. CASE v.text # t
  <2> DEFINE b == [v EXCEPT !.text = <<>>]
  <2>1. b \in Turn /\ Tells(<<A!Restart>>, v, b)
    BY RestartIsTold
  <2>2. b.status = "streaming" /\ b.grounding # NoEvidence /\ b.text = <<>>
    BY DEF Turn
  <2>3. [b EXCEPT !.text = b.text \o t] = [v EXCEPT !.text = t]
    <3>1. <<>> \o t = t
      BY ConcatEmptySeq
    <3> QED
      BY <2>2, <3>1 DEF Turn
  <2> HIDE DEF b
  <2>4. Tells(<<A!Delta(t)>>, b, [b EXCEPT !.text = b.text \o t])
    BY <2>1, <2>2, ProseIsTold
  <2>5. Tells(<<A!Restart, A!Delta(t)>>, v, [v EXCEPT !.text = t])
    BY <2>1, <2>3, <2>4, TwoAreTold
  <2> QED
    BY <1>1, <1>3, <2>5 DEF A!Replaced
<1> QED
  BY <1>2, <1>3

LEMMA AnswerIsTold ==
  ASSUME NEW v \in Turn, v.status = "streaming", NEW c \in A!Candidate, NEW s,
         v.text = c.text, ~A!Unsound(c)
  PROVE  LET u == [v EXCEPT !.status = "complete", !.grounding = c.projection]
         IN  u \in Turn /\ Tells(<<A!Complete(c, s)>>, v, u)
<1> DEFINE e == A!Complete(c, s)
           u == [v EXCEPT !.status = "complete", !.grounding = c.projection]
<1>1. c.text \in Seq(A!Sentence) /\ c.projection \in A!Projection
  BY DEF A!Candidate
<1>2. u \in Turn
  BY <1>1 DEF Turn
<1>3. \A i \in 1 .. Len(v.text) : A!Supported(c.projection, v.text[i])
  BY DEF A!Unsound, A!Failing
<1>4. e.type = "complete" /\ e.answer = c
  BY DEF A!Complete
<1>5. Lawful(v, e, u)
  BY <1>1, <1>3, <1>4 DEF Lawful
<1> HIDE DEF e, u
<1>6. Tells(<<e>>, v, u)
  BY <1>2, <1>5, TellsOne
<1> QED
  BY <1>2, <1>6 DEF e, u

-----------------------------------------------------------------------------
(* The answerer's turns *)

LEMMA AskedIsTold ==
  ASSUME GInv, WireStands, Asked
  PROVE  PageIsTold'
<1>1. CASE A!Fail
  <2>1. UNCHANGED <<open, link, turn>> /\ Send(Error("unanswerable", FALSE, <<>>)) /\ phase = "idle"
    BY DEF Asked, A!Ask
  <2> QED
    BY <1>1, <2>1, FailureIsTold
<1>2. CASE ~A!Fail
  <2>1. /\ phase = "idle" /\ phase' = "awaiting" /\ text' = text
        /\ yielded' = <<A!Grounding(projection')>>
        /\ Send(Error("unanswerable", FALSE, <<>>)) /\ UNCHANGED <<open, link, turn>>
        /\ projection' \in A!Projection
    BY <1>2 DEF Asked, A!Ask, A!Projections
  <2>2. Fluent
    BY <2>1, OneEventIsFluent, TypesDiffer
  <2>3. yielded' \in Seq({A!Grounding(projection')})
    BY <2>1
  <2>4. ASSUME NEW v \in Turn, Reflects(v)
        PROVE  \E u \in Turn : Tells(yielded', v, u) /\ Reflects(u)'
    <3>0. PICK p \in A!Projection : p = projection'
      BY <2>1
    <3> DEFINE u == [v EXCEPT !.grounding = p]
    <3>1. v = [status |-> "streaming", text |-> <<>>, grounding |-> NoEvidence] /\ text = <<>>
      BY <2>1, <2>4 DEF Reflects, GInv
    <3>2. u \in Turn /\ Tells(<<A!Grounding(p)>>, v, u)
      BY <3>1, EvidenceIsTold
    <3>3. u = [status |-> "streaming", text |-> <<>>, grounding |-> p]
      BY <3>1
    <3> HIDE DEF u
    <3>4. Reflects(u)'
      BY <2>1, <3>0, <3>1, <3>3 DEF Reflects
    <3> QED
      BY <2>1, <3>0, <3>2, <3>4
  <2>5. /\ open /\ link = "up" => wire' = wire \o yielded'
        /\ ~(open /\ link = "up") => wire' = wire
    BY <2>1, <2>2, SentAsItIs
  <2> QED
    BY <2>1, <2>3, <2>4, <2>5, MoreIsTold DEF GInv
<1> QED
  BY <1>1, <1>2

LEMMA WordIsTold ==
  ASSUME GInv, WireStands, NEW w \in A!Generated, Word(w)
  PROVE  PageIsTold'
<1>1. /\ phase = "awaiting" /\ phase' = "awaiting" /\ projection' = projection
      /\ text' = Append(text, w) /\ yielded' = <<A!Delta(<<w>>)>>
      /\ Send(<<>>) /\ UNCHANGED <<open, link, turn>>
  BY DEF Word, A!Says
<1>2. Fluent
  BY <1>1, OneEventIsFluent, TypesDiffer
<1>3. yielded' \in Seq({A!Delta(<<w>>)})
  BY <1>1
<1>4. ASSUME NEW v \in Turn, Reflects(v)
      PROVE  \E u \in Turn : Tells(yielded', v, u) /\ Reflects(u)'
  <2>1. /\ v = [status |-> "streaming", text |-> text, grounding |-> projection]
        /\ text \in Seq(A!Sentence) /\ projection # NoEvidence
    BY <1>1, <1>4, StreamingPage DEF Reflects, GInv
  <2>2. <<w>> \in Seq(A!Sentence) /\ text \o <<w>> = Append(text, w)
    BY <2>1, AppendIsConcat DEF A!Sentence
  <2> DEFINE u == [v EXCEPT !.text = v.text \o <<w>>]
  <2>3. u \in Turn /\ Tells(<<A!Delta(<<w>>)>>, v, u)
    BY <2>1, <2>2, ProseIsTold
  <2>4. u = [status |-> "streaming", text |-> text \o <<w>>, grounding |-> projection]
    BY <2>1, Retexted
  <2> HIDE DEF u
  <2>5. Reflects(u)'
    BY <1>1, <2>2, <2>4 DEF Reflects
  <2> QED
    BY <1>1, <2>3, <2>5
<1>5. /\ open /\ link = "up" => wire' = wire \o yielded'
      /\ ~(open /\ link = "up") => wire' = wire
  BY <1>1, <1>2, SentAsItIs
<1> QED
  BY <1>1, <1>3, <1>4, <1>5, MoreIsTold DEF GInv

LEMMA RecoveryIsTold ==
  ASSUME GInv, WireStands, Done, A!Recover
  PROVE  PageIsTold'
<1>1. /\ phase = "awaiting" /\ phase' = "awaiting" /\ text' = <<>>
      /\ projection' \in A!Projection
      /\ yielded' = <<A!Restart, A!Grounding(projection')>>
      /\ Send(<<>>) /\ UNCHANGED <<open, link, turn>>
  BY DEF Done, A!Ended, A!Recover, A!Projections
<1>2. Fluent
  BY RecoverIsFluent
<1>3. yielded' \in Seq({A!Restart, A!Grounding(projection')})
  BY <1>1
<1>4. ASSUME NEW v \in Turn, Reflects(v)
      PROVE  \E u \in Turn : Tells(yielded', v, u) /\ Reflects(u)'
  <2>0. PICK p \in A!Projection : p = projection'
    BY <1>1
  <2> DEFINE b == [v EXCEPT !.text = <<>>]
             u == [b EXCEPT !.grounding = p]
  <2>1. v = [status |-> "streaming", text |-> text, grounding |-> projection]
    BY <1>1, <1>4 DEF Reflects
  <2>2. b \in Turn /\ Tells(<<A!Restart>>, v, b) /\ b.status = "streaming" /\ b.text = <<>>
    BY <2>1, RestartIsTold
  <2>3. u = [status |-> "streaming", text |-> <<>>, grounding |-> p]
    <3>1. b = [status |-> "streaming", text |-> <<>>, grounding |-> projection]
      BY <2>1, Retexted
    <3> HIDE DEF b
    <3> QED
      BY <3>1
  <2>4. u \in Turn /\ Tells(<<A!Grounding(p)>>, b, u)
    BY <2>2, EvidenceIsTold
  <2> HIDE DEF b, u
  <2>5. Tells(yielded', v, u)
    BY <1>1, <2>0, <2>2, <2>4, TwoAreTold
  <2>6. Reflects(u)'
    BY <1>1, <2>0, <2>3 DEF Reflects
  <2> QED
    BY <2>4, <2>5, <2>6
<1>5. /\ open /\ link = "up" => wire' = wire \o yielded'
      /\ ~(open /\ link = "up") => wire' = wire
  BY <1>1, <1>2, SentAsItIs
<1> QED
  BY <1>1, <1>3, <1>4, <1>5, MoreIsTold DEF GInv

\* What a concluded answer consists of: the safer attempt, and what finalising left of it.
LEMMA ConclusionHolds ==
  ASSUME A!TypeOK, A!Conclude
  PROVE  \E s \in A!Candidate, c \in A!Candidate : ~A!Unsound(c) /\ \E status :
           yielded' = A!Replaced(text, s.text) \o A!Replaced(s.text, c.text)
                        \o <<A!Complete(c, status)>>
<1> DEFINE safer == IF attempts > 1 THEN A!SaferOf(first, A!Current) ELSE A!Current
           final == A!Finalise(safer)
<1>1. A!Current \in A!Candidate
  BY DEF A!TypeOK, A!Current, A!Candidate
<1>2. safer \in A!Candidate
  BY <1>1 DEF A!TypeOK, A!SaferOf
<1>3. yielded' = A!Replaced(text, safer.text) \o A!Replaced(safer.text, final.text)
                   \o <<A!Complete(final, A!StatusOf(safer, final))>>
  BY DEF A!Conclude
<1> HIDE DEF safer
<1>4. final \in A!Candidate /\ ~A!Unsound(final)
  <2>1. safer \in AP!Candidate
    BY <1>2, SameVocabulary
  <2>2. AP!Finalise(safer) \in AP!Candidate /\ ~AP!Unsound(AP!Finalise(safer))
    BY <2>1, Assumed, AP!FinaliseIsSound
  <2> QED
    BY <2>2, SameVocabulary, SameJudgement
<1> HIDE DEF final
<1> QED
  BY <1>2, <1>3, <1>4

LEMMA ConclusionIsTold ==
  ASSUME GInv, WireStands, Done, A!Conclude
  PROVE  PageIsTold'
<1>1. /\ phase = "awaiting" /\ phase' = "done"
      /\ Send(<<>>) /\ UNCHANGED <<open, link, turn>>
  BY DEF Done, A!Ended, A!Conclude
<1>2. PICK s \in A!Candidate, c \in A!Candidate : ~A!Unsound(c) /\ \E status :
        yielded' = A!Replaced(text, s.text) \o A!Replaced(s.text, c.text)
                     \o <<A!Complete(c, status)>>
  BY ConclusionHolds DEF GInv
<1>3. PICK status :
        yielded' = A!Replaced(text, s.text) \o A!Replaced(s.text, c.text)
                     \o <<A!Complete(c, status)>>
  BY <1>2
<1>4. s.text \in Seq(A!Sentence) /\ c.text \in Seq(A!Sentence) /\ c.projection \in A!Projection
  BY DEF A!Candidate
<1> DEFINE S  == {A!Restart, A!Delta(s.text), A!Delta(c.text), A!Complete(c, status)}
           r1 == A!Replaced(text, s.text)
           r2 == A!Replaced(s.text, c.text)
           r3 == <<A!Complete(c, status)>>
<1>5. r1 \in Seq(S) /\ r2 \in Seq(S) /\ r3 \in Seq(S)
  <2>1. r1 \in Seq({A!Restart, A!Delta(s.text), A!Delta(c.text)})
    BY ReplacedIsFluent
  <2>2. r2 \in Seq({A!Restart, A!Delta(c.text), A!Delta(s.text)})
    BY ReplacedIsFluent
  <2> HIDE DEF r1, r2
  <2> QED
    BY <2>1, <2>2
<1> HIDE DEF S, r1, r2, r3
<1>6. r1 \o r2 \in Seq(S) /\ (r1 \o r2) \o r3 \in Seq(S)
  BY <1>5, ConcatProperties
<1>7. yielded' = (r1 \o r2) \o r3
  BY <1>3 DEF r1, r2, r3
<1>8. ASSUME NEW v \in Turn, Reflects(v)
      PROVE  \E u \in Turn : Tells(yielded', v, u) /\ Reflects(u)'
  <2>1. /\ v = [status |-> "streaming", text |-> text, grounding |-> projection]
        /\ projection # NoEvidence
    BY <1>1, <1>8, StreamingPage DEF Reflects, GInv
  <2>2. v.text = text /\ v.status = "streaming" /\ v.grounding # NoEvidence
    BY <2>1
  <2> DEFINE a == [v EXCEPT !.text = s.text]
             b == [a EXCEPT !.text = c.text]
             u == [b EXCEPT !.status = "complete", !.grounding = c.projection]
  <2>3. a \in Turn /\ Tells(r1, v, a)
    BY <1>4, <2>2, ReplacementIsTold DEF r1
  <2>4. a.text = s.text /\ a.status = "streaming" /\ a.grounding # NoEvidence
    BY <2>2 DEF Turn
  <2> HIDE DEF a
  <2>5. b \in Turn /\ Tells(r2, a, b)
    BY <1>4, <2>3, <2>4, ReplacementIsTold DEF r2
  <2>6. b.text = c.text /\ b.status = "streaming"
    BY <2>3, <2>4 DEF Turn
  <2> HIDE DEF b
  <2>7. u \in Turn /\ Tells(r3, b, u)
    BY <1>2, <2>5, <2>6, AnswerIsTold DEF r3
  <2> HIDE DEF u
  <2>8. Tells(r1 \o r2, v, b)
    BY <1>5, <2>3, <2>5, TellsBoth
  <2>9. Tells((r1 \o r2) \o r3, v, u)
    BY <1>5, <1>6, <2>7, <2>8, TellsBoth
  <2>10. Reflects(u)'
    BY <1>1 DEF Reflects
  <2> QED
    BY <1>7, <2>7, <2>9, <2>10
<1>9. yielded' \in Seq(S)
  BY <1>6, <1>7
<1>10. /\ open /\ link = "up" => wire' = wire \o yielded'
       /\ ~(open /\ link = "up") => wire' = wire
  BY <1>1, ConcludeIsFluent, SentAsItIs
<1> QED
  BY <1>1, <1>8, <1>9, <1>10, MoreIsTold DEF GInv

LEMMA TooLongIsTold ==
  ASSUME GInv, WireStands, TooLong
  PROVE  PageIsTold'
<1>1. /\ Send(Error("context-window-exceeded", TRUE, call.delivered))
      /\ UNCHANGED <<open, link, turn>> /\ phase = "awaiting" /\ call.delivered = text
  BY DEF TooLong, A!TooLong, GInv
<1>2. CASE A!Fail
  BY <1>1, <1>2, FailureIsTold
<1>3. CASE ~A!Fail
  <2>1. /\ phase' = "awaiting" /\ text = <<>> /\ text' = <<>>
        /\ projection' \in A!Projection
        /\ yielded' = <<A!Grounding(projection')>>
    BY <1>1, <1>3 DEF TooLong, A!TooLong, A!Projections
  <2>2. Fluent
    BY <2>1, OneEventIsFluent, TypesDiffer
  <2>3. yielded' \in Seq({A!Grounding(projection')})
    BY <2>1
  <2>4. ASSUME NEW v \in Turn, Reflects(v)
        PROVE  \E u \in Turn : Tells(yielded', v, u) /\ Reflects(u)'
    <3>1. PICK p \in A!Projection : p = projection'
      BY <2>1
    <3> DEFINE u == [v EXCEPT !.grounding = p]
    <3>2. v = [status |-> "streaming", text |-> <<>>, grounding |-> projection]
      BY <1>1, <2>1, <2>4 DEF Reflects
    <3>3. u \in Turn /\ Tells(<<A!Grounding(p)>>, v, u)
      BY <3>2, EvidenceIsTold
    <3>4. u = [status |-> "streaming", text |-> <<>>, grounding |-> p]
      BY <3>2
    <3> HIDE DEF u
    <3>5. Reflects(u)'
      BY <2>1, <3>1, <3>4 DEF Reflects
    <3> QED
      BY <2>1, <3>1, <3>3, <3>5
  <2>5. /\ open /\ link = "up" => wire' = wire \o yielded'
        /\ ~(open /\ link = "up") => wire' = wire
    BY <1>1, <2>2, SentAsItIs
  <2> QED
    BY <1>1, <2>3, <2>4, <2>5, MoreIsTold DEF GInv
<1> QED
  BY <1>2, <1>3

-----------------------------------------------------------------------------
(* The page keeps the promise *)

LEMMA GrowsAtTheEnd ==
  ASSUME NEW S, NEW s \in Seq(S), NEW t \in Seq(S)
  PROVE  /\ s \o t \in Seq(S)
         /\ Len(s \o t) >= Len(s)
         /\ SubSeq(s \o t, 1, Len(s)) = s
<1>1. s \o t \in Seq(S) /\ Len(s \o t) = Len(s) + Len(t) /\ Len(s) \in Nat /\ Len(t) \in Nat
  BY ConcatProperties, LenProperties
<1>2. SubSeq(s \o t, 1, Len(s)) = SubSeq(s, 1, Len(s))
  BY <1>1, SubSeqOfConcat1
<1> QED
  BY <1>1, <1>2, SubSeqFull

\* A lawful frame is shown the way the promise allows.
LEMMA ReadingIsLawful ==
  ASSUME turn \in Turn, NEW e, NEW b \in Turn, Lawful(turn, e, b)
  PROVE  Shown(e) = b /\ (turn' = b => Promise!Next)
<1>1. Shown(e) = b
  <2>1. turn.text \in Seq(A!Sentence)
    BY DEF Turn
  <2> QED
    BY <2>1 DEF Lawful, Shown, Turn
<1>2. ASSUME turn' = b
      PROVE  Promise!Next
  <2>1. CASE e.type = "grounding"
    BY <1>2, <2>1 DEF Lawful, Turn, Promise!Next, Promise!Reveal
  <2>2. CASE e.type = "delta"
    <3>1. /\ turn.status = "streaming" /\ turn.grounding # NoEvidence /\ e.text \in Seq(A!Sentence)
          /\ turn' = [turn EXCEPT !.text = turn.text \o e.text]
      BY <1>2, <2>2 DEF Lawful
    <3>2. /\ turn'.text = turn.text \o e.text /\ turn'.status = turn.status
          /\ turn'.grounding = turn.grounding /\ turn.text \in Seq(A!Sentence)
      BY <3>1 DEF Turn
    <3>3. /\ turn.text \o e.text \in Seq(A!Sentence)
          /\ Len(turn.text \o e.text) >= Len(turn.text)
          /\ SubSeq(turn.text \o e.text, 1, Len(turn.text)) = turn.text
      BY <3>1, <3>2, GrowsAtTheEnd
    <3> QED
      BY <3>1, <3>2, <3>3 DEF Promise!Next, Promise!Say
  <2>3. CASE e.type = "restart"
    BY <1>2, <2>3 DEF Lawful, Turn, Promise!Next, Promise!Withdraw
  <2>4. CASE e.type = "complete"
    BY <1>2, <2>4 DEF Lawful, Turn, Promise!Next, Promise!Complete
  <2>5. CASE e.type = "error"
    BY <1>2, <2>5 DEF Lawful, Turn, Promise!Next, Promise!Stop
  <2> QED
    BY <2>1, <2>2, <2>3, <2>4, <2>5 DEF Lawful
<1> QED
  BY <1>1, <1>2

LEMMA AnswererTurns ==
  ASSUME [Next]_vars
  PROVE  [A!Next]_answerer
BY DEF Next, vars, A!Next, Asked, Responds, KeepAlive, Expires, Word, Done, TooLong, Breaks,
       Released, CloseNoticed, Reads, Stops, LinkBreaks, LossNoticed

\* The page's own step, and the next one it is told of.
LEMMA PageStep ==
  ASSUME GInv, WInv, [Next]_vars
  PROVE  PageIsTold' /\ turn' \in Turn /\ [Promise!Next]_Promise!vars
<1>0. WireStands /\ turn \in Turn
  BY DEF WInv, GInv
<1>1. ASSUME UNCHANGED turn, PageIsTold'
      PROVE  PageIsTold' /\ turn' \in Turn /\ [Promise!Next]_Promise!vars
  BY <1>0, <1>1 DEF Promise!vars
<1>2. CASE Asked
  BY <1>0, <1>1, <1>2, AskedIsTold DEF Asked
<1>3. CASE Responds \/ KeepAlive \/ Expires \/ CloseNoticed \/ UNCHANGED vars
  <2>1. /\ UNCHANGED <<turn, wire, link, phase, text, projection>>
        /\ open' => open
    BY <1>3 DEF Responds, KeepAlive, Expires, CloseNoticed, vars, answerer
  <2>2. PageIsTold'
    BY <2>1 DEF PageIsTold, Reflects, GInv
  <2> QED
    BY <1>1, <2>1, <2>2
<1>4. ASSUME NEW w \in A!Generated, Word(w)
      PROVE  PageIsTold' /\ turn' \in Turn /\ [Promise!Next]_Promise!vars
  BY <1>0, <1>1, <1>4, WordIsTold DEF Word
<1>5. CASE Done
  BY <1>0, <1>1, <1>5, RecoveryIsTold, ConclusionIsTold DEF Done, A!Ended
<1>6. CASE TooLong
  BY <1>0, <1>1, <1>6, TooLongIsTold DEF TooLong
<1>7. CASE Breaks
  <2>1. PICK kept \in BOOLEAN : Send(Error("provider", kept, call.delivered))
    BY <1>7 DEF Breaks
  <2>2. A!Fail /\ phase = "awaiting" /\ UNCHANGED <<open, link, turn>> /\ call.delivered = text
    BY <1>7 DEF Breaks, A!Fails, GInv
  <2>3. PageIsTold'
    BY <1>0, <2>1, <2>2, FailureIsTold
  <2> QED
    BY <1>1, <2>2, <2>3
<1>8. CASE Released
  <2>1. /\ A!Fail /\ phase = "awaiting" /\ UNCHANGED <<open, link, turn>> /\ call.delivered = text
        /\ Send(Error(O!Reported, TRUE, call.delivered))
    BY <1>8 DEF Released, A!Fails, GInv
  <2>2. PageIsTold'
    BY <1>0, <2>1, FailureIsTold
  <2> QED
    BY <1>1, <2>1, <2>2
<1>9. CASE Reads
  <2>1. /\ turn.status = "streaming" /\ wire # <<>> /\ turn' = Shown(Head(wire))
        /\ wire' = Tail(wire) /\ UNCHANGED <<phase, text, projection, open, link>>
    BY <1>9 DEF Reads, answerer
  <2>2. PICK v \in Turn : Tells(wire, turn, v) /\ (open /\ link = "up" => Reflects(v))
    BY <2>1 DEF GInv, PageIsTold
  <2>3. PICK S : wire \in Seq(S)
    BY <1>0 DEF WireStands
  <2>4. PICK b \in Turn : Lawful(turn, Head(wire), b) /\ Tells(Tail(wire), b, v)
    BY <2>1, <2>2, <2>3, TellsFirst
  <2>5. turn' = b /\ Promise!Next
    BY <1>0, <2>1, <2>4, ReadingIsLawful
  <2>6. PageIsTold'
    BY <2>1, <2>2, <2>4, <2>5 DEF PageIsTold, Reflects
  <2> QED
    BY <2>5, <2>6
<1>10. CASE Stops \/ LossNoticed
  <2>1. /\ turn.status = "streaming"
        /\ turn' = [turn EXCEPT !.status = "cancelled"] \/ turn' = [turn EXCEPT !.status = "failed"]
    BY <1>10 DEF Stops, LossNoticed
  <2>2. turn' \in Turn /\ turn'.status \in {"failed", "cancelled"}
        /\ turn'.text = turn.text /\ turn'.grounding = turn.grounding
    BY <1>0, <2>1 DEF Turn
  <2>3. PageIsTold'
    BY <2>2 DEF PageIsTold
  <2>4. Promise!Stop
    BY <2>1, <2>2 DEF Promise!Stop
  <2> QED
    BY <2>2, <2>3, <2>4 DEF Promise!Next
<1>11. CASE LinkBreaks
  <2>1. /\ link' = "cut" /\ UNCHANGED turn
        /\ \E n \in 0 .. Len(wire) : wire' = SubSeq(wire, 1, n)
    BY <1>11 DEF LinkBreaks
  <2>2. ASSUME turn.status = "streaming"
        PROVE  \E b \in Turn : Tells(wire', turn, b)
    <3>1. PICK v \in Turn : Tells(wire, turn, v)
      BY <2>2 DEF GInv, PageIsTold
    <3>2. PICK S : wire \in Seq(S)
      BY <1>0 DEF WireStands
    <3> QED
      BY <2>1, <3>1, <3>2, TellsBeginning
  <2>3. PageIsTold'
    BY <2>1, <2>2 DEF PageIsTold
  <2> QED
    BY <1>1, <2>1, <2>3
<1> QED
  BY <1>2, <1>3, <1>4, <1>5, <1>6, <1>7, <1>8, <1>9, <1>10, <1>11 DEF Next

\* The provider has counted what the answerer has.
LEMMA CountsAgree ==
  ASSUME GInv, WInv, [Next]_vars
  PROVE  /\ phase' = "idle" => text' = <<>>
         /\ phase' = "awaiting" => call'.delivered = text'
<1>1. call \in O!Call
  BY DEF WInv, IInv
<1>2. CASE Asked \/ Done \/ TooLong \/ Breaks \/ Released
  <2>1. phase' # "idle" /\ NextCall
    BY <1>2 DEF Asked, Done, TooLong, Breaks, Released, A!Ask, A!Ended, A!Recover, A!Conclude,
                A!TooLong, A!Fails, A!Fail
  <2>2. phase' = "awaiting" => text' = <<>>
    BY <1>2 DEF GInv, Asked, Done, TooLong, Breaks, Released, A!Ask, A!Ended, A!Recover, A!Conclude,
                A!TooLong, A!Fails, A!Fail
  <2> QED
    BY <2>1, <2>2 DEF NextCall, O!Posted, O!NoCall
<1>3. ASSUME NEW w \in A!Generated, Word(w)
      PROVE  /\ phase' = "idle" => text' = <<>>
             /\ phase' = "awaiting" => call'.delivered = text'
  <2>1. /\ phase' = "awaiting" /\ phase = "awaiting" /\ text' = Append(text, w)
        /\ call' = [call EXCEPT !.limit = IF call.delivered = <<>> THEN "first" ELSE "idle",
                                !.delivered = Append(call.delivered, w)]
    BY <1>1, <1>3 DEF Word, A!Says, O!Line, O!Rearmed, O!Call
  <2>2. call'.delivered = Append(call.delivered, w)
    BY <1>1, <2>1 DEF O!Call
  <2> QED
    BY <2>1, <2>2 DEF GInv
<1>4. CASE Responds \/ KeepAlive \/ Expires \/ CloseNoticed
  <2>1. UNCHANGED <<phase, text>> /\ call'.delivered = call.delivered
    BY <1>1, <1>4 DEF Responds, KeepAlive, Expires, CloseNoticed, answerer, O!Responds, O!KeepAlive,
                      O!Rearmed, O!Expires, O!Aborted, O!Call
  <2> QED
    BY <2>1 DEF GInv
<1>5. CASE Reads \/ Stops \/ LinkBreaks \/ LossNoticed \/ UNCHANGED vars
  BY <1>5 DEF GInv, Reads, Stops, LinkBreaks, LossNoticed, vars, answerer
<1> QED
  BY <1>2, <1>3, <1>4, <1>5 DEF Next

LEMMA PromiseStep ==
  ASSUME GInv, WInv, [Next]_vars
  PROVE  GInv' /\ [Promise!Next]_Promise!vars
<1>1. A!TypeOK'
  BY AnswererTurns, TypesKept DEF GInv
<1> QED
  BY <1>1, PageStep, CountsAgree DEF GInv

LEMMA PromiseStart ==
  Init => GInv
<1> SUFFICES ASSUME Init
             PROVE  GInv
  OBVIOUS
<1>1. A!TypeOK
  <2>1. 1 \in A!Tiers /\ <<>> \in Seq(A!Sentence)
    BY AnswererAssumption, EmptySeq DEF A!TierAssumption, A!Tiers
  <2> QED
    BY <2>1 DEF Init, A!Init, A!TypeOK, A!None, A!Candidate, A!Projection
<1>2. turn \in Turn
  BY EmptySeq DEF Init, Turn
<1>3. PageIsTold
  <2>1. Tells(wire, turn, turn)
    BY <1>2, TellsNothing DEF Init
  <2>2. Reflects(turn)
    BY DEF Init, A!Init, Reflects
  <2> QED
    BY <1>2, <2>1, <2>2 DEF PageIsTold
<1> QED
  BY <1>1, <1>2, <1>3 DEF GInv, Init, A!Init

\* The page keeps the promise of an answer, whatever the model generates, the daemon and the
\* connection do and wherever the reader leaves: evidence before prose and never exchanged
\* under it, rejected prose withdrawn, and a complete answer that is the text on screen.
THEOREM PageKeepsThePromise == Spec => ImplementsGroundedAnswer
<1>1. Init => Promise!Init
  BY DEF Init, Promise!Init
<1>2. Init => GInv
  BY PromiseStart
<1>3. GInv /\ WInv /\ [Next]_vars => GInv' /\ [Promise!Next]_Promise!vars
  BY PromiseStep
<1>4. Spec => []WInv
  BY WireStart, WireStep, PTL DEF Spec
<1> QED
  BY <1>1, <1>2, <1>3, <1>4, PTL DEF Spec, ImplementsGroundedAnswer, Promise!Spec

-----------------------------------------------------------------------------
(* Least numbers, and the first few of some *)

\* A set of numbers that has a member has a least one.
LEMMA LeastIsThere ==
  ASSUME NEW S, S \subseteq Nat, S # {}
  PROVE  Min(S) \in S /\ \A n \in S : Min(S) <= n
<1> DEFINE Less == {p \in Nat \X Nat : p[1] < p[2]}
<1>1. Less = OpToRel(<, Nat)
  BY DEF OpToRel
<1>2. IsWellFoundedOn(Less, Nat)
  BY <1>1, NatLessThanWellFounded
<1> HIDE DEF Less
<1>3. \E x \in S : \A y \in S : <<y, x>> \notin Less
  BY <1>2, WFMin
<1>4. \A x, y \in S : <<y, x>> \notin Less => x <= y
  BY DEF Less
<1>5. \E x \in S : \A y \in S : x <= y
  BY <1>3, <1>4
<1>6. QED BY <1>5 DEF Min

\* What is least is the least.
LEMMA LeastIsUnique ==
  ASSUME NEW S, S \subseteq Nat, NEW m \in S, \A n \in S : m <= n
  PROVE  Min(S) = m
<1>1. Min(S) \in S /\ \A n \in S : Min(S) <= n
  BY LeastIsThere
<1>2. Min(S) \in Nat /\ m \in Nat /\ Min(S) <= m /\ m <= Min(S)
  BY <1>1
<1>3. QED BY <1>2

\* A part of a number is no more than the number.
LEMMA Quotient ==
  ASSUME NEW x \in Nat, NEW c \in Nat \ {0}
  PROVE  x \div c \in Nat /\ x \div c <= x
  OBVIOUS

\* The first n of some places come before the others; they are all there are or n at least.
LEMMA FirstFew ==
  ASSUME NEW S, S \subseteq Nat, IsFiniteSet(S), NEW n \in Nat
  PROVE  /\ Capped(S, n) \subseteq S /\ IsFiniteSet(Capped(S, n))
         /\ \A i \in Capped(S, n), j \in S : j < i => j \in Capped(S, n)
         /\ Capped(S, n) = S \/ Cardinality(Capped(S, n)) >= n
         /\ n > 0 /\ S # {} => Capped(S, n) # {}
<1> DEFINE below(i) == {j \in S : j < i}
           few      == Capped(S, n)
<1>1. few = {i \in S : Cardinality(below(i)) < n}
  BY DEF Capped
<1>2. \A i : IsFiniteSet(below(i)) /\ Cardinality(below(i)) \in Nat
  <2> SUFFICES ASSUME NEW i PROVE IsFiniteSet(below(i)) /\ Cardinality(below(i)) \in Nat
    OBVIOUS
  <2>1. IsFiniteSet(below(i))
    BY FS_Subset
  <2>2. QED BY <2>1, FS_CardinalityType
<1>3. few \subseteq S /\ IsFiniteSet(few)
  BY <1>1, FS_Subset
<1>4. ASSUME NEW i \in few, NEW j \in S, j < i PROVE j \in few
  <2>1. below(j) \subseteq below(i)
    <3> SUFFICES ASSUME NEW h \in S, h < j PROVE h < i
      OBVIOUS
    <3>1. i \in Nat /\ j \in Nat /\ h \in Nat
      BY <1>3
    <3>2. QED BY <1>4, <3>1
  <2>2. Cardinality(below(j)) <= Cardinality(below(i))
    BY <1>2, <2>1, FS_Subset
  <2>3. Cardinality(below(i)) < n
    BY <1>1
  <2>4. Cardinality(below(j)) < n
    BY <1>2, <2>2, <2>3
  <2>5. QED BY <1>1, <2>4
<1>5. ASSUME few # S PROVE Cardinality(few) >= n
  <2>1. S \ few # {} /\ S \ few \subseteq Nat
    BY <1>3, <1>5
  <2>2. PICK k \in S \ few : \A i \in S \ few : k <= i
    BY <2>1, LeastIsThere
  <2>3. below(k) \subseteq few
    <3> SUFFICES ASSUME NEW h \in S, h < k, h \notin few PROVE FALSE
      OBVIOUS
    <3>1. k <= h /\ h \in Nat /\ k \in Nat
      BY <2>2
    <3>2. QED BY <3>1
  <2>4. Cardinality(below(k)) <= Cardinality(few)
    BY <1>3, <2>3, FS_Subset
  <2>5. Cardinality(below(k)) >= n
    BY <1>1, <1>2, <2>2
  <2>6. Cardinality(few) \in Nat
    BY <1>3, FS_CardinalityType
  <2>7. QED BY <1>2, <2>4, <2>5, <2>6
<1>6. ASSUME n > 0, S # {} PROVE few # {}
  <2>1. Cardinality({}) = 0
    BY FS_EmptySet
  <2>2. CASE few = S
    BY <1>6, <2>2
  <2>3. CASE few # S
    BY <1>5, <1>6, <2>1, <2>3
  <2>4. QED BY <2>2, <2>3
<1>7. QED BY <1>3, <1>4, <1>5, <1>6

-----------------------------------------------------------------------------
(* The invariant *)

Shape ==
  /\ context \in Contexts /\ question \in Questions
  /\ spent \in Nat /\ spent <= Budget
  /\ tally \in [Parts -> [kept : Nat, total : Int]]
  /\ pass = [name |-> pass.name, left |-> pass.left, order |-> pass.order,
             ceiling |-> pass.ceiling, share |-> pass.share, used |-> pass.used]
  /\ pass.left \subseteq Parts
  /\ \A p \in pass.left : pass.order[p] \in Nat
  /\ pass.ceiling \in Int /\ pass.ceiling <= Budget
  /\ pass.used \in [Groups -> Nat] /\ \A g \in Groups : pass.used[g] <= spent
  /\ hand = [part |-> hand.part, drafts |-> hand.drafts, ceiling |-> hand.ceiling,
             room |-> hand.room]

\* The extractor in hand says its first unsaid drafts first, under a ceiling of the budget.
InOrder ==
  hand.drafts # {} =>
    /\ hand.part \in Parts /\ hand.drafts \subseteq Unsaid(hand.part)
    /\ hand.ceiling \in Int /\ hand.ceiling <= Budget
    /\ \A i \in hand.drafts, j \in Unsaid(hand.part) : j < i => j \in hand.drafts

\* Nothing but the budget can refuse what it says.
Unhindered == hand.drafts # {} /\ hand.ceiling = Budget /\ hand.room = NoLimit

Heard(p) == tally[p].kept > 0 \/ Unsaid(p) = {} \/ TooDear(p)

\* No family is passed over in the first round of the floor, and none is forgotten after it.
FloorInv ==
  /\ pass.name = "coverage" =>
       \A p \in Families : Heard(p) \/ p \in pass.left \/ (hand.part = p /\ Unhindered)
  /\ pass.name \in {"depth", "supplement", "sweep", "done"} => \A p \in Families : Heard(p)

Dear       == \E p \in Parts : TooDear(p)
Settled(p) == Unsaid(p) = {} \/ tally[p].kept >= Cap[p] \/ SupportCap(p) = 0

\* Once these are said the part has said everything, or as much as it may.
Enough(p, drafts) ==
  \/ drafts = Unsaid(p)
  \/ tally[p].kept + Cardinality(drafts) >= Cap[p]
  \/ IsSupporting(p) /\ tally[p].kept + Cardinality(drafts) >= SupportingCap

\* The last pass that offers everything, which no share holds back.
Freely == pass.name = "sweep" \/ (pass.name = "supplement" /\ ~question.allocated)

BudgetInv ==
  /\ Freely /\ hand.drafts # {} => Unhindered
  /\ Freely => \/ Dear
               \/ \A p \in Parts : \/ p \in pass.left \/ Settled(p)
                                   \/ hand.part = p /\ Unhindered /\ Enough(p, hand.drafts)
  /\ pass.name = "done" => Dear \/ \A p \in Parts : Settled(p)

ProjectInv == Shape /\ InOrder /\ FloorInv /\ BudgetInv

-----------------------------------------------------------------------------
(* What the definitions give *)

\* The offers and the question are what they are assumed to be.
LEMMA Given ==
  ASSUME Shape
  PROVE  /\ Budget \in Nat /\ Budget > 0 /\ Budget <= Tier
         /\ \A p \in Parts : context.offers[p] \in Seq(Drafted) /\ IsInjective(context.offers[p])
         /\ question.recovery \in Seq(Parts) /\ question.parts \in Seq(Parts)
         /\ question.policy \in Seq(Parts)
<1>1. /\ question.reserved \in 0 .. Tier - 1 /\ Tier \in Nat
      /\ {question.recovery, question.parts, question.policy} \subseteq Seq(Parts)
  BY ProjectionAssumption DEF Shape
<1>2. \A p \in Parts : context.offers[p] \in Seq(Drafted) /\ IsInjective(context.offers[p])
  BY ProjectionAssumption DEF Shape
<1>3. QED BY <1>1, <1>2 DEF Budget

\* Some places of an offer have a first, and a fact at it that costs something.
LEMMA FirstIsThere ==
  ASSUME Shape, NEW p \in Parts, NEW some \in SUBSET (DOMAIN context.offers[p]), some # {}
  PROVE  /\ some \subseteq Nat /\ Min(some) \in some /\ \A i \in some : Min(some) <= i
         /\ First(p, some) \in Drafted /\ Cost[First(p, some)] \in Nat \ {0}
<1>1. context.offers[p] \in Seq(Drafted)
  BY Given
<1>2. DOMAIN context.offers[p] = 1 .. Len(context.offers[p])
  BY <1>1
<1>3. some \subseteq Nat
  BY <1>2
<1>4. Min(some) \in some /\ \A i \in some : Min(some) <= i
  BY <1>3, LeastIsThere
<1>5. First(p, some) \in Drafted
  BY <1>1, <1>2, <1>4 DEF First
<1>6. QED BY <1>3, <1>4, <1>5, ProjectionAssumption

\* What an extractor has not said is a finite set of places.
LEMMA UnsaidIsFinite ==
  ASSUME Shape, NEW p \in Parts
  PROVE  /\ Unsaid(p) \subseteq DOMAIN context.offers[p]
         /\ Unsaid(p) \subseteq Nat /\ IsFiniteSet(Unsaid(p))
<1>1. context.offers[p] \in Seq(Drafted)
  BY Given
<1>2. DOMAIN context.offers[p] = 1 .. Len(context.offers[p]) /\ Len(context.offers[p]) \in Nat
  BY <1>1
<1>3. Unsaid(p) \subseteq DOMAIN context.offers[p]
  BY DEF Unsaid
<1>4. IsFiniteSet(1 .. Len(context.offers[p]))
  BY <1>2, FS_Interval
<1>5. QED BY <1>2, <1>3, <1>4, FS_Subset

\* As long as a pass has parts left it is one of them that has its turn.
LEMMA TurnIsLeft ==
  ASSUME Shape, pass.left # {}
  PROVE  Served \in pass.left /\ Served \in Parts
<1> DEFINE places == {pass.order[p] : p \in pass.left}
<1>1. places \subseteq Nat /\ places # {}
  BY DEF Shape
<1>2. Min(places) \in places /\ \A n \in places : Min(places) <= n
  BY <1>1, LeastIsThere
<1>3. PICK p \in pass.left : pass.order[p] = Min(places)
  BY <1>2
<1>4. \A q \in pass.left : pass.order[p] <= pass.order[q]
  BY <1>2, <1>3
<1>5. Served \in pass.left
  BY <1>4 DEF Served, Foremost
<1>6. QED BY <1>5 DEF Shape

\* There are as many parts as extractors.
LEMMA PartsAreFinite == IsFiniteSet(Parts)
<1>1. \A p \in Parts : \E n \in 1 .. Len(Declared) : Declared[n] = p
  BY ProjectionAssumption DEF Parts, ToSet
<1>2. QED BY <1>1, ProjectionAssumption DEF IsFiniteSet

\* Sorting parts gives each a place.
LEMMA OrdersArePlaces ==
  ASSUME Shape
  PROVE  /\ ShapedFor \in [Parts -> Nat] /\ OrderedFor \in [Parts -> Nat]
         /\ Priority \in [Families -> Nat] /\ Families \subseteq Parts
<1>2. \A S \in SUBSET Parts : Cardinality(S) \in Nat
  BY PartsAreFinite, FS_Subset, FS_CardinalityType
<1>3. ASSUME NEW order, NEW wanted, NEW pin PROVE Reordered(order, wanted, pin) \in [Parts -> Nat]
  BY <1>2 DEF Reordered
<1>4. Requested \in Seq(Parts)
  BY Given DEF Requested
<1>5. Families \subseteq Parts
  BY <1>4 DEF Families, ToSet
<1>6. ASSUME NEW p \in Families PROVE Place(Requested, p) \in Nat
  <2> DEFINE at == {i \in DOMAIN Requested : Requested[i] = p}
  <2>1. at # {}
    BY DEF Families, ToSet
  <2>2. DOMAIN Requested \subseteq Nat
    BY <1>4
  <2>3. QED BY <2>1, <2>2, LeastIsThere DEF Place
<1>7. QED BY <1>3, <1>5, <1>6 DEF ShapedFor, OrderedFor, Priority

-----------------------------------------------------------------------------
(* Steps *)

\* What a part has not said and what it may say depends on the facts and the tally.
LEMMA SameFacts ==
  ASSUME UNCHANGED <<context, question, facts, spent>>, NEW p \in Parts,
         tally'[p].kept = tally[p].kept
  PROVE  /\ Unsaid(p)' = Unsaid(p) /\ TooDear(p)' = TooDear(p)
         /\ Heard(p)' = Heard(p) /\ Settled(p)' = Settled(p)
         /\ \A drafts : Enough(p, drafts)' = Enough(p, drafts)
<1>1. Unsaid(p)' = Unsaid(p)
  BY DEF Unsaid
<1>2. TooDear(p)' = TooDear(p)
  BY <1>1 DEF TooDear, First, Budget
<1>3. QED
  BY <1>1, <1>2 DEF Heard, Settled, Enough, SupportCap, UpTo, Already, IsSupporting

\* Taking an extractor in hand.
LEMMA TakesStep ==
  ASSUME Shape, hand.drafts = {}, pass.left # {}, NEW most \in Nat, NEW ceiling \in Int,
         NEW space, ceiling <= Budget, Takes(most, ceiling, space)
  PROVE  /\ Shape' /\ InOrder'
         /\ \A p \in Parts : tally'[p].kept = tally[p].kept
         /\ pass'.name = pass.name /\ pass'.left = pass.left \ {Served}
         /\ hand' = [part |-> Served, drafts |-> Capped(Unsaid(Served), most),
                     ceiling |-> ceiling, room |-> space]
<1>1. Served \in pass.left /\ Served \in Parts
  BY TurnIsLeft
<1>2. UNCHANGED <<context, question, facts, spent>>
  BY DEF Takes
<1>3. /\ Unsaid(Served) \subseteq Nat /\ IsFiniteSet(Unsaid(Served))
      /\ Cardinality(Unsaid(Served)) \in Nat
  BY <1>1, UnsaidIsFinite, FS_CardinalityType
<1>4. /\ tally' \in [Parts -> [kept : Nat, total : Int]]
      /\ \A p \in Parts : tally'[p].kept = tally[p].kept
  <2>1. tally \in [Parts -> [kept : Nat, total : Int]]
    BY DEF Shape
  <2> DEFINE offered == Max({tally[Served].total, Already(Served) + Cardinality(Unsaid(Served))})
  <2>2. offered \in Int
    <3>1. \A a, b \in Int : Max({a, b}) \in Int
      BY DEF Max
    <3>2. tally[Served].total \in Int /\ Already(Served) \in Nat
      BY <1>1, <2>1 DEF Already
    <3>3. QED BY <1>3, <3>1, <3>2
  <2>3. tally' = [tally EXCEPT ![Served].total = offered]
    BY DEF Takes
  <2> HIDE DEF offered
  <2>4. QED BY <1>1, <2>1, <2>2, <2>3
<1>5. /\ pass' = [pass EXCEPT !.left = pass.left \ {Served}]
      /\ pass'.name = pass.name /\ pass'.left = pass.left \ {Served}
      /\ pass'.order = pass.order /\ pass'.ceiling = pass.ceiling /\ pass'.used = pass.used
      /\ pass' = [name |-> pass'.name, left |-> pass'.left, order |-> pass'.order,
                  ceiling |-> pass'.ceiling, share |-> pass'.share, used |-> pass'.used]
  BY DEF Takes, PassedOver, Shape
<1>6. hand' = [part |-> Served, drafts |-> Capped(Unsaid(Served), most),
               ceiling |-> ceiling, room |-> space]
  BY DEF Takes
<1>7. Shape'
  BY <1>2, <1>4, <1>5, <1>6 DEF Shape, Budget
<1>8. InOrder'
  <2>2. PICK t : t = Served
    OBVIOUS
  <2>3. t \in Parts /\ hand'.part = t /\ hand'.drafts = Capped(Unsaid(t), most)
    BY <1>1, <1>6, <2>2
  <2>4. Unsaid(t)' = Unsaid(t)
    BY <1>2 DEF Unsaid
  <2>5. /\ Capped(Unsaid(t), most) \subseteq Unsaid(t)
        /\ \A i \in Capped(Unsaid(t), most), j \in Unsaid(t) :
             j < i => j \in Capped(Unsaid(t), most)
    BY <1>3, <2>2, FirstFew
  <2>6. hand'.ceiling = ceiling /\ Budget' = Budget
    BY <1>2, <1>6 DEF Budget
  <2>7. QED BY <2>3, <2>4, <2>5, <2>6 DEF InOrder
<1>9. QED BY <1>4, <1>5, <1>6, <1>7, <1>8

\* An extractor nothing but the budget hinders, once what is in hand is said, has said enough.
LEMMA EnoughIsSettled == Shape => \A p \in Parts : Enough(p, {}) => Settled(p)
<1> SUFFICES ASSUME Shape, NEW p \in Parts, Enough(p, {}) PROVE Settled(p)
  OBVIOUS
<1>1. tally[p].kept \in Nat /\ Cardinality({}) = 0 /\ Cap[p] \in Nat /\ SupportingCap \in Nat
  BY FS_EmptySet, ProjectionAssumption DEF Shape
<1>2. CASE {} = Unsaid(p)
  BY <1>2 DEF Settled
<1>3. CASE tally[p].kept + Cardinality({}) >= Cap[p]
  BY <1>1, <1>3 DEF Settled
<1>4. CASE IsSupporting(p) /\ tally[p].kept + Cardinality({}) >= SupportingCap
  <2>1. UpTo(SupportingCap, p) = 0
    BY <1>1, <1>4 DEF UpTo, AtLeastZero, Already
  <2>2. Cap[p] > 0
    BY ProjectionAssumption
  <2>3. SupportCap(p) = 0
    BY <1>1, <1>4, <2>1, <2>2 DEF SupportCap, Lesser
  <2>4. QED BY <2>3 DEF Settled
<1>5. QED BY <1>2, <1>3, <1>4 DEF Enough

\* What an unlimited pass takes in hand is enough.
LEMMA SupportedIsEnough ==
  ASSUME Shape, NEW p \in Parts
  PROVE  SupportCap(p) \in Nat /\ Enough(p, Capped(Unsaid(p), SupportCap(p)))
<1> DEFINE few == Capped(Unsaid(p), SupportCap(p))
<1>1. tally[p].kept \in Nat /\ Cap[p] \in Nat /\ SupportingCap \in Nat
  BY ProjectionAssumption DEF Shape
<1>2. UpTo(SupportingCap, p) \in Nat /\ UpTo(SupportingCap, p) >= SupportingCap - tally[p].kept
  BY <1>1 DEF UpTo, AtLeastZero, Already
<1>3. /\ SupportCap(p) \in Nat
      /\ SupportCap(p) = Cap[p] \/ (IsSupporting(p) /\ SupportCap(p) = UpTo(SupportingCap, p))
  BY <1>1, <1>2 DEF SupportCap, Lesser
<1>4. few = Unsaid(p) \/ Cardinality(few) >= SupportCap(p)
  BY <1>3, UnsaidIsFinite, FirstFew
<1>5. Cardinality(few) \in Nat
  BY <1>3, UnsaidIsFinite, FirstFew, FS_CardinalityType
<1> HIDE DEF few
<1>6. QED BY <1>1, <1>2, <1>3, <1>4, <1>5 DEF Enough, few

\* A pass with parts left and no extractor in hand takes one; every family stays heard.
LEMMA TurnStep ==
  ASSUME ProjectInv, Core \/ Coverage \/ Depth \/ Supplement \/ Sweep
  PROVE  ProjectInv'
<1>1. Shape /\ hand.drafts = {} /\ pass.left # {} /\ Served \in pass.left /\ Served \in Parts
  BY TurnIsLeft DEF ProjectInv, Core, Coverage, Depth, Supplement, Sweep, At
<1>2. PICK t : t = Served
  OBVIOUS
<1>3. /\ t \in Parts /\ Cap[t] \in Nat \ {0} /\ CoreCap[t] \in Nat \ {0}
      /\ tally[t].kept \in Nat /\ spent \in Nat /\ Budget \in Nat /\ spent <= Budget
  BY <1>1, <1>2, ProjectionAssumption, Given DEF Shape
<1>4. \A n \in Nat : Lesser(Cap[t], UpTo(n, t)) \in Nat
  BY <1>3 DEF Lesser, UpTo, AtLeastZero, Already
<1>5. /\ UNCHANGED <<context, question, facts, spent>>
      /\ pass'.name = pass.name /\ pass'.left = pass.left \ {t}
      /\ Shape' /\ InOrder' /\ \A p \in Parts : tally'[p].kept = tally[p].kept
      /\ Coverage => hand' = [part |-> t, ceiling |-> Budget, room |-> NoLimit,
                        drafts |-> Capped(Unsaid(t), Lesser(Cap[t], UpTo(1, t)))]
      /\ Freely => hand' = [part |-> t, ceiling |-> Budget, room |-> NoLimit,
                            drafts |-> Capped(Unsaid(t), SupportCap(t))]
  <2>1. CASE Core
    <3>1. CoreCeiling \in Int /\ CoreCeiling <= Budget
      <4>1. question.coreReserved \in Nat /\ Tier \in Nat
        BY ProjectionAssumption DEF Shape, ProjectInv
      <4> DEFINE guidance == IF question.coreReserved = 0 THEN 0 ELSE Percent(13, Tier)
                 share    == Percent(60, Tier - question.coreReserved - guidance)
      <4>2. guidance \in Int
        BY <4>1 DEF Percent
      <4> HIDE DEF guidance
      <4>3. share \in Int
        BY <4>1, <4>2 DEF Percent
      <4>4. CoreCeiling = AtLeastZero(Lesser(share, Budget))
        BY DEF CoreCeiling, guidance
      <4> HIDE DEF share
      <4>5. QED BY <1>3, <4>3, <4>4 DEF AtLeastZero, Lesser
    <3>2. Takes(CoreCap[t], CoreCeiling, NoLimit) /\ pass.name = "core"
      BY <1>2, <2>1 DEF Core, At
    <3>3. ~Coverage /\ ~Freely
      BY <3>2 DEF Coverage, At, Freely
    <3>4. QED BY <1>1, <1>2, <1>3, <3>1, <3>2, <3>3, TakesStep DEF Takes
  <2>2. CASE Coverage
    <3>1. /\ Takes(Lesser(Cap[t], UpTo(1, t)), Budget, NoLimit) /\ pass.name = "coverage"
      BY <1>2, <2>2 DEF Coverage, At, CoverageCeiling
    <3>2. ~Freely
      BY <3>1 DEF Freely
    <3>3. QED BY <1>1, <1>2, <1>3, <1>4, <3>1, <3>2, TakesStep DEF Takes
  <2>3. CASE Depth
    <3> DEFINE space == AtLeastZero(pass.ceiling - spent) \div Cardinality(pass.left)
    <3>1. pass.name = "depth" /\ ~Coverage /\ ~Freely
      BY <2>3 DEF Depth, Coverage, At, Freely
    <3>2. CASE space = 0
      <4>1. /\ pass' = [pass EXCEPT !.left = pass.left \ {t}]
            /\ UNCHANGED <<context, question, facts, spent, tally, hand>>
        BY <1>2, <2>3, <3>2 DEF Depth, PassedOver
      <4>2. Shape'
        BY <1>1, <4>1 DEF Shape, Budget
      <4>3. InOrder'
        BY <1>1, <4>1 DEF InOrder
      <4>4. QED BY <1>1, <3>1, <4>1, <4>2, <4>3 DEF Shape
    <3>3. CASE space # 0
      <4>1. DepthOf(t) \in Nat
        BY ProjectionAssumption DEF DepthOf
      <4>2. Takes(Lesser(Cap[t], UpTo(DepthOf(t), t)), spent + space, NoLimit)
        BY <1>2, <2>3, <3>3 DEF Depth
      <4>3. spent + space \in Int /\ spent + space <= Budget
        <5>1. pass.ceiling \in Int /\ pass.ceiling <= Budget
          BY <1>1 DEF Shape
        <5>2. Cardinality(pass.left) \in Nat \ {0}
          <6>1. IsFiniteSet(pass.left)
            BY <1>1, PartsAreFinite, FS_Subset DEF Shape
          <6>2. QED BY <1>1, <6>1, FS_CardinalityType, FS_EmptySet
        <5>3. AtLeastZero(pass.ceiling - spent) \in Nat
          BY <1>3, <5>1 DEF AtLeastZero
        <5>4. space \in Nat /\ space <= AtLeastZero(pass.ceiling - spent)
          BY <5>2, <5>3, Quotient
        <5> HIDE DEF space
        <5>5. QED BY <1>3, <3>3, <5>1, <5>4 DEF AtLeastZero
      <4> HIDE DEF space
      <4>4. QED BY <1>1, <1>2, <1>3, <1>4, <3>1, <4>1, <4>2, <4>3, TakesStep DEF Takes
    <3>4. QED BY <3>2, <3>3
  <2>4. CASE Supplement
    <3>1. /\ Takes(SupportCap(t), Budget, Share(t)) /\ pass.name = "supplement"
      BY <1>2, <2>4 DEF Supplement, At
    <3>2. ~Coverage /\ (Freely => Share(t) = NoLimit)
      BY <3>1 DEF Coverage, At, Freely, Share
    <3>3. QED BY <1>1, <1>2, <1>3, <3>1, <3>2, SupportedIsEnough, TakesStep DEF Takes
  <2>5. CASE Sweep
    <3>1. /\ Takes(SupportCap(t), Budget, NoLimit) /\ pass.name = "sweep"
      BY <1>2, <2>5 DEF Sweep, At
    <3>2. ~Coverage
      BY <3>1 DEF Coverage, At
    <3>3. QED BY <1>1, <1>2, <1>3, <3>1, <3>2, SupportedIsEnough, TakesStep DEF Takes
  <2>6. QED BY <2>1, <2>2, <2>3, <2>4, <2>5
<1>6. \A p \in Parts : /\ Heard(p)' = Heard(p) /\ Settled(p)' = Settled(p)
                       /\ Unsaid(p)' = Unsaid(p) /\ TooDear(p)' = TooDear(p)
                       /\ \A drafts : Enough(p, drafts)' = Enough(p, drafts)
  BY <1>5, SameFacts
<1>7. Families' = Families /\ Families \subseteq Parts /\ Budget' = Budget
  BY <1>1, <1>5, OrdersArePlaces DEF Families, Requested, Budget
<1>8. FloorInv'
  <2>1. CASE pass.name = "coverage"
    <3> SUFFICES ASSUME NEW p \in Families
                 PROVE  Heard(p) \/ p \in pass'.left \/ (hand'.part = p /\ Unhindered')
      BY <1>5, <1>6, <1>7, <2>1 DEF FloorInv
    <3>1. Heard(p) \/ p \in pass.left
      BY <1>1, <2>1 DEF ProjectInv, FloorInv, Unhindered
    <3>2. CASE p # t
      BY <1>5, <3>1, <3>2
    <3>3. CASE p = t
      <4>1. Coverage
        BY <2>1 DEF Core, Coverage, Depth, Supplement, Sweep, At
      <4>2. CASE tally[t].kept > 0
        BY <3>3, <4>2 DEF Heard
      <4>3. CASE tally[t].kept = 0 /\ Unsaid(t) # {}
        <5>1. Lesser(Cap[t], UpTo(1, t)) = 1
          BY <1>3, <4>3 DEF Lesser, UpTo, AtLeastZero, Already
        <5>2. Capped(Unsaid(t), 1) # {}
          <6>1. Unsaid(t) \subseteq Nat /\ IsFiniteSet(Unsaid(t))
            BY <1>1, <1>3, UnsaidIsFinite
          <6>2. 1 \in Nat /\ 1 > 0
            OBVIOUS
          <6>3. QED BY <4>3, <6>1, <6>2, FirstFew
        <5>3. /\ hand'.part = t /\ hand'.drafts = Capped(Unsaid(t), 1)
              /\ hand'.ceiling = Budget /\ hand'.room = NoLimit
          BY <1>5, <4>1, <5>1
        <5>4. QED BY <1>7, <3>3, <5>2, <5>3 DEF Unhindered, NoLimit
      <4>4. CASE Unsaid(t) = {}
        BY <3>3, <4>4 DEF Heard
      <4>5. QED BY <1>3, <4>2, <4>3, <4>4
    <3>4. QED BY <3>2, <3>3
  <2>2. CASE pass.name # "coverage"
    BY <1>5, <1>6, <1>7, <2>2 DEF ProjectInv, FloorInv
  <2>3. QED BY <2>1, <2>2
<1>9. BudgetInv'
  <2>1. pass.name # "done" /\ Freely' = Freely
    BY <1>5 DEF Core, Coverage, Depth, Supplement, Sweep, At, Freely
  <2>2. Dear' = Dear
    BY <1>6 DEF Dear
  <2>h. Freely /\ hand'.drafts # {} => Unhindered'
    BY <1>5, <1>7 DEF Unhindered, NoLimit
  <2> SUFFICES ASSUME Freely, ~Dear, NEW p \in Parts
               PROVE  \/ p \in pass'.left \/ Settled(p)
                      \/ hand'.part = p /\ Unhindered' /\ Enough(p, hand'.drafts)
    <3>1. Parts' = Parts
      BY DEF Parts
    <3> HIDE DEF Parts
    <3>2. \A p \in Parts : Enough(p, hand.drafts)' <=> Enough(p, hand'.drafts)
      BY <1>5 DEF Enough, Unsaid, IsSupporting
    <3>3. QED BY <1>5, <1>6, <2>h, <2>1, <2>2, <3>1, <3>2 DEF BudgetInv
  <2>3. p \in pass.left \/ Settled(p)
    BY <1>1 DEF ProjectInv, BudgetInv, Unhindered
  <2>4. CASE p # t
    BY <1>5, <2>3, <2>4
  <2>5. CASE p = t
    <3>1. /\ hand'.part = t /\ hand'.drafts = Capped(Unsaid(t), SupportCap(t))
          /\ hand'.ceiling = Budget /\ hand'.room = NoLimit
      BY <1>5
    <3>2. Enough(t, Capped(Unsaid(t), SupportCap(t)))
      BY <1>1, <1>3, SupportedIsEnough
    <3>3. CASE hand'.drafts = {}
      BY <1>1, <1>3, <2>5, <3>1, <3>2, <3>3, EnoughIsSettled
    <3>4. CASE hand'.drafts # {}
      BY <1>7, <2>5, <3>1, <3>2, <3>4 DEF Unhindered, NoLimit
    <3>5. QED BY <3>3, <3>4
  <2>6. QED BY <2>4, <2>5
<1>10. QED BY <1>5, <1>8, <1>9 DEF ProjectInv

\* The draft considered is the first fact its part has not said.
LEMMA DraftIsFirst ==
  ASSUME Shape, InOrder, hand.drafts # {}
  PROVE  /\ hand.part \in Parts /\ IsFiniteSet(hand.drafts)
         /\ Min(hand.drafts) \in hand.drafts /\ hand.drafts \subseteq Unsaid(hand.part)
         /\ Min(Unsaid(hand.part)) = Min(hand.drafts)
         /\ Draft = First(hand.part, Unsaid(hand.part))
         /\ Draft = context.offers[hand.part][Min(hand.drafts)]
         /\ Draft \in Drafted \ facts /\ Cost[Draft] \in Nat \ {0}
         /\ Group \in Groups
<1>1. hand.part \in Parts /\ hand.drafts \subseteq Unsaid(hand.part)
  BY DEF InOrder
<1>2. /\ Unsaid(hand.part) \subseteq DOMAIN context.offers[hand.part]
      /\ Unsaid(hand.part) \subseteq Nat /\ IsFiniteSet(Unsaid(hand.part))
  BY <1>1, UnsaidIsFinite
<1>3. /\ Min(hand.drafts) \in hand.drafts /\ \A i \in hand.drafts : Min(hand.drafts) <= i
      /\ Draft \in Drafted /\ Cost[Draft] \in Nat \ {0}
  BY <1>1, <1>2, FirstIsThere DEF Draft
<1>4. \A j \in Unsaid(hand.part) : Min(hand.drafts) <= j
  <2> SUFFICES ASSUME NEW j \in Unsaid(hand.part), j \notin hand.drafts
               PROVE  Min(hand.drafts) <= j
    BY <1>3
  <2>1. ~(j < Min(hand.drafts))
    BY <1>3 DEF InOrder
  <2>2. j \in Nat /\ Min(hand.drafts) \in Nat
    BY <1>1, <1>2, <1>3
  <2>3. QED BY <2>1, <2>2
<1>5. Min(Unsaid(hand.part)) = Min(hand.drafts)
  BY <1>1, <1>2, <1>3, <1>4, LeastIsUnique
<1>6. Draft \notin facts
  BY <1>1, <1>3 DEF Unsaid, Draft, First
<1>7. IsFiniteSet(hand.drafts)
  BY <1>1, <1>2, FS_Subset
<1>8. Group \in Groups
  BY <1>1 DEF Group, Groups
<1>9. QED BY <1>1, <1>3, <1>5, <1>6, <1>7, <1>8 DEF Draft, First

\* What is refused for the budget now can never be paid for.
LEMMA DearStaysDear ==
  ASSUME Shape, InOrder, Admit, NEW p \in Parts
  PROVE  /\ Unsaid(p)' \subseteq Unsaid(p)
         /\ TooDear(p) => TooDear(p)'
         /\ tally'[p].kept \in Nat /\ tally'[p].kept >= tally[p].kept
         /\ Heard(p) => Heard(p)'
         /\ Settled(p) => Settled(p)'
<1>1. /\ UNCHANGED <<context, question>> /\ facts' = facts \cup {Draft} /\ Budget' = Budget
      /\ spent' = spent + Cost[Draft] /\ spent \in Nat /\ Cost[Draft] \in Nat \ {0}
      /\ spent + Cost[Draft] <= Budget /\ Budget \in Nat
  BY DraftIsFirst, Given DEF Admit, Fits, InOrder, Budget, Shape
<1>2. Unsaid(p)' = {i \in Unsaid(p) : context.offers[p][i] # Draft}
  BY <1>1 DEF Unsaid
<1>3. ASSUME TooDear(p) PROVE TooDear(p)'
  <2> DEFINE m == Min(Unsaid(p))
  <2>1. /\ Unsaid(p) \subseteq Nat /\ m \in Unsaid(p) /\ \A i \in Unsaid(p) : m <= i
        /\ Cost[context.offers[p][m]] \in Nat
        /\ spent + Cost[context.offers[p][m]] > Budget
    BY <1>3, UnsaidIsFinite, FirstIsThere DEF TooDear, First
  <2>2. PICK u : u = Unsaid(p)'
    OBVIOUS
  <2>3. m \in u /\ u \subseteq Unsaid(p)
    BY <1>1, <1>2, <2>1, <2>2
  <2>4. Min(u) = m
    <3> HIDE DEF m
    <3>1. u \subseteq Nat /\ \A i \in u : m <= i
      BY <2>1, <2>3
    <3>2. QED BY <2>3, <3>1, LeastIsUnique
  <2>5. First(p, Unsaid(p))' = context.offers[p][Min(u)]
    BY <1>1, <2>2 DEF First
  <2>6. spent' + Cost[context.offers[p][m]] > Budget
    BY <1>1, <2>1
  <2>7. QED BY <1>1, <2>2, <2>3, <2>4, <2>5, <2>6 DEF TooDear
<1>4. tally'[p].kept \in Nat /\ tally[p].kept \in Nat /\ tally'[p].kept >= tally[p].kept
  BY DEF Admit, Shape
<1>5. Heard(p) => Heard(p)'
  BY <1>2, <1>3, <1>4 DEF Heard
<1>6. SupportCap(p) = 0 => SupportCap(p)' = 0
  <2>1. Cap[p] \in Nat \ {0} /\ SupportingCap \in Nat
    BY ProjectionAssumption
  <2>2. UpTo(SupportingCap, p) = 0 => UpTo(SupportingCap, p)' = 0
    BY <1>4, <2>1 DEF UpTo, AtLeastZero, Already
  <2>3. UpTo(SupportingCap, p) \in Nat /\ UpTo(SupportingCap, p)' \in Nat
    BY <1>4, <2>1 DEF UpTo, AtLeastZero, Already
  <2>4. QED BY <1>1, <2>1, <2>2, <2>3 DEF SupportCap, IsSupporting, Lesser
<1>7. Cap[p] \in Nat
  BY ProjectionAssumption
<1>8. Settled(p) => Settled(p)'
  BY <1>2, <1>4, <1>6, <1>7 DEF Settled
<1>9. QED BY <1>2, <1>3, <1>4, <1>5, <1>8

\* The same of the state after a step.
LEMMA EnoughIsSettledNext == Shape' => (\A p \in Parts : Enough(p, {}) => Settled(p))'
BY EnoughIsSettled, PTL

\* Admitting a draft: what remains in hand is what remains of what was enough.
LEMMA AdmitStep ==
  ASSUME ProjectInv, Admit
  PROVE  ProjectInv'
<1> DEFINE m == Min(hand.drafts)
<1>0. Shape /\ InOrder /\ FloorInv /\ BudgetInv
  BY DEF ProjectInv
<1>1. PICK t : t = hand.part
  OBVIOUS
<1>2. /\ t \in Parts /\ hand.drafts # {} /\ IsFiniteSet(hand.drafts) /\ m \in hand.drafts
      /\ hand.drafts \subseteq Unsaid(t) /\ Draft = context.offers[t][m]
      /\ Draft \in Drafted \ facts /\ Cost[Draft] \in Nat \ {0} /\ Group \in Groups
  BY <1>0, <1>1, DraftIsFirst DEF Admit
<1>3. /\ UNCHANGED <<context, question>> /\ Budget' = Budget /\ facts' = facts \cup {Draft}
      /\ spent' = spent + Cost[Draft] /\ spent \in Nat
      /\ spent + Cost[Draft] <= hand.ceiling
      /\ hand.ceiling \in Int /\ hand.ceiling <= Budget /\ Budget \in Nat
  BY <1>0, <1>2, Given DEF Admit, Fits, InOrder, Budget, Shape
<1>4. /\ hand' = [part |-> t, drafts |-> hand.drafts \ {m}, ceiling |-> hand.ceiling,
                  room |-> hand.room]
      /\ hand' = [part |-> hand'.part, drafts |-> hand'.drafts, ceiling |-> hand'.ceiling,
                  room |-> hand'.room]
      /\ hand'.part = t /\ hand'.drafts = hand.drafts \ {m}
      /\ hand'.ceiling = hand.ceiling /\ hand'.room = hand.room
  BY <1>0, <1>1 DEF Admit, Shape
<1>5. /\ tally \in [Parts -> [kept : Nat, total : Int]]
      /\ tally' = [tally EXCEPT ![t].kept = tally[t].kept + 1]
  BY <1>0, <1>1 DEF Admit, Shape
<1>6. /\ tally' \in [Parts -> [kept : Nat, total : Int]]
      /\ tally[t].kept \in Nat /\ tally'[t].kept = tally[t].kept + 1
  BY <1>2, <1>5
<1>7. /\ pass' = [pass EXCEPT !.used[Group] = pass.used[Group] + Cost[Draft]]
      /\ pass = [name |-> pass.name, left |-> pass.left, order |-> pass.order,
                 ceiling |-> pass.ceiling, share |-> pass.share, used |-> pass.used]
  BY <1>0 DEF Admit, Shape
<1>8. /\ pass'.name = pass.name /\ pass'.left = pass.left /\ pass'.order = pass.order
      /\ pass'.ceiling = pass.ceiling
      /\ pass'.used = [pass.used EXCEPT ![Group] = pass.used[Group] + Cost[Draft]]
      /\ pass' = [name |-> pass'.name, left |-> pass'.left, order |-> pass'.order,
                  ceiling |-> pass'.ceiling, share |-> pass'.share, used |-> pass'.used]
  BY <1>7
<1>9. Shape'
  <2>1. pass.used \in [Groups -> Nat] /\ \A g \in Groups : pass.used[g] <= spent
    BY <1>0 DEF Shape
  <2>2. pass'.used \in [Groups -> Nat]
    BY <1>2, <1>8, <2>1
  <2>3. ASSUME NEW g \in Groups PROVE pass'.used[g] <= spent'
    <3>1. pass.used[g] \in Nat /\ pass.used[g] <= spent
      BY <2>1
    <3>2. pass'.used[g] = IF g = Group THEN pass.used[g] + Cost[Draft] ELSE pass.used[g]
      BY <1>8, <2>1
    <3>3. QED BY <1>2, <1>3, <3>1, <3>2
  <2>4. spent' \in Nat /\ spent' <= Budget
    BY <1>2, <1>3
  <2>5. QED BY <1>0, <1>3, <1>4, <1>6, <1>8, <2>2, <2>3, <2>4 DEF Shape
<1>10. Unsaid(t)' = Unsaid(t) \ {m}
  <2>1. context.offers[t] \in Seq(Drafted) /\ IsInjective(context.offers[t])
    BY <1>0, <1>2, Given
  <2>2. m \in DOMAIN context.offers[t] /\ Unsaid(t) \subseteq DOMAIN context.offers[t]
    BY <1>2 DEF Unsaid
  <2>3. \A i \in DOMAIN context.offers[t] : context.offers[t][i] = Draft => i = m
    BY <1>2, <2>1, <2>2 DEF IsInjective
  <2>4. QED BY <1>2, <1>3, <2>2, <2>3 DEF Unsaid
<1>11. InOrder'
  <2>1. \A i \in hand.drafts, j \in Unsaid(t) : j < i => j \in hand.drafts
    BY <1>0, <1>1, <1>2 DEF InOrder
  <2>2. QED BY <1>2, <1>3, <1>4, <1>10, <2>1 DEF InOrder
<1>12. \A p \in Parts : /\ TooDear(p) => TooDear(p)'
                        /\ Heard(p) => Heard(p)'
                        /\ Settled(p) => Settled(p)'
  BY <1>0, DearStaysDear
<1>13. Families' = Families /\ Families \subseteq Parts
  BY <1>0, <1>3, OrdersArePlaces DEF Families, Requested
<1>14. FloorInv'
  <2>1. Heard(t)'
    BY <1>6 DEF Heard
  <2>2. QED BY <1>0, <1>1, <1>8, <1>12, <1>13, <2>1 DEF FloorInv
<1>15. Enough(t, hand.drafts) => Enough(t, hand.drafts)'
  <2>1. /\ Cardinality(hand.drafts) \in Nat
        /\ Cardinality(hand.drafts \ {m}) = Cardinality(hand.drafts) - 1
    BY <1>2, FS_CardinalityType, FS_RemoveElement
  <2>2. tally'[t].kept + Cardinality(hand.drafts \ {m}) = tally[t].kept + Cardinality(hand.drafts)
    BY <1>6, <2>1
  <2>3. hand.drafts = Unsaid(t) => hand.drafts \ {m} = Unsaid(t)'
    BY <1>10
  <2>4. IsSupporting(t)' = IsSupporting(t)
    BY <1>3 DEF IsSupporting
  <2>5. QED BY <1>4, <2>2, <2>3, <2>4 DEF Enough
<1>16. BudgetInv'
  <2>0. Parts' = Parts
    BY DEF Parts
  <2> HIDE DEF Parts
  <2>1. Freely' = Freely /\ pass'.name = pass.name
    BY <1>3, <1>8 DEF Freely
  <2>2. Freely /\ hand'.drafts # {} => Unhindered'
    BY <1>0, <1>2, <1>3, <1>4 DEF BudgetInv, Unhindered, NoLimit
  <2>3. Dear => Dear'
    BY <1>12 DEF Dear
  <2>4. ASSUME Freely, ~Dear, NEW p \in Parts
        PROVE  \/ p \in pass'.left \/ Settled(p)'
               \/ hand'.part = p /\ Unhindered' /\ Enough(p, hand.drafts)'
    <3>1. p \in pass.left \/ Settled(p) \/ (t = p /\ Enough(p, hand.drafts))
      BY <1>0, <1>1, <2>4 DEF BudgetInv
    <3>2. CASE t = p /\ Enough(p, hand.drafts)
      <4>1. Enough(p, hand.drafts)'
        BY <1>15, <3>2
      <4>2. CASE hand'.drafts # {}
        BY <1>4, <2>2, <2>4, <3>2, <4>1, <4>2
      <4>3. CASE hand'.drafts = {}
        <5>1. Enough(p, {})'
          BY <4>1, <4>3 DEF Enough
        <5>2. QED BY <1>9, <5>1, EnoughIsSettledNext
      <4>4. QED BY <4>2, <4>3
    <3>3. QED BY <1>8, <1>12, <3>1, <3>2
  <2>5. pass.name = "done" /\ ~Dear => \A p \in Parts : Settled(p)'
    BY <1>0, <1>12 DEF BudgetInv
  <2>6. QED BY <2>0, <2>1, <2>2, <2>3, <2>4, <2>5 DEF BudgetInv
<1>17. QED BY <1>9, <1>11, <1>14, <1>16 DEF ProjectInv

\* Setting the rest aside: only where a share was spent, or where it cannot be paid for.
LEMMA RefusalStep ==
  ASSUME ProjectInv, EndOfRoom \/ Exhausts
  PROVE  ProjectInv'
<1>0. Shape /\ InOrder /\ FloorInv /\ BudgetInv /\ hand.drafts # {}
  BY DEF ProjectInv, EndOfRoom, Exhausts
<1>1. PICK t : t = hand.part
  OBVIOUS
<1>2. /\ t \in Parts /\ Draft = First(t, Unsaid(t)) /\ Unsaid(t) # {}
      /\ Cost[Draft] \in Nat /\ Group \in Groups
  BY <1>0, <1>1, DraftIsFirst
<1>3. /\ UNCHANGED <<context, question, facts, spent, tally>>
      /\ hand' = [hand EXCEPT !.drafts = {}] /\ hand'.drafts = {}
      /\ hand' = [part |-> hand'.part, drafts |-> hand'.drafts, ceiling |-> hand'.ceiling,
                  room |-> hand'.room]
      /\ pass' = [name |-> pass'.name, left |-> pass'.left, order |-> pass'.order,
                  ceiling |-> pass'.ceiling, share |-> pass'.share, used |-> pass'.used]
      /\ pass'.name = pass.name /\ pass'.order = pass.order /\ pass'.used = pass.used
      /\ pass'.ceiling = pass.ceiling
      /\ \/ pass'.left = pass.left
         \/ pass'.left = {} /\ Exhausts /\ pass.name \notin {"coverage", "depth"}
  BY <1>0 DEF EndOfRoom, Exhausts, Shape
<1>4. Shape' /\ InOrder'
  BY <1>0, <1>3 DEF Shape, InOrder, Budget
<1>5. \A p \in Parts : /\ Heard(p)' = Heard(p) /\ Settled(p)' = Settled(p)
                       /\ TooDear(p)' = TooDear(p)
  BY <1>3, SameFacts
<1>6. Families' = Families /\ Families \subseteq Parts
  BY <1>0, <1>3, OrdersArePlaces DEF Families, Requested
<1>7. Unhindered => Exhausts /\ TooDear(t)
  <2> SUFFICES ASSUME Unhindered PROVE Exhausts /\ TooDear(t)
    OBVIOUS
  <2>1. /\ hand.ceiling = Budget /\ hand.room = Tier /\ Budget \in Nat /\ Budget <= Tier
        /\ Tier \in Nat
    BY <1>0, Given, ProjectionAssumption DEF Unhindered, NoLimit
  <2>2. pass.used[Group] \in Nat /\ pass.used[Group] <= spent /\ spent \in Nat
    BY <1>0, <1>2 DEF Shape
  <2>3. Fits => HasRoom
    BY <1>2, <2>1, <2>2 DEF Fits, HasRoom
  <2>4. Exhausts /\ ~Fits
    BY <2>3 DEF EndOfRoom, Exhausts
  <2>5. spent + Cost[Draft] > Budget
    BY <1>2, <2>1, <2>2, <2>4 DEF Fits
  <2>6. QED BY <1>2, <2>4, <2>5 DEF TooDear
<1>8. FloorInv'
  BY <1>0, <1>1, <1>3, <1>5, <1>6, <1>7 DEF FloorInv, Heard
<1>9. BudgetInv'
  <2>1. Freely' = Freely /\ Dear' = Dear
    BY <1>3, <1>5 DEF Freely, Dear
  <2>2. Freely => Dear
    BY <1>0, <1>2, <1>7 DEF BudgetInv, Dear
  <2>3. QED BY <1>0, <1>3, <1>5, <2>1, <2>2 DEF BudgetInv
<1>10. QED BY <1>4, <1>8, <1>9 DEF ProjectInv

\* From one pass to the next: what was to be heard was heard before the shares.
LEMMA PassStep ==
  ASSUME ProjectInv, NextPass
  PROVE  ProjectInv'
<1>0. Shape /\ FloorInv /\ BudgetInv /\ hand.drafts = {} /\ pass.left = {}
  BY DEF ProjectInv, NextPass
<1>1. UNCHANGED <<context, question, facts, spent, tally, hand>> /\ Budget' = Budget
  BY DEF NextPass, Budget
<1>2. Budget \in Nat /\ Budget > 0 /\ spent \in Nat /\ spent <= Budget
  BY <1>0, Given DEF Shape
<1>3. /\ ShapedFor \in [Parts -> Nat] /\ OrderedFor \in [Parts -> Nat]
      /\ Priority \in [Families -> Nat] /\ Families \subseteq Parts
  BY <1>0, OrdersArePlaces
<1>4. FloorCeiling \in Int /\ FloorCeiling <= Budget
  BY <1>2 DEF FloorCeiling, Lesser, Percent, AtLeastZero
<1>5. \/ /\ pass.name = "core" /\ pass'.name = "coverage" /\ pass'.left = Families
         /\ pass' = Pass("coverage", Priority, Budget)
      \/ /\ pass.name = "coverage" /\ pass'.name = "depth" /\ pass'.left = Families
         /\ pass' = Pass("depth", Priority, FloorCeiling)
      \/ /\ pass.name = "depth" /\ pass'.name = "supplement" /\ pass'.left = Parts
         /\ pass' = Pass("supplement", OrderedFor, Budget)
      \/ /\ pass.name = "supplement" /\ pass'.name = "sweep" /\ pass'.left = Parts
         /\ pass' = Pass("sweep", OrderedFor, Budget)
      \/ /\ pass.name = "sweep" \/ (pass.name = "supplement" /\ ~Swept)
         /\ pass'.name = "done" /\ pass' = [pass EXCEPT !.name = "done"]
  BY <1>0, <1>3 DEF NextPass, Pass, Shape
<1>6. Shape'
  <2>1. ASSUME NEW name, NEW order, NEW parts \in SUBSET Parts, order \in [parts -> Nat],
               NEW ceiling \in Int, ceiling <= Budget, pass' = Pass(name, order, ceiling)
        PROVE  Shape'
    <3>1. /\ pass'.left = parts /\ pass'.order = order /\ pass'.ceiling = ceiling
          /\ pass'.used = [g \in Groups |-> 0]
          /\ pass' = [name |-> pass'.name, left |-> pass'.left, order |-> pass'.order,
                      ceiling |-> pass'.ceiling, share |-> pass'.share, used |-> pass'.used]
      BY <2>1 DEF Pass
    <3>2. pass'.used \in [Groups -> Nat] /\ \A g \in Groups : pass'.used[g] <= spent
      BY <1>2, <3>1
    <3>3. QED BY <1>0, <1>1, <2>1, <3>1, <3>2 DEF Shape
  <2>2. CASE pass' = [pass EXCEPT !.name = "done"]
    BY <1>0, <1>1, <2>2 DEF Shape
  <2>3. QED BY <1>2, <1>3, <1>4, <1>5, <2>1, <2>2
<1>7. InOrder'
  BY <1>0, <1>1 DEF InOrder
<1>8. \A p \in Parts : /\ Heard(p)' = Heard(p) /\ Settled(p)' = Settled(p)
                       /\ TooDear(p)' = TooDear(p)
  BY <1>1, SameFacts
<1>9. Families' = Families
  BY <1>1 DEF Families, Requested
<1>10. FloorInv'
  BY <1>0, <1>3, <1>5, <1>8, <1>9 DEF FloorInv, Unhindered
<1>11. BudgetInv'
  <2>1. ASSUME pass'.name = "done" PROVE Dear \/ \A p \in Parts : Settled(p)
    <3>1. CASE Freely
      BY <1>0, <3>1 DEF BudgetInv, Unhindered
    <3>2. CASE ~Freely
      <4>1. spent = Budget
        BY <1>2, <1>5, <2>1, <3>2 DEF Freely, Swept
      <4>2. ASSUME NEW p \in Parts, Unsaid(p) # {} PROVE TooDear(p)
        <5>1. Cost[First(p, Unsaid(p))] \in Nat \ {0}
          BY <1>0, <4>2, UnsaidIsFinite, FirstIsThere
        <5>2. QED BY <1>2, <4>1, <4>2, <5>1 DEF TooDear
      <4>3. QED BY <4>2 DEF Dear, Settled
    <3>3. QED BY <3>1, <3>2
  <2>2. ASSUME Freely' PROVE pass'.left = Parts
    BY <1>5, <2>2 DEF Freely
  <2>3. Dear' = Dear
    BY <1>8 DEF Dear
  <2>4. QED BY <1>0, <1>1, <1>8, <2>1, <2>2, <2>3 DEF BudgetInv
<1>12. QED BY <1>6, <1>7, <1>10, <1>11 DEF ProjectInv

-----------------------------------------------------------------------------
(* The theorems *)

\* At first nothing is spent, and the floor is still to come.
LEMMA IInvInit == ProjectInit => ProjectInv
<1> SUFFICES ASSUME ProjectInit PROVE ProjectInv
  OBVIOUS
<1>1. /\ pass = [name |-> "core", left |-> Parts, order |-> ShapedFor, ceiling |-> CoreCeiling,
                 share |-> CoreCeiling, used |-> [g \in Groups |-> 0]]
      /\ hand = [part |-> "none", drafts |-> {}, ceiling |-> 0, room |-> 0]
      /\ tally = [p \in Parts |-> [kept |-> 0, total |-> 0]] /\ spent = 0
      /\ context \in Contexts /\ question \in Questions
  BY DEF ProjectInit
<1>2. /\ question.reserved \in 0 .. Tier - 1 /\ Tier \in Nat /\ question.coreReserved \in Nat
  BY <1>1, ProjectionAssumption
<1>3. Budget \in Nat
  BY <1>2 DEF Budget
<1>4. CoreCeiling \in Int /\ CoreCeiling <= Budget
  <2> DEFINE guidance == IF question.coreReserved = 0 THEN 0 ELSE Percent(13, Tier)
             share    == Percent(60, Tier - question.coreReserved - guidance)
  <2>1. guidance \in Int
    BY <1>2 DEF Percent
  <2> HIDE DEF guidance
  <2>2. share \in Int
    BY <1>2, <2>1 DEF Percent
  <2>3. CoreCeiling = AtLeastZero(Lesser(share, Budget))
    BY DEF CoreCeiling, guidance
  <2> HIDE DEF share
  <2>4. QED BY <1>3, <2>2, <2>3 DEF AtLeastZero, Lesser
<1>5. ShapedFor \in [Parts -> Nat]
  BY PartsAreFinite, FS_Subset, FS_CardinalityType DEF ShapedFor, Reordered
<1>6. Shape
  BY <1>1, <1>3, <1>4, <1>5 DEF Shape
<1>7. InOrder /\ FloorInv /\ BudgetInv
  BY <1>1 DEF InOrder, FloorInv, BudgetInv, Freely
<1>8. QED BY <1>6, <1>7 DEF ProjectInv

\* Every step keeps it.
LEMMA IInvNext == ProjectInv /\ [ProjectNext]_projectVars => ProjectInv'
<1> SUFFICES ASSUME ProjectInv, [ProjectNext]_projectVars PROVE ProjectInv'
  OBVIOUS
<1>1. CASE Core \/ Coverage \/ Depth \/ Supplement \/ Sweep
  BY <1>1, TurnStep
<1>2. CASE Admit
  BY <1>2, AdmitStep
<1>3. CASE EndOfRoom \/ Exhausts
  BY <1>3, RefusalStep
<1>4. CASE NextPass
  BY <1>4, PassStep
<1>5. CASE UNCHANGED projectVars
  <2>1. UNCHANGED <<context, question, facts, spent, tally, pass, hand>>
    BY <1>5 DEF projectVars
  <2>2. Shape'
    BY <2>1 DEF ProjectInv, Shape, Budget
  <2>3. /\ Budget' = Budget /\ Unhindered' = Unhindered /\ Freely' = Freely
        /\ Families' = Families /\ Families \subseteq Parts
    BY <2>1, OrdersArePlaces DEF ProjectInv, Budget, Unhindered, Freely, Families, Requested
  <2>4. InOrder'
    BY <2>1 DEF ProjectInv, InOrder, Unsaid, Budget
  <2>5. \A p \in Parts : /\ Heard(p)' = Heard(p) /\ Settled(p)' = Settled(p)
                         /\ TooDear(p)' = TooDear(p)
                         /\ \A drafts : Enough(p, drafts)' = Enough(p, drafts)
    BY <2>1, SameFacts
  <2>6. FloorInv'
    BY <2>1, <2>3, <2>5 DEF ProjectInv, FloorInv
  <2>7. Dear' = Dear
    BY <2>5 DEF Dear
  <2>8. \A p \in Parts : Enough(p, hand.drafts)' <=> Enough(p, hand.drafts)
    BY <2>1 DEF Enough, Unsaid, IsSupporting
  <2>9. Parts' = Parts
    BY DEF Parts
  <2> HIDE DEF Parts
  <2>10. BudgetInv'
    BY <2>1, <2>3, <2>5, <2>7, <2>8, <2>9 DEF ProjectInv, BudgetInv
  <2>11. QED BY <2>2, <2>4, <2>6, <2>10 DEF ProjectInv
<1>6. QED BY <1>1, <1>2, <1>3, <1>4, <1>5 DEF ProjectNext

\* No family of a question is left out of the prompt for want of a turn (projection.ts: one
\* fact of every family before any family gets a second).
THEOREM FamiliesAreHeard == ProjectSpec => []EveryFamilyIsHeard
<1>1. ProjectInv => EveryFamilyIsHeard
  BY DEF ProjectInv, FloorInv, EveryFamilyIsHeard, Projected, Heard
<1>2. QED BY IInvInit, IInvNext, <1>1, PTL DEF ProjectSpec

\* A share is a preference and not a cap on the answer (projection.ts: the sweep).
THEOREM BudgetIsUsed == ProjectSpec => []TheBudgetIsUsed
<1>1. ProjectInv => TheBudgetIsUsed
  BY DEF ProjectInv, BudgetInv, TheBudgetIsUsed, Projected, Dear, Settled
<1>2. QED BY IInvInit, IInvNext, <1>1, PTL DEF ProjectSpec
=============================================================================
