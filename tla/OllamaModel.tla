---------------------------- MODULE OllamaModel ----------------------------
(***************************************************************************)
(* packages/ai-ollama/src/ollama-model.ts and ndjson.ts: one streamed      *)
(* generation.  The daemon decides what arrives; two deadlines behind one  *)
(* timer, and the caller's signal, decide when to stop listening.          *)
(*                                                                         *)
(* An abort of either kind goes through one controller.  The generator     *)
(* then waits for the body to be released and throws from its catch, so    *)
(* nothing more is delivered.  What the consumer does with an event        *)
(* happens in the same turn: ChatStream puts the two together.             *)
(***************************************************************************)
EXTENDS Naturals, Sequences

CONSTANTS Words,       \* what the daemon may generate
          MaxLines     \* lines the daemon sends without generating anything

VARIABLE call

Phases == {"idle", "posting", "reading", "releasing"}
Limits == {"first", "idle"}   \* firstTokenTimeoutMs, idleTimeoutMs

Call == [at        : Phases,
         delivered : Seq(Words),
         limit     : Limits,      \* the deadline the timer is set to
         lines     : 0 .. MaxLines,
         timedOut  : BOOLEAN,
         cancelled : BOOLEAN]

NoCall == [at |-> "idle", delivered |-> <<>>, limit |-> "first", lines |-> 0,
           timedOut |-> FALSE, cancelled |-> FALSE]

\* generate, up to where it awaits the response.
Posted == [NoCall EXCEPT !.at = "posting"]

CInit == call = NoCall

Listening == call.at \in {"posting", "reading"}

-----------------------------------------------------------------------------
(* What the daemon does *)

Responds == /\ call.at = "posting"
            /\ call' = [call EXCEPT !.at = "reading"]

\* resetIdle, on a line that arrived: which deadline is next is decided before the
\* line's own text counts.
Rearmed(c) == [c EXCEPT !.limit = IF c.delivered = <<>> THEN "first" ELSE "idle"]

\* A line that carries no text; the timer starts again.
KeepAlive == /\ call.at = "reading" /\ call.lines < MaxLines
             /\ call' = [Rearmed(call) EXCEPT !.lines = @ + 1]

Line(w) == /\ call.at = "reading"
           /\ call' = [Rearmed(call) EXCEPT !.delivered = Append(@, w)]

\* The line that says done may come.
MayEnd == call.at = "reading"

\* A status other than 2xx, an error line, a line that is not JSON, a body that ends
\* or breaks, a daemon that cannot be reached: these may come at any time.  Some of
\* the errors carry what was delivered, some carry nothing.
MayBreak == Listening

-----------------------------------------------------------------------------
(* What stops it from outside *)

\* Seeded fault: the timer is set once the response is there.
ExpiresWhileReading == /\ call.at = "reading" /\ ~call.timedOut
                       /\ call' = [call EXCEPT !.timedOut = TRUE, !.at = "releasing"]

\* Seeded fault: the timer gives up the way the caller's signal does.
ExpiresAsAbort == /\ call.at # "idle" /\ ~call.timedOut /\ ~call.cancelled
                  /\ call' = [call EXCEPT !.cancelled = TRUE, !.at = "releasing"]

\* The timer goes on running while a cancelled body is being released.
Expires == /\ call.at # "idle" /\ ~call.timedOut
           /\ call' = [call EXCEPT !.timedOut = TRUE, !.at = "releasing"]

\* Seeded fault: the caller's signal is not listened to.
AbortedUnheard == call

\* onAbort, as the new value of call.
Aborted == IF Listening \/ call.at = "releasing"
             THEN [call EXCEPT !.cancelled = TRUE, !.at = "releasing"]
             ELSE call

\* The catch: a timeout is reported as one, even if the caller has left meanwhile.
Reported == IF call.timedOut THEN "generation-timeout" ELSE "generation-aborted"
=============================================================================
