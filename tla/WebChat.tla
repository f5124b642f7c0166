------------------------------- MODULE WebChat -------------------------------
(***************************************************************************)
(* The chat page over a whole session: apps/web/src/hooks/use-chat.ts, the *)
(* store behind it (store/chat-store.ts) and the page's own effects        *)
(* (app/chat/page.tsx).                                                    *)
(*                                                                         *)
(* The store is a module: it outlives the page.  The hook is the page's:   *)
(* each visit has a controller and a streaming flag of its own, and a      *)
(* stream begun by an earlier visit winds down beside it.  A stream is one *)
(* send() being awaited; ChatStream says what one of them goes through, so *)
(* here it is only the frames that change a turn, and the way it ends.     *)
(***************************************************************************)
EXTENDS Naturals, Sequences, FiniteSets, SequencesExt

CONSTANTS Subjects,     \* what a conversation may be about
          Repository,   \* REPOSITORY_SUBJECT
          MaxIds,       \* ids the model hands out (the code has no limit)
          MaxVisits     \* how often the page is mounted

ASSUME RepositoryAssumption == Repository \in Subjects
ASSUME BoundsAssumption == MaxIds \in Nat /\ MaxVisits \in Nat

None == 0               \* no id: ids count from 1
Ids  == 1 .. MaxIds

VARIABLES sequence,        \* the id counter of the store
          conversations,   \* newest first
          activeId,
          visit,           \* which visit of the page this is
          page,            \* the hook of this visit
          streams          \* every send() that has not returned

vars == <<sequence, conversations, activeId, visit, page, streams>>

-----------------------------------------------------------------------------
(* Vocabulary *)

Turn == [id : Ids, subject : Subjects, text : BOOLEAN,   \* whether there is prose
         status : {"streaming", "complete", "failed", "cancelled"}]

Conversation == [id : Ids, subject : Subjects, turns : Seq(Turn)]

\* controller names the stream it aborts.
Page   == [mounted : BOOLEAN, streaming : BOOLEAN, controller : Ids \cup {None}]
NoPage == [mounted |-> FALSE, streaming |-> FALSE, controller |-> None]

\* terminal: the server's last frame has been read; history: the turns replayed.
Stream == [turn : Ids, target : Ids, visit : 1 .. MaxVisits, subject : Subjects,
           aborted : BOOLEAN, terminal : BOOLEAN, history : SUBSET Turn]

Active == {i \in DOMAIN conversations : conversations[i].id = activeId}

\* activeConversation of any list of conversations.
Turns(list) == UNION {Range(list[i].turns) : i \in DOMAIN list}

\* map over the conversations, changing the one named.
Mapped(id, Change(_)) ==
  [i \in DOMAIN conversations |-> IF conversations[i].id = id
                                    THEN Change(conversations[i]) ELSE conversations[i]]

Emptied(c) == [c EXCEPT !.turns = <<>>]

\* updateTurn: no effect when the conversation or the turn is gone.
Updated(target, id, Patch(_)) ==
  Mapped(target, LAMBDA c : [c EXCEPT !.turns =
    [k \in DOMAIN @ |-> IF @[k].id = id THEN Patch(@[k]) ELSE @[k]]])

\* historyOf: completed turns with an answer.
HistoryOf(turns) == {t \in turns : t.status = "complete" /\ t.text}

Aborted(set, id) == {[s EXCEPT !.aborted = @ \/ s.turn = id] : s \in set}

-----------------------------------------------------------------------------
(* The store *)

StartConversation(subject) ==
  /\ sequence < MaxIds
  /\ sequence' = sequence + 1
  /\ conversations' = <<[id |-> sequence', subject |-> subject, turns |-> <<>>]>>
                        \o conversations
  /\ activeId' = sequence'
  /\ UNCHANGED <<visit, page, streams>>

\* The page never shows an empty shell: its effect starts a conversation.
EnsureConversation ==
  /\ page.mounted /\ conversations = <<>>
  /\ StartConversation(Repository)

\* A question handed over from another page brings a conversation of its own.
New(subject) == page.mounted /\ StartConversation(subject)

SelectConversation(i) ==
  /\ page.mounted
  /\ activeId' = conversations[i].id
  /\ UNCHANGED <<sequence, conversations, visit, page, streams>>

RemoveConversation(i) ==
  /\ page.mounted
  /\ conversations' = RemoveAt(conversations, i)
  /\ activeId' = IF activeId # conversations[i].id THEN activeId
                 ELSE IF conversations' = <<>> THEN None ELSE conversations'[1].id
  /\ UNCHANGED <<sequence, visit, page, streams>>

\* Seeded fault: the turns stay when what they are about changes.
SetSubjectOnly(i, subject) ==
  /\ page.mounted
  /\ conversations' = Mapped(conversations[i].id, LAMBDA c : [c EXCEPT !.subject = subject])
  /\ UNCHANGED <<sequence, activeId, visit, page, streams>>

\* setSubject drops the turns: they were about something else.
SetSubject(i, subject) ==
  /\ page.mounted
  /\ conversations' = Mapped(conversations[i].id,
                             LAMBDA c : [Emptied(c) EXCEPT !.subject = subject])
  /\ UNCHANGED <<sequence, activeId, visit, page, streams>>

-----------------------------------------------------------------------------
(* The hook *)

\* send(), up to where it awaits the first frame: the turn is added to what the
\* store holds now, and the history is what the caller passed.
Send(i, list, history) ==
  /\ sequence < MaxIds
  /\ sequence' = sequence + 1
  /\ LET c == conversations[i]
     IN  /\ conversations' =
              [list EXCEPT ![i].turns =
                 Append(@, [id |-> sequence', subject |-> c.subject, text |-> FALSE,
                            status |-> "streaming"])]
         /\ streams' = streams \cup
              {[turn |-> sequence', target |-> c.id, visit |-> visit, subject |-> c.subject,
                aborted |-> FALSE, terminal |-> FALSE, history |-> history]}
  /\ page' = [page EXCEPT !.streaming = TRUE, !.controller = sequence']
  /\ UNCHANGED <<activeId, visit>>

Ask(i) ==
  /\ page.mounted /\ ~page.streaming
  /\ Send(i, conversations, HistoryOf(Range(conversations[i].turns)))

\* retry(): the last turn goes, whatever became of it, and its question is asked again.
Retry(i) ==
  LET turns == conversations[i].turns
  IN  /\ page.mounted /\ ~page.streaming /\ turns # <<>>
      /\ Send(i, [conversations EXCEPT ![i].turns = Front(turns)],
              HistoryOf(Range(Front(turns))))

Stop ==
  /\ page.mounted /\ page.controller # None
  /\ streams' = Aborted(streams, page.controller)
  /\ UNCHANGED <<sequence, conversations, activeId, visit, page>>

\* clear(): stops the page's stream, whichever conversation it belongs to.
Clear(i) ==
  /\ page.mounted
  /\ streams' = Aborted(streams, page.controller)
  /\ conversations' = Mapped(activeId, Emptied)
  /\ UNCHANGED <<sequence, activeId, visit, page>>

Mount ==
  /\ ~page.mounted /\ visit < MaxVisits
  /\ visit' = visit + 1
  /\ page' = [NoPage EXCEPT !.mounted = TRUE]
  /\ UNCHANGED <<sequence, conversations, activeId, streams>>

\* Seeded fault: leaving the page only stops listening.
UnmountOnly ==
  /\ page.mounted
  /\ page' = NoPage
  /\ UNCHANGED <<sequence, conversations, activeId, visit, streams>>

\* Leaving the page aborts its stream.
Unmount ==
  /\ page.mounted
  /\ streams' = Aborted(streams, page.controller)
  /\ page' = NoPage
  /\ UNCHANGED <<sequence, conversations, activeId, visit>>

-----------------------------------------------------------------------------
(* A stream being read *)

\* A frame that changes the turn.  An abort does not take back the frames of the
\* chunk that is being parsed.
Frame(s, terminal, Patch(_)) ==
  /\ ~s.terminal
  /\ streams' = (streams \ {s}) \cup {[s EXCEPT !.terminal = terminal]}
  /\ conversations' = Updated(s.target, s.turn, Patch)
  /\ UNCHANGED <<sequence, activeId, visit, page>>

Delta(s)   == Frame(s, FALSE, LAMBDA t : [t EXCEPT !.text = TRUE])
Restart(s) == Frame(s, FALSE, LAMBDA t : [t EXCEPT !.text = FALSE])
Completes(s, prose) ==
  Frame(s, TRUE, LAMBDA t : [t EXCEPT !.status = "complete", !.text = prose])
Fails(s)   == Frame(s, TRUE, LAMBDA t : [t EXCEPT !.status = "failed"])

\* The finally of send(): the flags are those of the visit that began the stream.
Released(s) ==
  /\ streams' = streams \ {s}
  /\ page' = IF s.visit = visit /\ page.mounted
               THEN [page EXCEPT !.streaming = FALSE, !.controller = None] ELSE page
  /\ UNCHANGED <<sequence, activeId, visit>>

\* The iteration ends.  A turn still streaming was stopped, or was cut short.
Ends(s) ==
  /\ Released(s)
  /\ conversations' =
       Updated(s.target, s.turn,
               LAMBDA t : [t EXCEPT !.status = IF @ # "streaming" THEN @
                                               ELSE IF s.aborted THEN "cancelled"
                                               ELSE "failed"])

\* The iteration throws: the request was refused, or the connection broke.
Throws(s) ==
  /\ Released(s)
  /\ conversations' = Updated(s.target, s.turn, LAMBDA t : [t EXCEPT !.status = "failed"])

-----------------------------------------------------------------------------
Init ==
  /\ sequence = 0
  /\ conversations = <<>> /\ activeId = None
  /\ visit = 0 /\ page = NoPage
  /\ streams = {}

Next ==
  \/ Mount \/ Unmount \/ EnsureConversation \/ Stop
  \/ \E subject \in Subjects : New(subject)
  \/ \E i \in DOMAIN conversations :
       \/ SelectConversation(i) \/ RemoveConversation(i)
       \/ \E subject \in Subjects : SetSubject(i, subject)
  \/ \E i \in Active : Ask(i) \/ Retry(i) \/ Clear(i)
  \/ \E s \in streams :
       \/ Delta(s) \/ Restart(s) \/ Fails(s) \/ Ends(s) \/ Throws(s)
       \/ \E prose \in BOOLEAN : Completes(s, prose)

Spec == Init /\ [][Next]_vars

-----------------------------------------------------------------------------
(* Properties *)

TypeOK ==
  /\ sequence \in 0 .. MaxIds
  /\ conversations \in Seq(Conversation)
  /\ activeId \in Ids \cup {None}
  /\ visit \in 0 .. MaxVisits
  /\ page \in Page
  /\ streams \subseteq Stream

\* "Leaving the page mid-answer must stop the model" (use-chat.ts): a stream that
\* has not been aborted can be, by the page in front of the reader.  None is left
\* running by leaving, by a second question, or by the end of another stream.
EveryStreamCanBeStopped ==
  \A s \in streams :
    ~s.aborted => /\ page.mounted /\ page.streaming
                  /\ s.visit = visit /\ page.controller = s.turn

\* "Prior answers were about something else" (setSubject): a conversation shows
\* turns of its subject only, and what a request replays are finished answers on
\* the subject it asks about.
OneSubjectPerConversation ==
  /\ \A i \in DOMAIN conversations : \A t \in Range(conversations[i].turns) :
       t.subject = conversations[i].subject
  /\ \A s \in streams : \A t \in s.history :
       t.status = "complete" /\ t.subject = s.subject
=============================================================================
