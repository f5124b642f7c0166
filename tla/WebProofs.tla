------------------------------ MODULE WebProofs ------------------------------
(***************************************************************************)
(* The two pages that follow something on the server.                      *)
(*                                                                         *)
(* The chat, for any number of ids, subjects and visits.  What is          *)
(* inductive is stronger than its two invariants in two ways: a visit has  *)
(* at most one stream that has not returned, named by its controller       *)
(* whether or not it was aborted; and a conversation is coherent as a      *)
(* value, so that the store's operations are maps and splices of coherent  *)
(* conversations.                                                          *)
(*                                                                         *)
(* The analysis dialog: that a busy page follows something is inductive as *)
(* it stands.  Whatever takes the last poll or request away either clears  *)
(* busy, replaces it, or belongs to a page that was left.                  *)
(***************************************************************************)
EXTENDS WebAnalysis, WebChat, SequenceTheorems, TLAPS

-----------------------------------------------------------------------------
(* The chat: what is inductive *)

Coherent == {c \in Conversation : \A k \in DOMAIN c.turns : c.turns[k].subject = c.subject}

Faithful == {s \in Stream : \A t \in s.history : t.status = "complete" /\ t.subject = s.subject}

Shape ==
  /\ sequence \in 0 .. MaxIds
  /\ conversations \in Seq(Coherent)
  /\ activeId \in Ids \cup {None}
  /\ visit \in 0 .. MaxVisits
  /\ page \in Page
  /\ streams \subseteq Faithful

OneStreamPerVisit ==
  /\ \A s \in streams : s.turn <= sequence /\ s.visit <= visit
  /\ \A s, t \in streams : s.turn = t.turn => s = t
  /\ page.mounted => /\ visit > 0
                     /\ \A s \in streams : s.visit = visit =>
                          page.streaming /\ page.controller = s.turn

IInv == Shape /\ OneStreamPerVisit /\ EveryStreamCanBeStopped

-----------------------------------------------------------------------------
(* Coherent values *)

\* A function on the positions of a sequence is a sequence.
LEMMA MapIsSeq ==
  ASSUME NEW S, NEW T, NEW s \in Seq(S), NEW f \in [DOMAIN s -> T]
  PROVE  f \in Seq(T) /\ Len(f) = Len(s)
<1>1. DOMAIN s = 1 .. Len(s) /\ Len(s) \in Nat
  OBVIOUS
<1>2. f \in Seq(T)
  BY <1>1, SeqDef
<1>3. QED BY <1>1, <1>2

\* Turns may be patched as long as what they are about stays.
LEMMA PatchedIsCoherent ==
  ASSUME NEW c \in Coherent, NEW turns \in [DOMAIN c.turns -> Turn],
         \A k \in DOMAIN c.turns : turns[k].subject = c.turns[k].subject
  PROVE  [c EXCEPT !.turns = turns] \in Coherent
<1> DEFINE d == [c EXCEPT !.turns = turns]
<1>1. c \in Conversation /\ c.turns \in Seq(Turn)
  BY DEF Coherent, Conversation
<1>2. turns \in Seq(Turn) /\ DOMAIN turns = DOMAIN c.turns
  BY <1>1, MapIsSeq
<1>3. d \in Conversation /\ d.turns = turns /\ d.subject = c.subject
  BY <1>1, <1>2 DEF Conversation
<1>4. \A k \in DOMAIN d.turns : d.turns[k].subject = d.subject
  BY <1>2, <1>3 DEF Coherent
<1>5. QED BY <1>3, <1>4 DEF Coherent

\* Without turns nothing is about something else.
LEMMA EmptiedIsCoherent ==
  ASSUME NEW c \in Coherent, NEW subject \in Subjects
  PROVE  /\ Emptied(c) \in Coherent
         /\ [Emptied(c) EXCEPT !.subject = subject] \in Coherent
<1>1. c \in Conversation
  BY DEF Coherent
<1>2. <<>> \in Seq(Turn)
  OBVIOUS
<1>3. Emptied(c) \in Conversation /\ Emptied(c).turns = <<>>
  BY <1>1, <1>2 DEF Emptied, Conversation
<1>4. /\ [Emptied(c) EXCEPT !.subject = subject] \in Conversation
      /\ [Emptied(c) EXCEPT !.subject = subject].turns = <<>>
  BY <1>3 DEF Conversation
<1>5. DOMAIN <<>> = {}
  OBVIOUS
<1>6. Emptied(c) \in Coherent
  BY <1>3, <1>5 DEF Coherent
<1>7. [Emptied(c) EXCEPT !.subject = subject] \in Coherent
  BY <1>4, <1>5 DEF Coherent
<1>8. QED BY <1>6, <1>7

\* A turn of the conversation's subject may be added.
LEMMA AppendedIsCoherent ==
  ASSUME NEW c \in Coherent, NEW t \in Turn, t.subject = c.subject
  PROVE  [c EXCEPT !.turns = Append(c.turns, t)] \in Coherent
<1> DEFINE d == [c EXCEPT !.turns = Append(c.turns, t)]
<1>1. c \in Conversation /\ c.turns \in Seq(Turn)
  BY DEF Coherent, Conversation
<1>2. d \in Conversation /\ d.turns = Append(c.turns, t) /\ d.subject = c.subject
  BY <1>1 DEF Conversation
<1>3. \A k \in DOMAIN d.turns : d.turns[k].subject = d.subject
  BY <1>1, <1>2 DEF Coherent
<1>4. QED BY <1>2, <1>3 DEF Coherent

\* The last turn may be taken away.
LEMMA FrontIsCoherent ==
  ASSUME NEW c \in Coherent, c.turns # <<>>
  PROVE  /\ [c EXCEPT !.turns = Front(c.turns)] \in Coherent
         /\ Range(Front(c.turns)) \subseteq Range(c.turns)
<1> DEFINE d == [c EXCEPT !.turns = Front(c.turns)]
<1>1. c \in Conversation /\ c.turns \in Seq(Turn)
  BY DEF Coherent, Conversation
<1>2. /\ Front(c.turns) \in Seq(Turn) /\ Len(Front(c.turns)) = Len(c.turns) - 1
      /\ \A k \in 1 .. Len(c.turns) - 1 : Front(c.turns)[k] = c.turns[k]
  BY <1>1, SubSeqProperties DEF Front
<1>3. DOMAIN Front(c.turns) \subseteq DOMAIN c.turns
  BY <1>1, <1>2
<1>4. d \in Conversation /\ d.turns = Front(c.turns) /\ d.subject = c.subject
  BY <1>1, <1>2 DEF Conversation
<1>5. \A k \in DOMAIN d.turns : d.turns[k].subject = d.subject
  BY <1>1, <1>2, <1>3, <1>4 DEF Coherent
<1>6. d \in Coherent
  BY <1>4, <1>5 DEF Coherent
<1>7. Range(Front(c.turns)) \subseteq Range(c.turns)
  BY <1>1, <1>2, <1>3 DEF Range
<1>8. QED BY <1>6, <1>7

-----------------------------------------------------------------------------
(* The store keeps its shape *)

\* Changing some conversations into coherent ones.
LEMMA MappedShape ==
  ASSUME conversations \in Seq(Coherent),
         NEW new, new \in [DOMAIN conversations -> Coherent]
  PROVE  new \in Seq(Coherent)
  BY MapIsSeq

\* A new conversation is empty, and at the front.
LEMMA StartShape ==
  ASSUME Shape, NEW subject \in Subjects, StartConversation(subject)
  PROVE  Shape'
<1> DEFINE c == [id |-> sequence', subject |-> subject, turns |-> <<>>]
<1>1. sequence' \in Ids /\ sequence' \in 0 .. MaxIds
  BY BoundsAssumption DEF Shape, StartConversation, Ids
<1>2. <<>> \in Seq(Turn) /\ DOMAIN <<>> = {}
  OBVIOUS
<1>3. c \in Conversation /\ c.turns = <<>>
  BY <1>1, <1>2 DEF Conversation
<1>4. c \in Coherent
  BY <1>2, <1>3 DEF Coherent
<1>5. <<c>> \in Seq(Coherent) /\ conversations \in Seq(Coherent)
  BY <1>4 DEF Shape
<1>6. <<c>> \o conversations \in Seq(Coherent)
  BY <1>5, ConcatProperties
<1>7. conversations' = <<c>> \o conversations
  BY DEF StartConversation
<1>8. QED BY <1>1, <1>6, <1>7 DEF Shape, StartConversation

\* What is left after one conversation was removed.
LEMMA RemoveShape ==
  ASSUME Shape, NEW i \in DOMAIN conversations, RemoveConversation(i)
  PROVE  Shape'
<1>1. conversations \in Seq(Coherent) /\ i \in 1 .. Len(conversations)
  BY DEF Shape
<1>2. /\ SubSeq(conversations, 1, i - 1) \in Seq(Coherent)
      /\ SubSeq(conversations, i + 1, Len(conversations)) \in Seq(Coherent)
  BY <1>1, SubSeqProperties
<1>3. conversations' \in Seq(Coherent)
  BY <1>2, ConcatProperties DEF RemoveConversation, RemoveAt
<1>4. activeId' \in Ids \cup {None}
  <2>1. activeId \in Ids \cup {None}
    BY DEF Shape
  <2>2. ASSUME conversations' # <<>> PROVE conversations'[1].id \in Ids
    <3>1. 1 \in DOMAIN conversations'
      BY <1>3, <2>2
    <3>2. conversations'[1] \in Conversation
      BY <1>3, <3>1 DEF Coherent
    <3>3. QED BY <3>2 DEF Conversation
  <2>3. QED BY <2>1, <2>2 DEF RemoveConversation
<1>5. QED BY <1>3, <1>4 DEF Shape, RemoveConversation

\* A frame, and the end of a stream, patch one turn without changing what it is about.
LEMMA UpdatedShape ==
  ASSUME conversations \in Seq(Coherent), NEW target, NEW id,
         NEW patch \in [Turn -> Turn], \A t \in Turn : patch[t].subject = t.subject
  PROVE  Updated(target, id, LAMBDA t : patch[t]) \in Seq(Coherent)
<1> DEFINE turns(c) == [k \in DOMAIN c.turns |-> IF c.turns[k].id = id
                                                  THEN patch[c.turns[k]] ELSE c.turns[k]]
<1>1. ASSUME NEW c \in Coherent PROVE [c EXCEPT !.turns = turns(c)] \in Coherent
  <2>1. \A k \in DOMAIN c.turns : c.turns[k] \in Turn
    BY DEF Coherent, Conversation
  <2>2. /\ turns(c) \in [DOMAIN c.turns -> Turn]
        /\ \A k \in DOMAIN c.turns : turns(c)[k].subject = c.turns[k].subject
    BY <2>1
  <2>3. QED
    BY <2>2, PatchedIsCoherent
<1>2. \A i \in DOMAIN conversations : conversations[i] \in Coherent
  OBVIOUS
<1>3. Updated(target, id, LAMBDA t : patch[t])
        = [i \in DOMAIN conversations |->
             IF conversations[i].id = target
               THEN [conversations[i] EXCEPT !.turns = turns(conversations[i])]
               ELSE conversations[i]]
  BY DEF Updated, Mapped
<1>4. Updated(target, id, LAMBDA t : patch[t]) \in [DOMAIN conversations -> Coherent]
  <2> HIDE DEF turns
  <2>1. QED BY <1>1, <1>2, <1>3
<1>5. QED BY <1>4, MappedShape

\* What each frame does to its turn.
LEMMA FrameShape ==
  ASSUME conversations \in Seq(Coherent), NEW target, NEW id
  PROVE  /\ \A b \in BOOLEAN :
              Updated(target, id, LAMBDA t : [t EXCEPT !.text = b]) \in Seq(Coherent)
         /\ \A b \in BOOLEAN :
              Updated(target, id, LAMBDA t : [t EXCEPT !.status = "complete", !.text = b])
                \in Seq(Coherent)
         /\ Updated(target, id, LAMBDA t : [t EXCEPT !.status = "failed"]) \in Seq(Coherent)
         /\ \A b \in BOOLEAN :
              Updated(target, id,
                      LAMBDA t : [t EXCEPT !.status = IF @ # "streaming" THEN @
                                                      ELSE IF b THEN "cancelled" ELSE "failed"])
                \in Seq(Coherent)
<1>0. \A i \in DOMAIN conversations : \A k \in DOMAIN conversations[i].turns :
        conversations[i].turns[k] \in Turn
  BY DEF Coherent, Conversation
<1>1. ASSUME NEW b \in BOOLEAN
      PROVE  Updated(target, id, LAMBDA t : [t EXCEPT !.text = b]) \in Seq(Coherent)
  <2> DEFINE patch == [t \in Turn |-> [t EXCEPT !.text = b]]
  <2>1. patch \in [Turn -> Turn] /\ \A t \in Turn : patch[t].subject = t.subject
    BY DEF Turn
  <2>2. Updated(target, id, LAMBDA t : [t EXCEPT !.text = b])
          = Updated(target, id, LAMBDA t : patch[t])
    BY <1>0 DEF Updated, Mapped
  <2>3. Updated(target, id, LAMBDA t : patch[t]) \in Seq(Coherent)
    BY <2>1, UpdatedShape
  <2>4. QED BY <2>2, <2>3
<1>2. ASSUME NEW b \in BOOLEAN
      PROVE  Updated(target, id, LAMBDA t : [t EXCEPT !.status = "complete", !.text = b])
               \in Seq(Coherent)
  <2> DEFINE patch == [t \in Turn |-> [t EXCEPT !.status = "complete", !.text = b]]
  <2>1. patch \in [Turn -> Turn] /\ \A t \in Turn : patch[t].subject = t.subject
    BY DEF Turn
  <2>2. Updated(target, id, LAMBDA t : [t EXCEPT !.status = "complete", !.text = b])
          = Updated(target, id, LAMBDA t : patch[t])
    BY <1>0 DEF Updated, Mapped
  <2>3. Updated(target, id, LAMBDA t : patch[t]) \in Seq(Coherent)
    BY <2>1, UpdatedShape
  <2>4. QED BY <2>2, <2>3
<1>3. Updated(target, id, LAMBDA t : [t EXCEPT !.status = "failed"]) \in Seq(Coherent)
  <2> DEFINE patch == [t \in Turn |-> [t EXCEPT !.status = "failed"]]
  <2>1. patch \in [Turn -> Turn] /\ \A t \in Turn : patch[t].subject = t.subject
    BY DEF Turn
  <2>2. Updated(target, id, LAMBDA t : [t EXCEPT !.status = "failed"])
          = Updated(target, id, LAMBDA t : patch[t])
    BY <1>0 DEF Updated, Mapped
  <2>3. Updated(target, id, LAMBDA t : patch[t]) \in Seq(Coherent)
    BY <2>1, UpdatedShape
  <2>4. QED BY <2>2, <2>3
<1>4. ASSUME NEW b \in BOOLEAN
      PROVE  Updated(target, id,
                     LAMBDA t : [t EXCEPT !.status = IF @ # "streaming" THEN @
                                                     ELSE IF b THEN "cancelled" ELSE "failed"])
               \in Seq(Coherent)
  <2> DEFINE patch == [t \in Turn |-> [t EXCEPT !.status = IF @ # "streaming" THEN @
                                         ELSE IF b THEN "cancelled" ELSE "failed"]]
  <2>1. patch \in [Turn -> Turn] /\ \A t \in Turn : patch[t].subject = t.subject
    BY DEF Turn
  <2>2. Updated(target, id,
                LAMBDA t : [t EXCEPT !.status = IF @ # "streaming" THEN @
                                                ELSE IF b THEN "cancelled" ELSE "failed"])
          = Updated(target, id, LAMBDA t : patch[t])
    BY <1>0 DEF Updated, Mapped
  <2>3. Updated(target, id, LAMBDA t : patch[t]) \in Seq(Coherent)
    BY <2>1, UpdatedShape
  <2>4. QED BY <2>2, <2>3
<1>5. QED BY <1>1, <1>2, <1>3, <1>4

-----------------------------------------------------------------------------
(* Streams *)

\* An abort marks streams and changes nothing else about them.
LEMMA AbortedStreams ==
  ASSUME streams \subseteq Faithful, NEW id
  PROVE  /\ Aborted(streams, id) \subseteq Faithful
         /\ \A u \in Aborted(streams, id) : \E s \in streams :
              /\ u = [s EXCEPT !.aborted = s.aborted \/ s.turn = id]
              /\ u.turn = s.turn /\ u.visit = s.visit
              /\ ~u.aborted => ~s.aborted /\ s.turn # id
<1> DEFINE mark(s) == [s EXCEPT !.aborted = s.aborted \/ s.turn = id]
<1>1. ASSUME NEW s \in streams
      PROVE  /\ mark(s) \in Faithful
             /\ mark(s).turn = s.turn /\ mark(s).visit = s.visit
             /\ ~mark(s).aborted => ~s.aborted /\ s.turn # id
  <2> DEFINE b == s.aborted \/ s.turn = id
             u == [s EXCEPT !.aborted = b]
  <2>1. s \in Stream /\ s \in Faithful
    BY DEF Faithful
  <2>2. b \in BOOLEAN
    OBVIOUS
  <2>3. u \in Stream /\ u.aborted = b /\ u.turn = s.turn /\ u.visit = s.visit
          /\ u.history = s.history /\ u.subject = s.subject
    <3> HIDE DEF b
    <3>1. QED BY <2>1, <2>2 DEF Stream
  <2>4. u \in Faithful
    BY <2>1, <2>3 DEF Faithful
  <2>5. QED BY <2>3, <2>4
<1>2. Aborted(streams, id) = {mark(s) : s \in streams}
  BY DEF Aborted
<1>3. \A u \in Aborted(streams, id) : \E s \in streams : u = mark(s)
  BY <1>2
<1>4. ASSUME NEW u \in Aborted(streams, id)
      PROVE  u \in Faithful /\ \E s \in streams :
               /\ u = mark(s) /\ u.turn = s.turn /\ u.visit = s.visit
               /\ ~u.aborted => ~s.aborted /\ s.turn # id
  <2>1. PICK s \in streams : u = mark(s)
    BY <1>3
  <2> HIDE DEF mark
  <2>2. QED BY <2>1, <1>1
<1>5. QED BY <1>4

\* Aborting streams leaves their places in the page as they were.
LEMMA AbortKeepsPlaces ==
  ASSUME IInv, NEW id, streams' = Aborted(streams, id),
         UNCHANGED <<sequence, visit, page>>
  PROVE  OneStreamPerVisit' /\ EveryStreamCanBeStopped'
<1>1. \A u \in streams' : \E s \in streams :
        /\ u = [s EXCEPT !.aborted = s.aborted \/ s.turn = id]
        /\ u.turn = s.turn /\ u.visit = s.visit
        /\ ~u.aborted => ~s.aborted /\ s.turn # id
  BY AbortedStreams DEF IInv, Shape
<1>2. OneStreamPerVisit'
  BY <1>1 DEF IInv, OneStreamPerVisit
<1>3. EveryStreamCanBeStopped'
  BY <1>1 DEF IInv, EveryStreamCanBeStopped
<1>4. QED BY <1>2, <1>3

\* A frame keeps the stream in its place.
LEMMA FrameKeepsPlaces ==
  ASSUME IInv, NEW s \in streams, NEW b \in BOOLEAN,
         streams' = (streams \ {s}) \cup {[s EXCEPT !.terminal = b]},
         UNCHANGED <<sequence, visit, page>>
  PROVE  /\ streams' \subseteq Faithful
         /\ OneStreamPerVisit' /\ EveryStreamCanBeStopped'
<1> DEFINE u == [s EXCEPT !.terminal = b]
<1>1. s \in Faithful /\ s \in Stream
  BY DEF IInv, Shape, Faithful
<1>2. /\ u \in Stream /\ u.turn = s.turn /\ u.visit = s.visit /\ u.aborted = s.aborted
      /\ u.history = s.history /\ u.subject = s.subject
  BY <1>1 DEF Stream
<1>3. u \in Faithful
  BY <1>1, <1>2 DEF Faithful
<1>4. streams' = (streams \ {s}) \cup {u}
  OBVIOUS
<1> HIDE DEF u
<1>5. streams' \subseteq Faithful
  BY <1>3, <1>4 DEF IInv, Shape
<1>6. OneStreamPerVisit'
  BY <1>2, <1>4 DEF IInv, OneStreamPerVisit
<1>7. EveryStreamCanBeStopped'
  BY <1>2, <1>4 DEF IInv, EveryStreamCanBeStopped
<1>8. QED BY <1>5, <1>6, <1>7

\* A stream that returns was the only one of its visit.
LEMMA ReleaseKeepsPlaces ==
  ASSUME IInv, NEW s \in streams, Released(s)
  PROVE  /\ streams' \subseteq Faithful /\ page' \in Page
         /\ OneStreamPerVisit' /\ EveryStreamCanBeStopped'
<1>1. /\ streams' = streams \ {s} /\ UNCHANGED <<sequence, visit>>
      /\ page' = IF s.visit = visit /\ page.mounted
                   THEN [page EXCEPT !.streaming = FALSE, !.controller = None] ELSE page
  BY DEF Released
<1>2. streams' \subseteq Faithful /\ page' \in Page /\ page'.mounted = page.mounted
  BY <1>1 DEF IInv, Shape, Page
<1>3. s.visit = visit /\ page.mounted => \A t \in streams' : t.visit # visit
  BY <1>1 DEF IInv, OneStreamPerVisit
<1>4. OneStreamPerVisit'
  BY <1>1, <1>2, <1>3 DEF IInv, OneStreamPerVisit
<1>5. EveryStreamCanBeStopped'
  BY <1>1, <1>3 DEF IInv, EveryStreamCanBeStopped
<1>6. QED BY <1>2, <1>4, <1>5

\* The history of a coherent conversation is faithful to its subject.
LEMMA HistoryIsFaithful ==
  ASSUME NEW c \in Coherent, NEW turns, turns \subseteq Range(c.turns)
  PROVE  /\ HistoryOf(turns) \subseteq Turn
         /\ \A t \in HistoryOf(turns) : t.status = "complete" /\ t.subject = c.subject
<1>1. c.turns \in Seq(Turn)
  BY DEF Coherent, Conversation
<1>2. \A t \in turns : \E k \in DOMAIN c.turns : t = c.turns[k]
  BY DEF Range
<1>3. \A t \in turns : t \in Turn /\ t.subject = c.subject
  BY <1>1, <1>2 DEF Coherent
<1>4. QED BY <1>3 DEF HistoryOf

-----------------------------------------------------------------------------
(* The steps *)

\* The invariant says nothing about activeId and conversations but their shape.
LEMMA SamePlaces ==
  ASSUME IInv, UNCHANGED <<visit, page, streams>>, sequence' \in Nat, sequence <= sequence'
  PROVE  OneStreamPerVisit' /\ EveryStreamCanBeStopped'
<1>1. sequence \in Nat /\ \A s \in streams : s.turn \in Nat
  BY BoundsAssumption DEF IInv, Shape, Faithful, Stream, Ids
<1>2. OneStreamPerVisit'
  BY <1>1 DEF IInv, OneStreamPerVisit
<1>3. QED BY <1>2 DEF IInv, EveryStreamCanBeStopped

\* A question begins a stream only where the visit has none.
LEMMA SendStep ==
  ASSUME IInv, NEW i \in DOMAIN conversations, page.mounted, ~page.streaming,
         NEW list \in Seq(Coherent), DOMAIN list = DOMAIN conversations,
         list[i].subject = conversations[i].subject,
         NEW turns, turns \subseteq Range(conversations[i].turns),
         Send(i, list, HistoryOf(turns))
  PROVE  IInv'
<1> DEFINE c == conversations[i]
           t == [id |-> sequence', subject |-> c.subject, text |-> FALSE,
                 status |-> "streaming"]
           n == [turn |-> sequence', target |-> c.id, visit |-> visit, subject |-> c.subject,
                 aborted |-> FALSE, terminal |-> FALSE, history |-> HistoryOf(turns)]
<1>1. c \in Coherent /\ c \in Conversation /\ c.id \in Ids /\ c.subject \in Subjects
  BY DEF IInv, Shape, Coherent, Conversation
<1>2. /\ sequence' = sequence + 1 /\ sequence' \in Ids
      /\ sequence \in Nat /\ sequence' \in 0 .. MaxIds
  BY BoundsAssumption DEF IInv, Shape, Send, Ids
<1>3. conversations' \in Seq(Coherent)
  <2>1. t \in Turn /\ t.subject = c.subject
    BY <1>1, <1>2 DEF Turn
  <2>2. list[i] \in Coherent
    OBVIOUS
  <2>3. [list[i] EXCEPT !.turns = Append(list[i].turns, t)] \in Coherent
    BY <2>1, <2>2, AppendedIsCoherent
  <2>4. conversations' = [list EXCEPT ![i] = [list[i] EXCEPT !.turns = Append(list[i].turns, t)]]
    BY DEF Send
  <2>5. QED BY <2>3, <2>4, ExceptSeq
<1>4. n \in Faithful
  <2>1. HistoryOf(turns) \subseteq Turn
        /\ \A u \in HistoryOf(turns) : u.status = "complete" /\ u.subject = c.subject
    BY <1>1, HistoryIsFaithful
  <2>2. visit \in 1 .. MaxVisits
    BY DEF IInv, Shape, OneStreamPerVisit
  <2>3. n \in Stream
    BY <1>1, <1>2, <2>1, <2>2 DEF Stream
  <2>4. QED BY <2>1, <2>3 DEF Faithful
<1>5. /\ streams' = streams \cup {n} /\ UNCHANGED <<activeId, visit>>
      /\ page' = [page EXCEPT !.streaming = TRUE, !.controller = sequence']
  BY DEF Send
<1>6. page' \in Page /\ page'.mounted /\ page'.streaming /\ page'.controller = sequence'
  BY <1>2, <1>5 DEF IInv, Shape, Page
<1>7. /\ n.turn = sequence' /\ n.visit = visit
      /\ \A s \in streams : s.visit # visit /\ s.aborted /\ s.turn <= sequence /\ s.turn \in Nat
                           /\ s.visit <= visit
  BY BoundsAssumption DEF IInv, OneStreamPerVisit, EveryStreamCanBeStopped, Shape, Faithful,
     Stream, Ids
<1>8. Shape'
  BY <1>2, <1>3, <1>4, <1>5, <1>6 DEF IInv, Shape
<1> HIDE DEF n
<1>9. OneStreamPerVisit'
  <2>1. visit \in Nat
    BY BoundsAssumption DEF IInv, Shape
  <2>2. \A s \in streams' : s.turn <= sequence' /\ s.visit <= visit'
    BY <1>2, <1>5, <1>7, <2>1
  <2>3. \A s, u \in streams' : s.turn = u.turn => s = u
    <3>1. \A s \in streams : s.turn # n.turn
      BY <1>2, <1>7
    <3>2. QED BY <1>5, <3>1 DEF IInv, OneStreamPerVisit
  <2>4. \A s \in streams' : s.visit = visit' => page'.streaming /\ page'.controller = s.turn
    BY <1>5, <1>6, <1>7
  <2>5. QED BY <1>5, <1>6, <2>2, <2>3, <2>4 DEF OneStreamPerVisit, IInv
<1>10. EveryStreamCanBeStopped'
  BY <1>5, <1>6, <1>7 DEF EveryStreamCanBeStopped
<1>11. QED BY <1>8, <1>9, <1>10 DEF IInv

\* The page begins without streams.
LEMMA IInvInit == Init => IInv
<1> SUFFICES ASSUME Init PROVE IInv
  OBVIOUS
<1>1. <<>> \in Seq(Coherent)
  OBVIOUS
<1>2. Shape
  BY <1>1, BoundsAssumption DEF Init, Shape, NoPage, Page
<1>3. OneStreamPerVisit /\ EveryStreamCanBeStopped
  BY DEF Init, OneStreamPerVisit, EveryStreamCanBeStopped, NoPage
<1>4. QED BY <1>2, <1>3 DEF IInv

\* The steps of the page between two streams.
LEMMA PageStep ==
  ASSUME IInv, Mount \/ Unmount \/ Stop
  PROVE  IInv'
<1>1. CASE Mount
  <2>1. visit \in Nat /\ visit' = visit + 1 /\ visit' \in 0 .. MaxVisits
    BY <1>1, BoundsAssumption DEF IInv, Shape, Mount
  <2>2. page' \in Page /\ ~page'.streaming
    BY <1>1 DEF Mount, NoPage, Page
  <2>3. Shape'
    BY <1>1, <2>1, <2>2 DEF IInv, Shape, Mount
  <2>4. /\ UNCHANGED <<sequence, streams>>
        /\ \A s \in streams : s.aborted /\ s.visit \in Nat /\ s.visit <= visit
    BY <1>1, BoundsAssumption DEF IInv, Mount, OneStreamPerVisit, EveryStreamCanBeStopped,
       Shape, Faithful, Stream
  <2>5. OneStreamPerVisit'
    BY <2>1, <2>4 DEF IInv, OneStreamPerVisit
  <2>6. EveryStreamCanBeStopped'
    BY <2>4 DEF EveryStreamCanBeStopped
  <2>7. QED BY <2>3, <2>5, <2>6 DEF IInv
<1>2. CASE Unmount
  <2>1. page' \in Page /\ ~page'.mounted
    BY <1>2 DEF Unmount, NoPage, Page
  <2>2. streams' \subseteq Faithful
    BY <1>2, AbortedStreams DEF IInv, Shape, Unmount
  <2>3. \A u \in streams' : \E s \in streams :
          /\ u = [s EXCEPT !.aborted = s.aborted \/ s.turn = page.controller]
          /\ u.turn = s.turn /\ u.visit = s.visit
          /\ ~u.aborted => ~s.aborted /\ s.turn # page.controller
    BY <1>2, AbortedStreams DEF IInv, Shape, Unmount
  <2>4. UNCHANGED <<sequence, visit>>
    BY <1>2 DEF Unmount
  <2>5. OneStreamPerVisit'
    BY <2>1, <2>3, <2>4 DEF IInv, OneStreamPerVisit
  <2>6. EveryStreamCanBeStopped'
    BY <2>3 DEF IInv, EveryStreamCanBeStopped
  <2>7. Shape'
    BY <1>2, <2>1, <2>2 DEF IInv, Shape, Unmount
  <2>8. QED BY <2>5, <2>6, <2>7 DEF IInv
<1>3. CASE Stop
  <2>1. streams' \subseteq Faithful
    BY <1>3, AbortedStreams DEF IInv, Shape, Stop
  <2>2. OneStreamPerVisit' /\ EveryStreamCanBeStopped'
    BY <1>3, AbortKeepsPlaces DEF Stop
  <2>3. Shape'
    BY <1>3, <2>1 DEF IInv, Shape, Stop
  <2>4. QED BY <2>2, <2>3 DEF IInv
<1>4. QED BY <1>1, <1>2, <1>3

\* The steps of the store.
LEMMA StoreStep ==
  ASSUME IInv,
         \/ EnsureConversation
         \/ \E subject \in Subjects : New(subject)
         \/ \E i \in DOMAIN conversations :
              \/ SelectConversation(i) \/ RemoveConversation(i)
              \/ \E subject \in Subjects : SetSubject(i, subject)
  PROVE  IInv'
<1>0. Shape /\ sequence \in Nat
  BY BoundsAssumption DEF IInv, Shape
<1>1. ASSUME NEW subject \in Subjects, StartConversation(subject) PROVE IInv'
  <2>1. Shape'
    BY <1>0, <1>1, StartShape
  <2>2. UNCHANGED <<visit, page, streams>> /\ sequence' \in Nat /\ sequence <= sequence'
    BY <1>0, <1>1 DEF StartConversation
  <2>3. QED BY <2>1, <2>2, SamePlaces DEF IInv
<1>2. CASE EnsureConversation
  BY <1>1, <1>2, RepositoryAssumption DEF EnsureConversation
<1>3. ASSUME NEW subject \in Subjects, New(subject) PROVE IInv'
  BY <1>1, <1>3 DEF New
<1>4. ASSUME NEW i \in DOMAIN conversations, SelectConversation(i) PROVE IInv'
  <2>1. conversations[i] \in Conversation
    BY <1>0 DEF Shape, Coherent
  <2>2. Shape'
    BY <1>0, <1>4, <2>1 DEF Shape, SelectConversation, Conversation
  <2>3. UNCHANGED <<sequence, visit, page, streams>>
    BY <1>4 DEF SelectConversation
  <2>4. QED BY <1>0, <2>2, <2>3, SamePlaces DEF IInv
<1>5. ASSUME NEW i \in DOMAIN conversations, RemoveConversation(i) PROVE IInv'
  <2>1. Shape'
    BY <1>0, <1>5, RemoveShape
  <2>2. UNCHANGED <<sequence, visit, page, streams>>
    BY <1>5 DEF RemoveConversation
  <2>3. QED BY <1>0, <2>1, <2>2, SamePlaces DEF IInv
<1>6. ASSUME NEW i \in DOMAIN conversations, NEW subject \in Subjects, SetSubject(i, subject)
      PROVE  IInv'
  <2>1. conversations' = [k \in DOMAIN conversations |->
            IF conversations[k].id = conversations[i].id
              THEN [Emptied(conversations[k]) EXCEPT !.subject = subject] ELSE conversations[k]]
    BY <1>6 DEF SetSubject, Mapped
  <2>2. \A k \in DOMAIN conversations :
          /\ conversations[k] \in Coherent
          /\ [Emptied(conversations[k]) EXCEPT !.subject = subject] \in Coherent
    BY <1>0, EmptiedIsCoherent DEF Shape
  <2>3. conversations' \in [DOMAIN conversations -> Coherent]
    BY <2>1, <2>2
  <2>4. conversations' \in Seq(Coherent)
    BY <1>0, <2>3, MappedShape DEF Shape
  <2>5. UNCHANGED <<sequence, activeId, visit, page, streams>>
    BY <1>6 DEF SetSubject
  <2>6. Shape'
    BY <1>0, <2>4, <2>5 DEF Shape
  <2>7. QED BY <1>0, <2>5, <2>6, SamePlaces DEF IInv
<1>7. QED BY <1>2, <1>3, <1>4, <1>5, <1>6

\* The questions of the reader.
LEMMA QuestionStep ==
  ASSUME IInv, NEW i \in Active, Ask(i) \/ Retry(i) \/ Clear(i)
  PROVE  IInv'
<1>0. /\ i \in DOMAIN conversations /\ conversations \in Seq(Coherent)
      /\ conversations[i] \in Coherent
  BY DEF Active, IInv, Shape
<1>1. CASE Ask(i)
  BY <1>0, <1>1, SendStep DEF Ask
<1>2. CASE Retry(i)
  <2> DEFINE c    == conversations[i]
             list == [conversations EXCEPT ![i].turns = Front(c.turns)]
  <2>1. /\ [c EXCEPT !.turns = Front(c.turns)] \in Coherent
        /\ Range(Front(c.turns)) \subseteq Range(c.turns)
    BY <1>0, <1>2, FrontIsCoherent DEF Retry
  <2>2. list = [conversations EXCEPT ![i] = [c EXCEPT !.turns = Front(c.turns)]]
    OBVIOUS
  <2>3. list \in Seq(Coherent) /\ DOMAIN list = DOMAIN conversations
    BY <1>0, <2>1, <2>2, ExceptSeq
  <2>4. list[i].subject = c.subject
    BY <1>0, <2>2 DEF Coherent, Conversation
  <2>5. page.mounted /\ ~page.streaming /\ Send(i, list, HistoryOf(Range(Front(c.turns))))
    BY <1>2 DEF Retry
  <2> HIDE DEF list
  <2>6. QED BY <1>0, <2>1, <2>3, <2>4, <2>5, SendStep
<1>3. CASE Clear(i)
  <2>1. conversations' \in Seq(Coherent)
    <3>1. conversations' = [k \in DOMAIN conversations |->
              IF conversations[k].id = activeId THEN Emptied(conversations[k])
                                                ELSE conversations[k]]
      BY <1>3 DEF Clear, Mapped
    <3>2. \A k \in DOMAIN conversations :
            conversations[k] \in Coherent /\ Emptied(conversations[k]) \in Coherent
      <4>1. ASSUME NEW c \in Coherent, NEW subject \in Subjects PROVE Emptied(c) \in Coherent
        BY EmptiedIsCoherent
      <4>2. QED BY <1>0, <4>1, RepositoryAssumption
    <3>3. conversations' \in [DOMAIN conversations -> Coherent]
      BY <3>1, <3>2
    <3>4. QED BY <1>0, <3>3, MappedShape
  <2>2. streams' = Aborted(streams, page.controller)
        /\ UNCHANGED <<sequence, activeId, visit, page>>
    BY <1>3 DEF Clear
  <2>3. streams' \subseteq Faithful
    BY <2>2, AbortedStreams DEF IInv, Shape
  <2>4. OneStreamPerVisit' /\ EveryStreamCanBeStopped'
    BY <2>2, AbortKeepsPlaces
  <2>5. QED BY <2>1, <2>2, <2>3, <2>4 DEF IInv, Shape
<1>4. QED BY <1>1, <1>2, <1>3

\* What comes of a stream while it is read, and when it ends.
LEMMA StreamStep ==
  ASSUME IInv, NEW s \in streams,
         \/ Delta(s) \/ Restart(s) \/ Fails(s) \/ Ends(s) \/ Throws(s)
         \/ \E prose \in BOOLEAN : Completes(s, prose)
  PROVE  IInv'
<1>0. conversations \in Seq(Coherent) /\ s.aborted \in BOOLEAN
  BY DEF IInv, Shape, Faithful, Stream
<1>1. ASSUME NEW b \in BOOLEAN,
             streams' = (streams \ {s}) \cup {[s EXCEPT !.terminal = b]},
             conversations' \in Seq(Coherent), UNCHANGED <<sequence, activeId, visit, page>>
      PROVE  IInv'
  <2>1. streams' \subseteq Faithful /\ OneStreamPerVisit' /\ EveryStreamCanBeStopped'
    BY <1>1, FrameKeepsPlaces
  <2>2. QED BY <1>1, <2>1 DEF IInv, Shape
<1>2. ASSUME Released(s), conversations' \in Seq(Coherent)
      PROVE  IInv'
  <2>1. /\ streams' \subseteq Faithful /\ page' \in Page
        /\ OneStreamPerVisit' /\ EveryStreamCanBeStopped'
    BY <1>2, ReleaseKeepsPlaces
  <2>2. UNCHANGED <<sequence, activeId, visit>>
    BY <1>2 DEF Released
  <2>3. QED BY <1>2, <2>1, <2>2 DEF IInv, Shape
<1>3. CASE Delta(s)
  <2>1. conversations' = Updated(s.target, s.turn, LAMBDA t : [t EXCEPT !.text = TRUE])
    BY <1>3 DEF Delta, Frame
  <2>2. Updated(s.target, s.turn, LAMBDA t : [t EXCEPT !.text = TRUE]) \in Seq(Coherent)
    BY <1>0, FrameShape
  <2>3. QED BY <1>1, <1>3, <2>1, <2>2 DEF Delta, Frame
<1>4. CASE Restart(s)
  <2>1. conversations' = Updated(s.target, s.turn, LAMBDA t : [t EXCEPT !.text = FALSE])
    BY <1>4 DEF Restart, Frame
  <2>2. Updated(s.target, s.turn, LAMBDA t : [t EXCEPT !.text = FALSE]) \in Seq(Coherent)
    BY <1>0, FrameShape
  <2>3. QED BY <1>1, <1>4, <2>1, <2>2 DEF Restart, Frame
<1>5. CASE Fails(s)
  <2>1. conversations' = Updated(s.target, s.turn, LAMBDA t : [t EXCEPT !.status = "failed"])
    BY <1>5 DEF Fails, Frame
  <2>2. Updated(s.target, s.turn, LAMBDA t : [t EXCEPT !.status = "failed"]) \in Seq(Coherent)
    BY <1>0, FrameShape
  <2>3. QED BY <1>1, <1>5, <2>1, <2>2 DEF Fails, Frame
<1>6. CASE Ends(s)
  <2>1. conversations' =
          Updated(s.target, s.turn,
                  LAMBDA t : [t EXCEPT !.status = IF @ # "streaming" THEN @
                                        ELSE IF s.aborted THEN "cancelled" ELSE "failed"])
    BY <1>6 DEF Ends
  <2>2. Updated(s.target, s.turn,
                LAMBDA t : [t EXCEPT !.status = IF @ # "streaming" THEN @
                                      ELSE IF s.aborted THEN "cancelled" ELSE "failed"])
          \in Seq(Coherent)
    BY <1>0, FrameShape
  <2>3. QED BY <1>2, <1>6, <2>1, <2>2 DEF Ends
<1>7. CASE Throws(s)
  <2>1. conversations' = Updated(s.target, s.turn, LAMBDA t : [t EXCEPT !.status = "failed"])
    BY <1>7 DEF Throws
  <2>2. Updated(s.target, s.turn, LAMBDA t : [t EXCEPT !.status = "failed"]) \in Seq(Coherent)
    BY <1>0, FrameShape
  <2>3. QED BY <1>2, <1>7, <2>1, <2>2 DEF Throws
<1>8. ASSUME NEW prose \in BOOLEAN, Completes(s, prose) PROVE IInv'
  <2>1. conversations' =
          Updated(s.target, s.turn,
                  LAMBDA t : [t EXCEPT !.status = "complete", !.text = prose])
    BY <1>8 DEF Completes, Frame
  <2>2. Updated(s.target, s.turn,
                LAMBDA t : [t EXCEPT !.status = "complete", !.text = prose]) \in Seq(Coherent)
    BY <1>0, FrameShape
  <2>3. QED BY <1>1, <1>8, <2>1, <2>2 DEF Completes, Frame
<1>9. QED BY <1>3, <1>4, <1>5, <1>6, <1>7, <1>8

\* Every step keeps the invariant.
LEMMA IInvNext == IInv /\ [Next]_vars => IInv'
<1> SUFFICES ASSUME IInv, [Next]_vars PROVE IInv'
  OBVIOUS
<1>1. CASE UNCHANGED vars
  BY <1>1 DEF vars, IInv, Shape, OneStreamPerVisit, EveryStreamCanBeStopped
<1>2. CASE Mount \/ Unmount \/ Stop
  BY <1>2, PageStep
<1>3. CASE \/ EnsureConversation
           \/ \E subject \in Subjects : New(subject)
           \/ \E i \in DOMAIN conversations :
                \/ SelectConversation(i) \/ RemoveConversation(i)
                \/ \E subject \in Subjects : SetSubject(i, subject)
  BY <1>3, StoreStep
<1>4. ASSUME NEW i \in Active, Ask(i) \/ Retry(i) \/ Clear(i) PROVE IInv'
  BY <1>4, QuestionStep
<1>5. ASSUME NEW s \in streams,
             \/ Delta(s) \/ Restart(s) \/ Fails(s) \/ Ends(s) \/ Throws(s)
             \/ \E prose \in BOOLEAN : Completes(s, prose)
      PROVE  IInv'
  BY <1>5, StreamStep
<1>6. QED BY <1>1, <1>2, <1>3, <1>4, <1>5 DEF Next

\* The stream of every visit can be stopped by the page the reader sees, or was.
THEOREM StreamsCanBeStopped == Spec => []EveryStreamCanBeStopped
<1>1. IInv => EveryStreamCanBeStopped
  BY DEF IInv
<1>2. QED BY IInvInit, IInvNext, <1>1, PTL DEF Spec

\* A conversation and the requests made from it keep to one subject.
THEOREM ConversationsKeepTheirSubject == Spec => []OneSubjectPerConversation
<1>1. IInv => OneSubjectPerConversation
  <2> SUFFICES ASSUME IInv PROVE OneSubjectPerConversation
    OBVIOUS
  <2>1. ASSUME NEW i \in DOMAIN conversations, NEW t \in Range(conversations[i].turns)
        PROVE  t.subject = conversations[i].subject
    <3>1. conversations[i] \in Coherent
      BY DEF IInv, Shape
    <3>2. PICK k \in DOMAIN conversations[i].turns : t = conversations[i].turns[k]
      BY DEF Range
    <3>3. QED BY <3>1, <3>2 DEF Coherent
  <2>2. \A s \in streams : \A t \in s.history :
          t.status = "complete" /\ t.subject = s.subject
    BY DEF IInv, Shape, Faithful
  <2>3. QED BY <2>1, <2>2 DEF OneSubjectPerConversation
<1>2. QED BY IInvInit, IInvNext, <1>1, PTL DEF Spec

-----------------------------------------------------------------------------
(* The dialog: a busy page follows something *)

\* A page that is not busy owes nothing.
LEMMA FollowedInit == DialogInit => BusyIsFollowed
  BY DEF DialogInit, BusyIsFollowed

\* Answering a request leaves it to be taken back.
LEMMA RepliesKeepsRequests ==
  ASSUME NEW r, NEW outcome, NEW reply, Replies(r, outcome, reply)
  PROVE  requests' # {}
<1>1. [r EXCEPT !.outcome = outcome, !.reply = reply] \in requests'
  BY DEF Replies
<1>2. QED BY <1>1

\* A reply that is taken back settles the page or sets the next timer.
LEMMA ReturnsFollows ==
  ASSUME BusyIsFollowed, NEW r \in requests, Returns(r)
  PROVE  BusyIsFollowed'
<1>1. CASE gone /\ r.kind = "get"
  BY <1>1 DEF Returns, BusyIsFollowed
<1>2. CASE ~(gone /\ r.kind = "get")
  <2>1. Followed(r) \/ Lost(r) \/ Blip(r)
    BY <1>2 DEF Returns
  <2>2. CASE Followed(r)
    <3>1. CASE r.reply.status \in Ended
      BY <2>2, <3>1 DEF Followed, Follow, BusyIsFollowed
    <3>2. CASE r.reply.status \notin Ended
      <4>1. r.reply.id \in timers'
        BY <2>2, <3>2 DEF Followed, Follow, Poll
      <4>2. QED BY <4>1 DEF BusyIsFollowed
    <3>3. QED BY <3>1, <3>2
  <2>3. CASE Lost(r)
    BY <2>3 DEF Lost, GiveUp, BusyIsFollowed
  <2>4. CASE Blip(r)
    <3>1. r.id \in timers'
      BY <2>4 DEF Blip, Poll
    <3>2. QED BY <3>1 DEF BusyIsFollowed
  <2>5. QED BY <2>1, <2>2, <2>3, <2>4
<1>3. QED BY <1>1, <1>2

\* Every step of the page and of the server leaves a busy page something to wait for.
LEMMA FollowedNext == BusyIsFollowed /\ [DialogNext]_dialogVars => BusyIsFollowed'
<1> SUFFICES ASSUME BusyIsFollowed, [DialogNext]_dialogVars
             PROVE  BusyIsFollowed'
  OBVIOUS
<1>1. ASSUME NEW id \in JobIds, Works(id) PROVE BusyIsFollowed'
  BY <1>1 DEF Works, shown, BusyIsFollowed
<1>2. ASSUME NEW id \in JobIds, TimerFires(id) PROVE BusyIsFollowed'
  <2>1. ~gone => Sent("get", id) \in requests'
    BY <1>2 DEF TimerFires
  <2>2. gone' = gone
    BY <1>2 DEF TimerFires
  <2>3. QED BY <2>1, <2>2 DEF BusyIsFollowed
<1>3. CASE Restarts
  BY <1>3 DEF Restarts, shown, BusyIsFollowed
<1>4. CASE Analyze
  <2>1. Sent("start", starts') \in requests'
    BY <1>4 DEF Analyze
  <2>2. QED BY <2>1 DEF BusyIsFollowed
<1>5. CASE Reset
  BY <1>5 DEF Reset, BusyIsFollowed
<1>6. CASE Leave
  BY <1>6 DEF Leave, BusyIsFollowed
<1>7. ASSUME NEW r \in requests, Accepts(r) \/ Answers(r) \/ Errs(r)
      PROVE  BusyIsFollowed'
  <2>1. requests' # {}
    <3>1. CASE Accepts(r)
      <4>1. PICK id \in JobIds : Replies(r, "job", [id |-> id, status |-> phase'[id]])
        BY <3>1 DEF Accepts
      <4>2. QED BY <4>1, RepliesKeepsRequests
    <3>2. CASE Answers(r)
      <4>1. \/ Replies(r, "job", [id |-> r.id, status |-> phase[r.id]])
            \/ Replies(r, "notFound", NoJob)
        BY <3>2 DEF Answers
      <4>2. QED BY <4>1, RepliesKeepsRequests
    <3>3. CASE Errs(r)
      <4>1. Replies(r, "error", NoJob)
        BY <3>3 DEF Errs
      <4>2. QED BY <4>1, RepliesKeepsRequests
    <3>4. QED BY <1>7, <3>1, <3>2, <3>3
  <2>2. QED BY <2>1 DEF BusyIsFollowed
<1>8. ASSUME NEW r \in requests, Returns(r) PROVE BusyIsFollowed'
  BY <1>8, ReturnsFollows
<1>9. CASE UNCHANGED dialogVars
  BY <1>9 DEF dialogVars, shown, BusyIsFollowed
<1>10. QED
  BY <1>1, <1>2, <1>3, <1>4, <1>5, <1>6, <1>7, <1>8, <1>9 DEF DialogNext

\* A busy page always has a request out or a poll to come, for any number of jobs,
\* submissions, lost replies and restarts (use-analysis.ts).
THEOREM BusyPagesFollow == DialogSpec => []BusyIsFollowed
  BY FollowedInit, FollowedNext, PTL DEF DialogSpec
=============================================================================
