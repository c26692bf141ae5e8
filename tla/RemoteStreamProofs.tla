-------------------------- MODULE RemoteStreamProofs --------------------------
(***************************************************************************)
(* For every set of connections, any number of frames, publishers and      *)
(* devices, and buffers of any size: what the publisher promises, what the *)
(* watcher promises to the screen, and that both promises hold of a whole  *)
(* remote session over a network that breaks connections.                  *)
(*                                                                         *)
(* A session's steps are the publisher's own, or steps of the clients that *)
(* the publisher's specification allows, so its theorems carry over.  The  *)
(* watcher's invariant asks of whoever sends only that typed frames arrive *)
(* (LinkTypeOK); that they arrive in the order of publication, over every  *)
(* reconnection, is shown for a peer that sends the newest frame and for   *)
(* the publisher.                                                          *)
(***************************************************************************)
EXTENDS RemoteStream, FiniteSetTheorems, SequenceTheorems, TLAPS

(* The publisher. *)

\* Nothing is on a connection whose task has not come to sending.
SilentBeforeSending ==
  \A k \in Conn : task[k] \in {"none", "handshake", "greet"} => wire[k] = <<>> /\ got[k] = 0

\* The slot is empty or has the last frame of all publishers.
SlotIsNewest == slot \in {0, published}

\* What a task is about to send comes after everything it sent.
SendsNext ==
  \A k \in Conn : task[k] = "sending" =>
    /\ holds[k] # 0 /\ holds[k] = seen[k]
    /\ link[k] = "open" => LastSent(k) < holds[k]

SeenWasInSlot == \A k \in Conn : task[k] \in {"sending", "waiting"} => seen[k] <= slot

DownIsQuiet ==
  server = "down" => \A k \in Conn : task[k] \in {"none", "gone", "cancelled"}

PublisherIInv ==
  /\ PublisherTypeOK
  /\ CountIsExact
  /\ FramesInOrder
  /\ NothingForgotten
  /\ SilentBeforeSending
  /\ SlotIsNewest
  /\ SendsNext
  /\ SeenWasInSlot
  /\ DownIsQuiet

(* The watcher. *)

\* The reader has a connection exactly where it uses one.
ReaderHasConnection ==
  conn # 0 <=> rpc \in {"upgrading", "reading", "store", "bump", "leave"}

\* The counter is never behind what apply_latest knows of it, and is stepped
\* after there is a frame.
CounterFollows ==
  /\ lastGen <= generation /\ genRead <= generation
  /\ generation > 0 \/ rpc = "bump" => latest # 0
  /\ rpc = "store" => inHand # 0

CloneIsReady == upc = "clone" => latest # 0 /\ ~Stopping

AppliedIsParsed == applied # 0 => content[applied] # Garbled

WsIInv ==
  /\ WsTypeOK
  /\ ReaderHasConnection
  /\ CounterFollows
  /\ CloneIsReady
  /\ NothingUnread
  /\ AppliedIsParsed
  /\ ScreenIsOneFrame

\* What is still to come over the reader's connection is no older than what
\* it has stored.
FromNowOn ==
  /\ taken <= latest /\ latest <= published
  /\ rpc = "store" => latest <= inHand /\ inHand <= published
  /\ conn # 0 => \A i \in 1..Len(wire[conn]) :
       /\ latest <= wire[conn][i] /\ wire[conn][i] <= published
       /\ rpc = "store" => inHand <= wire[conn][i]

\* Any connection's frames are in order.
WiresInOrder ==
  \A k \in Conn :
    /\ \A i, j \in 1..Len(wire[k]) : i < j => wire[k][i] <= wire[k][j]
    /\ \A i \in 1..Len(wire[k]) : wire[k][i] <= published

NothingBeforeOpen == \A k \in Conn : link[k] \in {"unused", "dialling"} => wire[k] = <<>>

(* The session. *)

\* What the publisher's task for the reader's connection holds is no older
\* than what the reader has either.
TaskFromNowOn ==
  conn # 0 /\ task[conn] = "sending" =>
    latest <= holds[conn] /\ (rpc = "store" => inHand <= holds[conn])

\* A task is there for a connection, and leaves it before it is closed.
TaskHasLink ==
  \A k \in Conn :
    /\ link[k] = "unused" => task[k] = "none"
    /\ link[k] = "closed" => task[k] \in {"none", "gone", "cancelled"}

ArrivalIInv == WsIInv /\ FromNowOn /\ WiresInOrder /\ NothingBeforeOpen

SessionIInv == PublisherIInv /\ ArrivalIInv /\ TaskFromNowOn /\ TaskHasLink

-----------------------------------------------------------------------------
(***************************************************************************)
(* Connections as sequences.                                               *)
(***************************************************************************)
\* After g, the frames of w come in the order of publication.
Ordered(g, w) ==
  /\ \A i \in 1..Len(w) : g < w[i]
  /\ \A i, j \in 1..Len(w) : i < j => w[i] < w[j]

Newest(g, w) == IF w = <<>> THEN g ELSE Last(w)

LEMMA EmptyIsOrdered ==
  ASSUME NEW g
  PROVE  Ordered(g, <<>>) /\ Newest(g, <<>>) = g
  BY DEF Ordered, Newest

LEMMA AppendFacts ==
  ASSUME NEW w \in Seq(Frame), NEW n \in Frame
  PROVE  /\ Append(w, n) \in Seq(Frame)
         /\ Append(w, n) # <<>>
         /\ Len(Append(w, n)) = Len(w) + 1
         /\ \A i \in 1..Len(w) : Append(w, n)[i] = w[i]
         /\ Append(w, n)[Len(w) + 1] = n
         /\ Last(Append(w, n)) = n
  BY DEF Last

LEMMA NewestFacts ==
  ASSUME NEW g \in AnyFrame, NEW w \in Seq(Frame), Ordered(g, w)
  PROVE  /\ Newest(g, w) \in AnyFrame
         /\ g <= Newest(g, w)
         /\ \A i \in 1..Len(w) : w[i] <= Newest(g, w)
<1>1. CASE w = <<>>
  BY <1>1, LinkAssumption DEF Newest, AnyFrame
<1>2. CASE w # <<>>
  <2>1. Len(w) \in Nat /\ Len(w) # 0 /\ Len(w) \in 1..Len(w)
    BY <1>2, EmptySeq, LenProperties
  <2>2. \A i \in 1..Len(w) : w[i] \in Frame
    BY ElementOfSeq
  <2>3. Newest(g, w) = w[Len(w)]
    BY <1>2 DEF Newest, Last
  <2>4. Newest(g, w) \in AnyFrame /\ g < Newest(g, w)
    BY <2>1, <2>2, <2>3, LinkAssumption DEF Ordered, Frame, AnyFrame
  <2>5. \A i \in 1..Len(w) : w[i] <= w[Len(w)]
    BY <2>1, <2>2, LinkAssumption DEF Ordered, Frame
  <2>6. QED
    BY <2>3, <2>4, <2>5, LinkAssumption DEF AnyFrame
<1>3. QED
  BY <1>1, <1>2

LEMMA SendKeepsOrder ==
  ASSUME NEW g \in AnyFrame, NEW w \in Seq(Frame), NEW n \in Frame,
         Ordered(g, w), Newest(g, w) < n
  PROVE  Ordered(g, Append(w, n)) /\ Newest(g, Append(w, n)) = n
<1> DEFINE longer == Append(w, n)
<1>1. Len(w) \in Nat /\ \A i \in 1..Len(w) : w[i] \in Frame
  BY ElementOfSeq, LenProperties
<1>2. /\ Newest(g, w) \in AnyFrame
      /\ g <= Newest(g, w)
      /\ \A i \in 1..Len(w) : w[i] <= Newest(g, w)
  BY NewestFacts
<1>3. /\ longer # <<>> /\ Len(longer) = Len(w) + 1
      /\ \A i \in 1..Len(w) : longer[i] = w[i]
      /\ longer[Len(w) + 1] = n /\ Last(longer) = n
  BY AppendFacts
<1> HIDE DEF longer
<1>4. g < n /\ \A i \in 1..Len(w) : w[i] < n
  BY <1>1, <1>2, LinkAssumption DEF AnyFrame, Frame
<1>5. \A i \in 1..Len(longer) : i \in 1..Len(w) \/ i = Len(w) + 1
  BY <1>1, <1>3
<1>6. \A i \in 1..Len(longer) : g < longer[i]
  BY <1>3, <1>4, <1>5 DEF Ordered
<1>7. ASSUME NEW i \in 1..Len(longer), NEW j \in 1..Len(longer), i < j
      PROVE  longer[i] < longer[j]
  <2>1. i \in 1..Len(w)
    BY <1>1, <1>3, <1>7
  <2>2. QED
    BY <1>1, <1>3, <1>4, <1>5, <2>1, <1>7 DEF Ordered
<1>8. Ordered(g, longer) /\ Newest(g, longer) = n
  BY <1>3, <1>6, <1>7 DEF Ordered, Newest
<1>9. QED
  BY <1>8 DEF longer

LEMMA TailFacts ==
  ASSUME NEW w \in Seq(Frame), w # <<>>
  PROVE  /\ Head(w) \in Frame /\ Head(w) = w[1] /\ 1 \in 1..Len(w)
         /\ Tail(w) \in Seq(Frame)
         /\ Len(Tail(w)) = Len(w) - 1 /\ Len(w) \in Nat
         /\ \A i \in 1..Len(Tail(w)) : i + 1 \in 1..Len(w) /\ Tail(w)[i] = w[i + 1]
<1>1. Len(w) \in Nat \ {0}
  BY EmptySeq
<1>2. QED
  BY <1>1, HeadTailProperties

LEMMA ReceiveKeepsOrder ==
  ASSUME NEW g \in AnyFrame, NEW w \in Seq(Frame), w # <<>>, Ordered(g, w)
  PROVE  /\ Ordered(Head(w), Tail(w))
         /\ Newest(Head(w), Tail(w)) = Newest(g, w)
<1> DEFINE rest == Tail(w)
<1>1. /\ Head(w) \in Frame /\ Head(w) = w[1] /\ 1 \in 1..Len(w)
      /\ rest \in Seq(Frame) /\ Len(rest) = Len(w) - 1 /\ Len(w) \in Nat
      /\ \A i \in 1..Len(rest) : i + 1 \in 1..Len(w) /\ rest[i] = w[i + 1]
  BY TailFacts
<1> HIDE DEF rest
<1>2. \A i \in 1..Len(rest) : Head(w) < rest[i]
  <2> TAKE i \in 1..Len(rest)
  <2>1. i \in Nat /\ 1 < i + 1
    BY <1>1
  <2>2. w[1] < w[i + 1]
    BY <1>1, <2>1 DEF Ordered
  <2>3. QED
    BY <1>1, <2>2
<1>3. \A i, j \in 1..Len(rest) : i < j => rest[i] < rest[j]
  <2> TAKE i, j \in 1..Len(rest)
  <2>1. i < j => i + 1 < j + 1
    BY <1>1
  <2>2. QED
    BY <1>1, <2>1 DEF Ordered
<1>4. CASE rest = <<>>
  <2>1. Len(rest) = 0
    BY <1>4, EmptySeq
  <2>2. Len(w) = 1
    BY <1>1, <2>1
  <2>3. Newest(Head(w), rest) = w[1] /\ Newest(g, w) = w[1]
    BY <1>1, <1>4, <2>2 DEF Newest, Last
  <2>4. QED
    BY <1>2, <1>3, <2>3 DEF Ordered, rest
<1>5. CASE rest # <<>>
  <2>1. Len(rest) \in 1..Len(rest)
    BY <1>1, <1>5, EmptySeq
  <2>2. Last(rest) = w[Len(rest) + 1]
    BY <1>1, <2>1 DEF Last
  <2>3. Last(rest) = Last(w)
    BY <1>1, <2>2 DEF Last
  <2>4. QED
    BY <1>2, <1>3, <1>5, <2>3 DEF Ordered, Newest, rest
<1>6. QED
  BY <1>4, <1>5

LEMMA WiresAreOrdered ==
  ASSUME PublisherTypeOK
  PROVE  /\ FramesInOrder <=>
              \A k \in Conn : /\ Ordered(got[k], wire[k])
                              /\ \A i \in 1..Len(wire[k]) : wire[k][i] <= published
         /\ \A k \in Conn : LastSent(k) = Newest(got[k], wire[k])
  BY DEF FramesInOrder, Ordered, LastSent, Newest

-----------------------------------------------------------------------------
(***************************************************************************)
(* The client count.                                                       *)
(***************************************************************************)
Live(t) == {k \in Conn : t[k] \in Counted}

LEMMA CountStays ==
  ASSUME NEW t \in [Conn -> TaskState], NEW k \in Conn, NEW s,
         t[k] \in Counted <=> s \in Counted
  PROVE  Live([t EXCEPT ![k] = s]) = Live(t)
  BY DEF Live

LEMMA CountUp ==
  ASSUME NEW t \in [Conn -> TaskState], NEW k \in Conn, NEW s \in Counted,
         t[k] \notin Counted
  PROVE  Cardinality(Live([t EXCEPT ![k] = s])) = Cardinality(Live(t)) + 1
<1>1. Live(t) \subseteq Conn /\ k \notin Live(t)
  BY DEF Live
<1>2. Live([t EXCEPT ![k] = s]) = Live(t) \cup {k}
  BY DEF Live
<1>3. IsFiniteSet(Live(t))
  BY <1>1, FS_Subset, PublisherAssumption
<1>4. QED
  BY <1>1, <1>2, <1>3, FS_AddElement

LEMMA CountDown ==
  ASSUME NEW t \in [Conn -> TaskState], NEW k \in Conn, NEW s,
         t[k] \in Counted, s \notin Counted
  PROVE  Cardinality(Live([t EXCEPT ![k] = s])) = Cardinality(Live(t)) - 1
<1>1. Live(t) \subseteq Conn /\ k \in Live(t)
  BY DEF Live
<1>2. Live([t EXCEPT ![k] = s]) = Live(t) \ {k}
  BY DEF Live
<1>3. IsFiniteSet(Live(t))
  BY <1>1, FS_Subset, PublisherAssumption
<1>4. QED
  BY <1>1, <1>2, <1>3, FS_RemoveElement

LEMMA LiveIsFinite ==
  ASSUME NEW t
  PROVE  Cardinality(Live(t)) \in Nat
<1>1. Live(t) \in SUBSET Conn
  BY DEF Live
<1>2. QED
  BY <1>1, FS_Subset, FS_CardinalityType, PublisherAssumption

-----------------------------------------------------------------------------
(***************************************************************************)
(* The publisher's steps.                                                  *)
(***************************************************************************)
LEMMA FrameBounds ==
  /\ MaxFrames \in Nat
  /\ Frame \subseteq AnyFrame /\ AnyFrame \subseteq Nat
  /\ 0 \in AnyFrame /\ \A n \in AnyFrame : n # 0 => n \in Frame
  BY LinkAssumption DEF Frame, AnyFrame

LEMMA PublisherStarts == PublisherStart => PublisherIInv
<1> SUFFICES ASSUME PublisherStart
             PROVE  PublisherIInv
  OBVIOUS
<1> USE DEF PublisherStart, LinkInit, PublisherInit
<1>1. PublisherTypeOK
  BY FrameBounds, PublisherAssumption
  DEF PublisherTypeOK, LinkTypeOK, LinkState, TaskState
<1>2. CountIsExact
  <2>1. {k \in Conn : task[k] \in Counted} = {}
    BY DEF Counted
  <2>2. QED
    BY <2>1, FS_EmptySet DEF CountIsExact
<1>3. FramesInOrder
  BY DEF FramesInOrder
<1>4. NothingForgotten
  BY DEF NothingForgotten
<1>5. SilentBeforeSending /\ SlotIsNewest /\ SendsNext /\ SeenWasInSlot /\ DownIsQuiet
  BY DEF SilentBeforeSending, SlotIsNewest, SendsNext, SeenWasInSlot, DownIsQuiet
<1>6. QED
  BY <1>1, <1>2, <1>3, <1>4, <1>5 DEF PublisherIInv

\* Broadcasting only moves the slot on.
LEMMA BroadcastPreserves ==
  ASSUME PublisherIInv, Broadcast
  PROVE  PublisherIInv'
<1> USE DEF PublisherIInv, Broadcast
<1>1. PublisherTypeOK'
  BY LinkAssumption DEF PublisherTypeOK, LinkTypeOK, AnyFrame
<1>2. CountIsExact'
  BY DEF CountIsExact
<1>3. FramesInOrder'
  <2>1. \A k \in Conn : \A i \in 1..Len(wire[k]) : wire[k][i] \in Frame
    BY ElementOfSeq DEF PublisherTypeOK, LinkTypeOK
  <2>2. published \in Nat
    BY FrameBounds DEF PublisherTypeOK, LinkTypeOK
  <2>3. \A k \in Conn : \A i \in 1..Len(wire[k]) : wire[k][i] <= published + 1
    <3> TAKE k \in Conn
    <3> TAKE i \in 1..Len(wire[k])
    <3>1. wire[k][i] <= published
      BY DEF FramesInOrder
    <3>2. wire[k][i] \in Nat
      BY <2>1, FrameBounds
    <3>3. QED
      BY <2>2, <3>1, <3>2
  <2>4. wire' = wire /\ got' = got /\ published' = published + 1
    OBVIOUS
  <2>5. QED
    BY <2>3, <2>4 DEF FramesInOrder
<1>4. NothingForgotten'
  BY DEF NothingForgotten, LastSent
<1>5. SilentBeforeSending' /\ SlotIsNewest' /\ SendsNext' /\ DownIsQuiet'
  BY DEF SilentBeforeSending, SlotIsNewest, SendsNext, DownIsQuiet, LastSent
<1>6. SeenWasInSlot'
  <2>1. slot \in Nat /\ published \in Nat /\ slot <= published
    BY FrameBounds DEF SlotIsNewest, PublisherTypeOK, LinkTypeOK
  <2>2. \A k \in Conn : seen[k] \in Nat
    BY FrameBounds DEF PublisherTypeOK
  <2>3. QED
    BY <2>1, <2>2 DEF SeenWasInSlot
<1>7. QED
  BY <1>1, <1>2, <1>3, <1>4, <1>5, <1>6

LEMMA AcceptLoopPreserves ==
  ASSUME PublisherIInv, AcceptLoopHead \/ AcceptTimesOut \/ BeginServerDrop
  PROVE  PublisherIInv'
<1> USE DEF PublisherIInv
<1>1. /\ acceptPc' \in {"head", "accept", "stopped"}
      /\ server' \in {"up", "stopping", "down"} /\ server # "down"
      /\ UNCHANGED <<servers, slot, task, seen, holds, clientCount>>
      /\ published' = published /\ link' = link /\ wire' = wire /\ got' = got
      /\ server' # "down"
  <2>1. CASE AcceptLoopHead
    BY <2>1 DEF AcceptLoopHead, linkVars, PublisherTypeOK
  <2>2. CASE AcceptTimesOut
    BY <2>2 DEF AcceptTimesOut, linkVars, PublisherTypeOK
  <2>3. CASE BeginServerDrop
    BY <2>3 DEF BeginServerDrop, linkVars, PublisherTypeOK
  <2>4. QED
    BY <2>1, <2>2, <2>3
<1>2. PublisherTypeOK'
  BY <1>1 DEF PublisherTypeOK, LinkTypeOK
<1>3. CountIsExact' /\ FramesInOrder'
  BY <1>1 DEF CountIsExact, FramesInOrder
<1>4. NothingForgotten' /\ SilentBeforeSending' /\ SlotIsNewest' /\ SendsNext'
      /\ SeenWasInSlot' /\ DownIsQuiet'
  BY <1>1 DEF NothingForgotten, SilentBeforeSending, SlotIsNewest, SendsNext,
     SeenWasInSlot, DownIsQuiet, LastSent
<1>5. QED
  BY <1>2, <1>3, <1>4

LEMMA AcceptPreserves ==
  ASSUME PublisherIInv, NEW k \in Conn, Accept(k)
  PROVE  PublisherIInv'
<1> USE DEF PublisherIInv, Accept, SetTask, linkVars
<1>1. PublisherTypeOK'
  BY DEF PublisherTypeOK, LinkTypeOK, TaskState
<1>2. CountIsExact'
  BY CountStays DEF CountIsExact, PublisherTypeOK, Live, Counted
<1>3. FramesInOrder'
  BY DEF FramesInOrder
<1>4. NothingForgotten' /\ SilentBeforeSending' /\ SlotIsNewest' /\ SendsNext'
      /\ SeenWasInSlot' /\ DownIsQuiet'
  BY DEF NothingForgotten, SilentBeforeSending, SlotIsNewest, SendsNext,
     SeenWasInSlot, DownIsQuiet, LastSent, PublisherTypeOK
<1>5. QED
  BY <1>1, <1>2, <1>3, <1>4

LEMMA HandshakePreserves ==
  ASSUME PublisherIInv, NEW k \in Conn, HandshakeSucceeds(k) \/ HandshakeRejected(k)
  PROVE  PublisherIInv'
<1> USE DEF PublisherIInv, SetTask, SetLink
<1>1. CASE HandshakeSucceeds(k)
  <2> USE <1>1 DEF HandshakeSucceeds
  <2>1. PublisherTypeOK'
    BY DEF PublisherTypeOK, LinkTypeOK, TaskState, LinkState
  <2>2. CountIsExact'
    BY CountUp DEF CountIsExact, PublisherTypeOK, Live, Counted
  <2>3. FramesInOrder'
    BY DEF FramesInOrder
  <2>4. NothingForgotten' /\ SilentBeforeSending' /\ SlotIsNewest' /\ SendsNext'
        /\ SeenWasInSlot' /\ DownIsQuiet'
    BY DEF NothingForgotten, SilentBeforeSending, SlotIsNewest, SendsNext,
       SeenWasInSlot, DownIsQuiet, LastSent, PublisherTypeOK, LinkTypeOK
  <2>5. QED
    BY <2>1, <2>2, <2>3, <2>4
<1>2. CASE HandshakeRejected(k)
  <2> USE <1>2 DEF HandshakeRejected
  <2>1. PublisherTypeOK'
    BY DEF PublisherTypeOK, LinkTypeOK, TaskState, LinkState
  <2>2. CountIsExact'
    BY CountStays DEF CountIsExact, PublisherTypeOK, Live, Counted
  <2>3. FramesInOrder'
    BY DEF FramesInOrder
  <2>4. NothingForgotten' /\ SilentBeforeSending' /\ SlotIsNewest' /\ SendsNext'
        /\ SeenWasInSlot' /\ DownIsQuiet'
    BY DEF NothingForgotten, SilentBeforeSending, SlotIsNewest, SendsNext,
       SeenWasInSlot, DownIsQuiet, LastSent, PublisherTypeOK, LinkTypeOK
  <2>5. QED
    BY <2>1, <2>2, <2>3, <2>4
<1>3. QED
  BY <1>1, <1>2

\* A task that borrows the slot has sent what is older; where the slot is
\* still empty it has sent nothing.
LEMMA BorrowPreserves ==
  ASSUME PublisherIInv, NEW k \in Conn, Greet(k) \/ Wake(k)
  PROVE  PublisherIInv'
<1> USE DEF PublisherIInv
<1>0. /\ Borrow(k)
      /\ UNCHANGED <<linkVars, servers, server, acceptPc, slot, clientCount>>
      /\ task[k] \in {"greet", "waiting"}
  BY DEF Greet, Wake
<1>1. LastSent(k) \in Nat /\ slot \in Nat /\ seen[k] \in Nat
  BY NewestFacts, WiresAreOrdered, FrameBounds DEF PublisherTypeOK, LinkTypeOK
<1>2. link[k] = "open" => IF slot = 0 THEN LastSent(k) = slot ELSE LastSent(k) < slot
  <2>1. CASE Greet(k)
    BY <1>1, <2>1 DEF Greet, SilentBeforeSending, LastSent
  <2>2. CASE Wake(k)
    BY <1>1, <2>2 DEF Wake, NothingForgotten, SeenWasInSlot
  <2>3. QED
    BY <2>1, <2>2
<1> USE <1>0 DEF Borrow, SetTask, linkVars
<1>3. PublisherTypeOK'
  BY DEF PublisherTypeOK, LinkTypeOK, TaskState
<1>4. CountIsExact'
  BY CountStays DEF CountIsExact, PublisherTypeOK, Live, Counted
<1>5. FramesInOrder'
  BY DEF FramesInOrder
<1>6. NothingForgotten' /\ SendsNext'
  BY <1>2 DEF NothingForgotten, SendsNext, LastSent, PublisherTypeOK
<1>7. SilentBeforeSending' /\ SlotIsNewest' /\ SeenWasInSlot' /\ DownIsQuiet'
  BY <1>1 DEF SilentBeforeSending, SlotIsNewest, SeenWasInSlot, DownIsQuiet, PublisherTypeOK
<1>8. QED
  BY <1>3, <1>4, <1>5, <1>6, <1>7

\* A send appends a frame that is newer than all that are on the connection.
LEMMA SendFramePreserves ==
  ASSUME PublisherIInv, NEW k \in Conn, SendFrame(k)
  PROVE  PublisherIInv'
<1> DEFINE longer == Append(wire[k], holds[k])
<1> USE DEF PublisherIInv
<1>0. /\ task[k] = "sending" /\ link[k] = "open"
      /\ task' = [task EXCEPT ![k] = "waiting"]
      /\ wire' = [wire EXCEPT ![k] = longer]
      /\ UNCHANGED <<published, link, got, servers, server, acceptPc, slot, seen,
                     holds, clientCount>>
  BY DEF SendFrame, SetTask
<1>1. /\ got[k] \in AnyFrame /\ wire[k] \in Seq(Frame) /\ holds[k] \in Frame
      /\ holds[k] <= published /\ published \in Nat
      /\ Ordered(got[k], wire[k]) /\ Newest(got[k], wire[k]) < holds[k]
      /\ \A i \in 1..Len(wire[k]) : wire[k][i] <= published
      /\ \A i \in 1..Len(wire[k]) : wire[k][i] \in Frame
  <2>1. /\ got[k] \in AnyFrame /\ wire[k] \in Seq(Frame) /\ holds[k] \in Frame
        /\ published \in Nat
    BY <1>0, FrameBounds DEF SendsNext, PublisherTypeOK, LinkTypeOK
  <2>2. holds[k] <= published
    <3>1. holds[k] = seen[k] /\ seen[k] <= slot /\ (slot = published \/ slot = 0)
      BY <1>0 DEF SendsNext, SeenWasInSlot, SlotIsNewest
    <3>2. slot \in Nat /\ holds[k] \in Nat /\ published \in Nat
      BY <2>1, FrameBounds DEF PublisherTypeOK
    <3>3. slot <= published
      BY <3>1, <3>2
    <3>4. QED
      BY <3>1, <3>2, <3>3
  <2>3. Ordered(got[k], wire[k]) /\ \A i \in 1..Len(wire[k]) : wire[k][i] <= published
    BY WiresAreOrdered DEF FramesInOrder
  <2>4. \A i \in 1..Len(wire[k]) : wire[k][i] \in Frame
    BY <2>1, ElementOfSeq
  <2>5. Newest(got[k], wire[k]) < holds[k]
    <3>1. LastSent(k) = Newest(got[k], wire[k])
      BY DEF LastSent, Newest
    <3>2. LastSent(k) < holds[k]
      BY <1>0 DEF SendsNext
    <3>3. QED
      BY <3>1, <3>2
  <2>6. QED
    BY <2>1, <2>2, <2>3, <2>4, <2>5
<1>2. /\ longer \in Seq(Frame) /\ longer # <<>> /\ Len(longer) = Len(wire[k]) + 1
      /\ Last(longer) = holds[k]
      /\ Ordered(got[k], longer)
      /\ \A i \in 1..Len(longer) : longer[i] <= published
  <2>1. /\ longer \in Seq(Frame) /\ longer # <<>> /\ Len(longer) = Len(wire[k]) + 1
        /\ Last(longer) = holds[k] /\ longer[Len(wire[k]) + 1] = holds[k]
        /\ \A i \in 1..Len(wire[k]) : longer[i] = wire[k][i]
    BY <1>1, AppendFacts
  <2>2. Ordered(got[k], longer)
    BY <1>1, SendKeepsOrder
  <2> HIDE DEF longer
  <2>3. Len(wire[k]) \in Nat
    BY <1>1, LenProperties
  <2>4. \A i \in 1..Len(longer) : i \in 1..Len(wire[k]) \/ i = Len(wire[k]) + 1
    BY <2>1, <2>3
  <2>5. \A i \in 1..Len(longer) : longer[i] <= published
    BY <1>1, <2>1, <2>4
  <2>6. QED
    BY <2>1, <2>2, <2>5
<1> HIDE DEF longer
<1>3. PublisherTypeOK'
  BY <1>0, <1>2 DEF PublisherTypeOK, LinkTypeOK, TaskState
<1>4. CountIsExact'
  BY <1>0, CountStays DEF CountIsExact, PublisherTypeOK, Live, Counted
<1>5. \A j \in Conn : wire'[j] = IF j = k THEN longer ELSE wire[j]
  BY <1>0 DEF PublisherTypeOK, LinkTypeOK
<1>6. FramesInOrder'
  <2> SUFFICES ASSUME NEW j \in Conn
               PROVE  /\ \A i \in 1..Len(wire'[j]) : got[j] < wire'[j][i] /\ wire'[j][i] <= published
                      /\ \A i, l \in 1..Len(wire'[j]) : i < l => wire'[j][i] < wire'[j][l]
    BY <1>0 DEF FramesInOrder
  <2>1. CASE j = k
    BY <1>2, <1>5, <2>1 DEF Ordered
  <2>2. CASE j # k
    BY <1>5, <2>2 DEF FramesInOrder
  <2>3. QED
    BY <2>1, <2>2
<1>7. NothingForgotten'
  BY <1>0, <1>2, <1>5 DEF NothingForgotten, LastSent, SendsNext
<1>8. SilentBeforeSending' /\ SendsNext'
  BY <1>0, <1>5 DEF SilentBeforeSending, SendsNext, LastSent, PublisherTypeOK
<1>9. SlotIsNewest' /\ SeenWasInSlot' /\ DownIsQuiet'
  BY <1>0 DEF SlotIsNewest, SeenWasInSlot, DownIsQuiet, PublisherTypeOK
<1>10. QED
  BY <1>3, <1>4, <1>6, <1>7, <1>8, <1>9

LEMMA SendIntoVoidPreserves ==
  ASSUME PublisherIInv, NEW k \in Conn, SendIntoVoid(k)
  PROVE  PublisherIInv'
<1> USE DEF PublisherIInv, SendIntoVoid, SetTask, SetLink
<1>1. PublisherTypeOK'
  BY DEF PublisherTypeOK, LinkTypeOK, TaskState, LinkState
<1>2. CountIsExact'
  BY CountStays DEF CountIsExact, PublisherTypeOK, Live, Counted
<1>3. FramesInOrder'
  BY DEF FramesInOrder
<1>4. NothingForgotten' /\ SilentBeforeSending' /\ SlotIsNewest' /\ SendsNext'
      /\ SeenWasInSlot' /\ DownIsQuiet'
  BY DEF NothingForgotten, SilentBeforeSending, SlotIsNewest, SendsNext,
     SeenWasInSlot, DownIsQuiet, LastSent, PublisherTypeOK, LinkTypeOK
<1>5. QED
  BY <1>1, <1>2, <1>3, <1>4

\* The way out after a failed send, the first or a later one, gives the count
\* back.
LEMMA SendFailsPreserves ==
  ASSUME PublisherIInv, NEW k \in Conn, SendFails(k)
  PROVE  PublisherIInv'
<1> USE DEF PublisherIInv, SendFails, SetTask, SetLink
<1>1. server # "down"
  BY DEF DownIsQuiet
<1>2. Cardinality(Live(task')) = Cardinality(Live(task)) - 1
  <2>1. /\ task \in [Conn -> TaskState] /\ task[k] \in Counted /\ "gone" \notin Counted
        /\ task' = [task EXCEPT ![k] = "gone"]
    BY DEF PublisherTypeOK, Counted
  <2>2. Cardinality(Live([task EXCEPT ![k] = "gone"])) = Cardinality(Live(task)) - 1
    BY <2>1, CountDown
  <2>3. QED
    BY <2>1, <2>2
<1>3. CountIsExact'
  BY <1>1, <1>2 DEF CountIsExact, Live
<1>4. clientCount' \in Nat
  BY <1>1, <1>2, LiveIsFinite DEF CountIsExact, Live
<1>5. PublisherTypeOK'
  BY <1>4 DEF PublisherTypeOK, LinkTypeOK, TaskState, LinkState
<1>6. FramesInOrder'
  BY DEF FramesInOrder
<1>7. NothingForgotten' /\ SilentBeforeSending' /\ SlotIsNewest' /\ SendsNext'
      /\ SeenWasInSlot' /\ DownIsQuiet'
  BY DEF NothingForgotten, SilentBeforeSending, SlotIsNewest, SendsNext,
     SeenWasInSlot, DownIsQuiet, LastSent, PublisherTypeOK, LinkTypeOK
<1>8. QED
  BY <1>3, <1>5, <1>6, <1>7

\* The runtime that is shut down takes every task with it.
LEMMA FinishServerDropPreserves ==
  ASSUME PublisherIInv, FinishServerDrop
  PROVE  PublisherIInv'
<1> USE DEF PublisherIInv, FinishServerDrop
<1>1. PublisherTypeOK'
  BY DEF PublisherTypeOK, LinkTypeOK, TaskState, LinkState
<1>2. CountIsExact' /\ FramesInOrder'
  BY DEF CountIsExact, FramesInOrder
<1>3. \A k \in Conn : task'[k] = task[k] \/ task'[k] = "cancelled"
  OBVIOUS
<1>4. \A k \in Conn : task'[k] \in {"none", "gone", "cancelled"}
  OBVIOUS
<1>5. NothingForgotten' /\ SilentBeforeSending' /\ SlotIsNewest' /\ SendsNext'
      /\ SeenWasInSlot' /\ DownIsQuiet'
  BY <1>3, <1>4 DEF NothingForgotten, SilentBeforeSending, SlotIsNewest, SendsNext,
     SeenWasInSlot, DownIsQuiet
<1>6. QED
  BY <1>1, <1>2, <1>5

\* A new publisher starts its count at nothing, and rightly: no task of the
\* old one is left.
LEMMA SpawnServerPreserves ==
  ASSUME PublisherIInv, SpawnServer
  PROVE  PublisherIInv'
<1> USE DEF PublisherIInv, SpawnServer, linkVars
<1>1. \A k \in Conn : task[k] \in {"none", "gone", "cancelled"}
  BY DEF DownIsQuiet
<1>2. PublisherTypeOK'
  BY FrameBounds, PublisherAssumption DEF PublisherTypeOK, LinkTypeOK
<1>3. CountIsExact'
  <2>1. {k \in Conn : task[k] \in Counted} = {}
    BY <1>1 DEF Counted
  <2>2. QED
    BY <2>1, FS_EmptySet DEF CountIsExact
<1>4. FramesInOrder'
  BY DEF FramesInOrder
<1>5. NothingForgotten' /\ SilentBeforeSending' /\ SlotIsNewest' /\ SendsNext'
      /\ SeenWasInSlot' /\ DownIsQuiet'
  BY <1>1 DEF NothingForgotten, SilentBeforeSending, SlotIsNewest, SendsNext,
     SeenWasInSlot, DownIsQuiet
<1>6. QED
  BY <1>2, <1>3, <1>4, <1>5

\* What a connection's two ends and the network do to it, seen by the
\* publisher.
LEMMA ClientEndPreserves ==
  ASSUME PublisherIInv, NEW k \in Conn,
         Dial(k) \/ Receive(k) \/ HangUp(k) \/ Network(k),
         UNCHANGED publisherVars
  PROVE  PublisherIInv'
<1> USE DEF PublisherIInv
<1>1. UNCHANGED <<servers, server, acceptPc, slot, task, seen, holds, clientCount>>
  BY DEF publisherVars
<1>2. published' = published
  BY DEF Dial, Receive, HangUp, Network, Break, GoSilent
<1>3. CountIsExact' /\ SlotIsNewest' /\ SeenWasInSlot' /\ DownIsQuiet'
  BY <1>1, <1>2 DEF CountIsExact, SlotIsNewest, SeenWasInSlot, DownIsQuiet
<1>4. CASE Receive(k)
  <2>1. /\ wire[k] \in Seq(Frame) /\ wire[k] # <<>> /\ got[k] \in AnyFrame
        /\ Ordered(got[k], wire[k])
        /\ \A i \in 1..Len(wire[k]) : wire[k][i] <= published
    BY <1>4, WiresAreOrdered DEF Receive, PublisherTypeOK, LinkTypeOK
  <2> DEFINE rest == Tail(wire[k])
             first == Head(wire[k])
  <2>2. /\ first \in Frame /\ rest \in Seq(Frame)
        /\ Ordered(first, rest) /\ Newest(first, rest) = Newest(got[k], wire[k])
    BY <2>1, TailFacts, ReceiveKeepsOrder
  <2>3. \A i \in 1..Len(rest) : rest[i] <= published
    BY <2>1, TailFacts
  <2>4. /\ wire' = [wire EXCEPT ![k] = rest] /\ got' = [got EXCEPT ![k] = first]
        /\ link' = link
    BY <1>4 DEF Receive
  <2> HIDE DEF rest, first
  <2>5. \A j \in Conn : /\ wire'[j] = IF j = k THEN rest ELSE wire[j]
                        /\ got'[j] = IF j = k THEN first ELSE got[j]
    BY <2>4 DEF PublisherTypeOK, LinkTypeOK
  <2>6. PublisherTypeOK'
    BY <1>1, <1>2, <2>2, <2>4, FrameBounds DEF PublisherTypeOK, LinkTypeOK
  <2>7. FramesInOrder'
    <3> SUFFICES ASSUME NEW j \in Conn
                 PROVE  /\ \A i \in 1..Len(wire'[j]) : got'[j] < wire'[j][i] /\ wire'[j][i] <= published
                        /\ \A i, l \in 1..Len(wire'[j]) : i < l => wire'[j][i] < wire'[j][l]
      BY <1>2 DEF FramesInOrder
    <3>1. CASE j = k
      BY <2>2, <2>3, <2>5, <3>1 DEF Ordered
    <3>2. CASE j # k
      BY <2>5, <3>2 DEF FramesInOrder
    <3>3. QED
      BY <3>1, <3>2
  <2>8. \A j \in Conn : LastSent(j)' = LastSent(j)
    BY <2>2, <2>5 DEF LastSent, Newest
  <2>9. NothingForgotten' /\ SendsNext'
    BY <1>1, <2>4, <2>8 DEF NothingForgotten, SendsNext
  <2>10. SilentBeforeSending'
    BY <1>1, <2>1, <2>5 DEF SilentBeforeSending
  <2>11. QED
    BY <1>3, <2>6, <2>7, <2>9, <2>10
<1>5. CASE ~Receive(k)
  <2>1. /\ got' = got
        /\ wire' = wire \/ wire' = [wire EXCEPT ![k] = <<>>]
        /\ \E s \in LinkState : s # "open" /\ link' = [link EXCEPT ![k] = s]
    BY <1>5 DEF Dial, HangUp, Network, Break, GoSilent, SetLink, LinkState
  <2>2. \A j \in Conn : j # k => wire'[j] = wire[j] /\ link'[j] = link[j]
    BY <2>1 DEF PublisherTypeOK, LinkTypeOK
  <2>3. wire'[k] \in {wire[k], <<>>} /\ link'[k] # "open"
    BY <2>1 DEF PublisherTypeOK, LinkTypeOK
  <2>4. PublisherTypeOK'
    <3>1. wire' \in [Conn -> Seq(Frame)]
      BY <2>1, EmptySeq DEF PublisherTypeOK, LinkTypeOK
    <3>2. link' \in [Conn -> LinkState]
      BY <2>1 DEF PublisherTypeOK, LinkTypeOK
    <3>3. QED
      BY <1>1, <1>2, <2>1, <3>1, <3>2 DEF PublisherTypeOK, LinkTypeOK
  <2>5. FramesInOrder'
    BY <1>2, <2>1, <2>2, <2>3 DEF FramesInOrder
  <2>6. NothingForgotten' /\ SendsNext'
    BY <1>1, <2>1, <2>2, <2>3 DEF NothingForgotten, SendsNext, LastSent
  <2>7. SilentBeforeSending'
    BY <1>1, <2>1, <2>2, <2>3 DEF SilentBeforeSending
  <2>8. QED
    BY <1>3, <2>4, <2>5, <2>6, <2>7
<1>6. QED
  BY <1>4, <1>5

LEMMA PublisherNextPreserves ==
  ASSUME PublisherIInv, PublisherNext
  PROVE  PublisherIInv'
<1>1. ASSUME NEW k \in Conn, Accept(k) \/ ClientTask(k)
      PROVE  PublisherIInv'
  BY <1>1, AcceptPreserves, HandshakePreserves, BorrowPreserves, SendFramePreserves,
     SendIntoVoidPreserves, SendFailsPreserves DEF ClientTask
<1>2. QED
  BY <1>1, BroadcastPreserves, AcceptLoopPreserves, FinishServerDropPreserves,
     SpawnServerPreserves DEF PublisherNext

LEMMA PublisherStutters ==
  ASSUME PublisherIInv, UNCHANGED <<linkVars, publisherVars>>
  PROVE  PublisherIInv'
  BY DEF PublisherIInv, linkVars, publisherVars, PublisherTypeOK, LinkTypeOK,
     CountIsExact, FramesInOrder, NothingForgotten, SilentBeforeSending,
     SlotIsNewest, SendsNext, SeenWasInSlot, DownIsQuiet, LastSent

LEMMA PublisherInvariantHolds == PublisherSafety => []PublisherIInv
<1>1. PublisherIInv /\ [PublisherNext \/ \E k \in Conn : ClientEnd(k)]_<<linkVars, publisherVars>>
        => PublisherIInv'
  <2>1. ASSUME PublisherIInv, NEW k \in Conn, ClientEnd(k)
        PROVE  PublisherIInv'
    BY <2>1, ClientEndPreserves DEF ClientEnd
  <2>2. QED
    BY <2>1, PublisherNextPreserves, PublisherStutters
<1>2. QED
  BY <1>1, PublisherStarts, PTL DEF PublisherSafety

\* Every state of the publisher is of its types.
THEOREM PublisherTypes == PublisherSafety => []PublisherTypeOK
<1>1. PublisherIInv => PublisherTypeOK
  BY DEF PublisherIInv
<1>2. QED
  BY <1>1, PublisherInvariantHolds, PTL

\* The footer's count is the number of live client tasks, for any number of
\* connections, whichever way their tasks end and however often the publisher
\* is restarted.
THEOREM PublisherCounts == PublisherSafety => []CountIsExact
<1>1. PublisherIInv => CountIsExact
  BY DEF PublisherIInv
<1>2. QED
  BY <1>1, PublisherInvariantHolds, PTL

\* No connection carries a frame twice or an older frame after a newer one.
THEOREM PublisherSendsInOrder == PublisherSafety => []FramesInOrder
<1>1. PublisherIInv => FramesInOrder
  BY DEF PublisherIInv
<1>2. QED
  BY <1>1, PublisherInvariantHolds, PTL

\* A task that waits has sent the frame it has marked as seen: none is lost
\* between the catch-up send and the change notification.
THEOREM PublisherForgetsNothing == PublisherSafety => []NothingForgotten
<1>1. PublisherIInv => NothingForgotten
  BY DEF PublisherIInv
<1>2. QED
  BY <1>1, PublisherInvariantHolds, PTL

-----------------------------------------------------------------------------
(***************************************************************************)
(* The watcher's steps.                                                    *)
(***************************************************************************)
\* However many new cards a frame mentions, those admitted have different
\* ranks among the new ones, and there are only so many ranks.
LEMMA AdmittedIsBounded ==
  ASSUME devices \subseteq Dev, Cardinality(devices) <= MaxDevices,
         NEW said \in SUBSET Dev
  PROVE  /\ devices \subseteq Admitted(said) /\ Admitted(said) \subseteq Dev
         /\ Cardinality(Admitted(said)) <= MaxDevices
<1> DEFINE new == said \ devices
           rank(d) == Cardinality({e \in new : e < d})
           chosen == {d \in new : rank(d) + Cardinality(devices) < MaxDevices}
           room == MaxDevices - Cardinality(devices)
           f == [d \in chosen |-> rank(d)]
<1>1. /\ IsFiniteSet(devices) /\ Cardinality(devices) \in Nat
      /\ MaxDevices \in Nat /\ room \in Nat
  <2>1. IsFiniteSet(devices)
    BY FS_Subset, WsAssumption
  <2>2. Cardinality(devices) \in Nat
    BY <2>1, FS_CardinalityType
  <2>3. QED
    BY <2>1, <2>2, WsAssumption
<1>2. IsFiniteSet(new) /\ new \subseteq Nat
  BY FS_Subset, WsAssumption
<1>3. \A d : IsFiniteSet({e \in new : e < d}) /\ rank(d) \in Nat
  <2> TAKE d
  <2>1. {e \in new : e < d} \in SUBSET new
    OBVIOUS
  <2>2. QED
    BY <1>2, <2>1, FS_Subset, FS_CardinalityType
<1>4. Admitted(said) = devices \cup chosen
  BY DEF Admitted
<1>5. ASSUME NEW c \in new, NEW d \in new, c < d
      PROVE  rank(c) # rank(d)
  <2> DEFINE below == {e \in new : e < c}
             under == {e \in new : e < d}
  <2>1. below \in SUBSET under
    BY <1>2, <1>5
  <2>2. c \in under /\ c \notin below
    BY <1>2, <1>5
  <2>3. IsFiniteSet(under)
    BY <1>3
  <2> HIDE DEF below, under
  <2>4. Cardinality(below) # Cardinality(under)
    BY <2>1, <2>2, <2>3, FS_Subset
  <2>5. QED
    BY <2>4 DEF below, under
<1>6. f \in [chosen -> 0..(room - 1)]
  <2>1. ASSUME NEW d \in chosen
        PROVE  rank(d) \in 0..(room - 1)
    <3>1. rank(d) \in Nat /\ rank(d) + Cardinality(devices) < MaxDevices
      BY <1>3
    <3> HIDE DEF rank
    <3>2. QED
      BY <1>1, <3>1
  <2>2. QED
    BY <2>1
<1>7. \A c, d \in chosen : f[c] = f[d] => c = d
  <2> TAKE c, d \in chosen
  <2>1. c \in new /\ d \in new /\ c \in Nat /\ d \in Nat
    BY <1>2
  <2>2. c = d \/ c < d \/ d < c
    BY <2>1
  <2>3. f[c] = rank(c) /\ f[d] = rank(d)
    OBVIOUS
  <2> HIDE DEF rank, f, new, chosen
  <2>4. QED
    BY <1>5, <2>1, <2>2, <2>3
<1>8. f \in Injection(chosen, 0..(room - 1))
  <2> HIDE DEF f, chosen, room
  <2>1. QED
    BY <1>6, <1>7 DEF Injection, IsInjective
<1> HIDE DEF f, chosen, rank
<1>9. IsFiniteSet(0..(room - 1)) /\ Cardinality(0..(room - 1)) = room
  <2> DEFINE last == room - 1
  <2>1. last \in Int
    BY <1>1
  <2>2. (IF 0 > last THEN 0 ELSE last - 0 + 1) = room
    BY <1>1
  <2> HIDE DEF last
  <2>3. IsFiniteSet(0..last) /\ Cardinality(0..last) = IF 0 > last THEN 0 ELSE last - 0 + 1
    BY <2>1, FS_Interval
  <2>4. IsFiniteSet(0..last) /\ Cardinality(0..last) = room
    BY <2>2, <2>3
  <2>5. QED
    BY <2>4 DEF last
<1>10. IsFiniteSet(chosen) /\ Cardinality(chosen) <= room
  BY <1>8, <1>9, FS_Injection
<1>11. chosen \subseteq Dev /\ chosen \cap devices = {}
  BY DEF chosen
<1>12. Cardinality(chosen) \in Nat
  BY <1>10, FS_CardinalityType
<1>13. Cardinality(devices \cup chosen) = Cardinality(devices) + Cardinality(chosen)
  <2>1. devices \cap chosen = {}
    BY <1>11
  <2>2. Cardinality(devices \cap chosen) = 0
    BY <2>1, FS_EmptySet
  <2>3. Cardinality(devices \cup chosen)
          = Cardinality(devices) + Cardinality(chosen) - Cardinality(devices \cap chosen)
    BY <1>1, <1>10, FS_Union
  <2>4. QED
    BY <1>1, <1>12, <2>2, <2>3
<1>14. QED
  BY <1>1, <1>4, <1>10, <1>11, <1>12, <1>13

LEMMA WatcherStarts == LinkInit /\ WsInit => WsIInv
<1> SUFFICES ASSUME LinkInit, WsInit
             PROVE  WsIInv
  OBVIOUS
<1> USE DEF LinkInit, WsInit
<1>1. WsTypeOK
  <2>1. LinkTypeOK
    BY FrameBounds, EmptySeq DEF LinkTypeOK, LinkState
  <2>2. QED
    BY <2>1, FrameBounds DEF WsTypeOK
<1>2. ScreenIsOneFrame
  BY FS_EmptySet, WsAssumption DEF ScreenIsOneFrame
<1>3. ReaderHasConnection /\ CounterFollows /\ CloneIsReady /\ NothingUnread /\ AppliedIsParsed
  BY DEF ReaderHasConnection, CounterFollows, CloneIsReady, NothingUnread, AppliedIsParsed
<1>4. QED
  BY <1>1, <1>2, <1>3 DEF WsIInv

\* What leaves the backend's own state alone leaves the screen alone.
LEMMA ReaderPreserves ==
  ASSUME WsIInv, LinkTypeOK', ReaderStep
  PROVE  WsIInv'
<1> USE DEF WsIInv
<1>0. content' = content /\ UNCHANGED backendVars
  BY DEF ReaderStep, ReaderStops, ConnectRefused, UpgradeSucceeds, UpgradeFails, ReadFrame,
     Store, Bump, StreamEnds, LeaveConnection, BackoffEnds, Connect
<1>1. UNCHANGED <<phase, upc, genRead, lastGen, taken, applied, devices, telemetry, ext>>
  BY <1>0 DEF backendVars
<1>2. ScreenIsOneFrame' /\ AppliedIsParsed'
  BY <1>0, <1>1 DEF ScreenIsOneFrame, AppliedIsParsed
<1>3. /\ latest \in AnyFrame /\ generation \in Nat /\ connected \in BOOLEAN
      /\ inHand \in AnyFrame /\ lastGen \in Nat /\ genRead \in Nat
  BY DEF WsTypeOK
<1>4. ASSUME latest' \in AnyFrame, generation' \in Nat, connected' \in BOOLEAN,
             rpc' \in {"head", "upgrading", "reading", "store", "bump", "leave",
                       "backoff", "ended"},
             conn' \in Conn \cup {0}, inHand' \in AnyFrame
      PROVE  WsTypeOK'
  BY <1>0, <1>1, <1>4 DEF WsTypeOK
<1>5. CASE ReaderStops \/ StreamEnds \/ BackoffEnds \/ ConnectRefused \/ UpgradeSucceeds
           \/ UpgradeFails
  <2>1. /\ latest' = latest /\ generation' = generation /\ connected' \in BOOLEAN
        /\ inHand' = inHand
        /\ \/ conn' = conn /\ rpc \in {"head", "backoff"}
              /\ rpc' \in {"head", "ended", "backoff"}
           \/ conn' = conn /\ rpc \in {"reading", "upgrading"} /\ rpc' \in {"reading", "leave"}
           \/ conn' = 0 /\ rpc = "upgrading" /\ rpc' = "backoff"
    BY <1>3, <1>5 DEF ReaderStops, StreamEnds, BackoffEnds, ConnectRefused, UpgradeSucceeds,
       UpgradeFails, ReaderGoes, sharedVars
  <2>2. WsTypeOK'
    BY <1>3, <1>4, <2>1 DEF WsTypeOK
  <2>3. ReaderHasConnection'
    BY <2>1 DEF ReaderHasConnection
  <2>4. CounterFollows' /\ CloneIsReady' /\ NothingUnread'
    BY <1>1, <2>1 DEF CounterFollows, CloneIsReady, NothingUnread, Stopping
  <2>5. QED
    BY <1>2, <2>2, <2>3, <2>4
<1>6. CASE LeaveConnection
  <2>1. /\ latest' = latest /\ generation' = generation /\ connected' = FALSE
        /\ inHand' = inHand /\ conn' = 0 /\ rpc = "leave" /\ rpc' = "backoff"
    BY <1>6 DEF LeaveConnection, ReaderGoes
  <2>2. WsTypeOK'
    BY <1>3, <1>4, <2>1
  <2>3. ReaderHasConnection' /\ CounterFollows' /\ CloneIsReady' /\ NothingUnread'
    BY <1>1, <2>1 DEF ReaderHasConnection, CounterFollows, CloneIsReady, NothingUnread, Stopping
  <2>4. QED
    BY <1>2, <2>2, <2>3
<1>7. CASE Store
  <2>1. /\ latest' = inHand /\ generation' = generation /\ connected' = connected
        /\ inHand' = inHand /\ conn' = conn /\ rpc = "store" /\ rpc' = "bump"
    BY <1>7 DEF Store, ReaderGoes
  <2>2. WsTypeOK'
    BY <1>3, <1>4, <2>1 DEF WsTypeOK
  <2>3. ReaderHasConnection' /\ CounterFollows' /\ CloneIsReady' /\ NothingUnread'
    BY <1>1, <2>1 DEF ReaderHasConnection, CounterFollows, CloneIsReady, NothingUnread, Stopping
  <2>4. QED
    BY <1>2, <2>2, <2>3
<1>8. CASE Bump
  <2>1. /\ latest' = latest /\ generation' = generation + 1 /\ connected' = connected
        /\ inHand' = inHand /\ conn' = conn /\ rpc = "bump" /\ rpc' = "reading"
    BY <1>8 DEF Bump, ReaderGoes
  <2>2. WsTypeOK'
    BY <1>3, <1>4, <2>1 DEF WsTypeOK
  <2>3. CounterFollows' /\ NothingUnread'
    BY <1>1, <1>3, <2>1 DEF CounterFollows, NothingUnread
  <2>4. ReaderHasConnection' /\ CloneIsReady'
    BY <1>1, <2>1 DEF ReaderHasConnection, CloneIsReady, Stopping
  <2>5. QED
    BY <1>2, <2>2, <2>3, <2>4
<1>9. CASE ReadFrame
  <2>1. /\ conn \in Conn /\ wire[conn] \in Seq(Frame) /\ wire[conn] # <<>>
        /\ got' = [got EXCEPT ![conn] = Head(wire[conn])]
        /\ got \in [Conn -> AnyFrame]
    BY <1>9 DEF ReadFrame, Receive, ReaderHasConnection, WsTypeOK, LinkTypeOK
  <2>2. got'[conn] \in Frame
    BY <2>1, TailFacts
  <2>3. /\ latest' = latest /\ generation' = generation /\ connected' = connected
        /\ conn' = conn /\ rpc = "reading"
        /\ \/ rpc' = "leave" /\ inHand' = inHand
           \/ rpc' = "store" /\ inHand' = got'[conn]
    BY <1>9 DEF ReadFrame, ReaderGoes, sharedVars
  <2>4. inHand' \in AnyFrame /\ (rpc' = "store" => inHand' # 0)
    BY <1>3, <2>2, <2>3, FrameBounds DEF Frame
  <2>5. WsTypeOK'
    BY <1>3, <1>4, <2>1, <2>3, <2>4
  <2>6. ReaderHasConnection' /\ CounterFollows' /\ CloneIsReady' /\ NothingUnread'
    BY <1>1, <2>3, <2>4
    DEF ReaderHasConnection, CounterFollows, CloneIsReady, NothingUnread, Stopping
  <2>7. QED
    BY <1>2, <2>5, <2>6
<1>10. CASE \E k \in Conn : Connect(k)
  <2> PICK k \in Conn : Connect(k)
    BY <1>10
  <2>1. k # 0
    BY LinkAssumption
  <2>2. /\ latest' = latest /\ generation' = generation /\ connected' = connected
        /\ inHand' = inHand /\ conn' = k /\ rpc = "head" /\ rpc' = "upgrading"
    BY DEF Connect, ReaderGoes, sharedVars
  <2>3. WsTypeOK'
    BY <1>3, <1>4, <2>2
  <2>4. ReaderHasConnection' /\ CounterFollows' /\ CloneIsReady' /\ NothingUnread'
    BY <1>1, <2>1, <2>2
    DEF ReaderHasConnection, CounterFollows, CloneIsReady, NothingUnread, Stopping
  <2>5. QED
    BY <1>2, <2>3, <2>4
<1>11. QED
  BY <1>5, <1>6, <1>7, <1>8, <1>9, <1>10 DEF ReaderStep

\* A frame that parses replaces everything on the screen but the cards that
\* were there.
LEMMA ApplyPreserves ==
  ASSUME WsIInv, LinkTypeOK', Apply
  PROVE  WsIInv'
<1> USE DEF WsIInv
<1>1. /\ UNCHANGED <<content, latest, generation, connected, rpc, conn, inHand, phase, genRead>>
      /\ upc = "clone" /\ upc' = "idle" /\ lastGen' = genRead /\ taken' = latest
  BY DEF Apply, sharedVars, readerVars
<1>2. /\ latest \in Frame /\ content[latest] \in Contents
      /\ content \in [Frame -> Contents]
  BY <1>1, FrameBounds DEF CloneIsReady, WsTypeOK
<1>3. ReaderHasConnection' /\ CounterFollows' /\ CloneIsReady' /\ NothingUnread'
  BY <1>1 DEF ReaderHasConnection, CounterFollows, CloneIsReady, NothingUnread, Stopping
<1>4. CASE content[latest] = Garbled
  <2>1. UNCHANGED <<applied, devices, telemetry, ext>>
    BY <1>4 DEF Apply
  <2>2. WsTypeOK'
    BY <1>1, <2>1 DEF WsTypeOK
  <2>3. ScreenIsOneFrame' /\ AppliedIsParsed'
    BY <1>1, <2>1 DEF ScreenIsOneFrame, AppliedIsParsed
  <2>4. QED
    BY <1>3, <2>2, <2>3
<1>5. CASE content[latest] # Garbled
  <2> DEFINE doc == content[latest]
  <2>1. doc \in Parsed /\ doc.devices \in SUBSET Dev /\ doc.ext \in BOOLEAN
    BY <1>2, <1>5, WsAssumption DEF Parsed
  <2>2. Merge(doc)
    BY <1>5 DEF Apply
  <2>3. /\ devices' = Admitted(doc.devices)
        /\ telemetry' = [d \in Dev |-> IF d \in doc.devices \cap devices' THEN latest ELSE 0]
        /\ ext' = IF doc.ext THEN latest ELSE 0
        /\ applied' = latest
    BY <2>2 DEF Merge
  <2>4. devices' \subseteq Dev /\ Cardinality(devices') <= MaxDevices
    BY <2>1, <2>3, AdmittedIsBounded DEF WsTypeOK, ScreenIsOneFrame
  <2>5. latest \in AnyFrame /\ 0 \in AnyFrame
    BY <1>2, FrameBounds
  <2>6. WsTypeOK'
    <3>1. telemetry' \in [Dev -> AnyFrame] /\ ext' \in AnyFrame /\ applied' \in AnyFrame
      BY <2>3, <2>5
    <3>2. QED
      BY <1>1, <2>4, <2>5, <3>1 DEF WsTypeOK
  <2>7. AppliedIsParsed'
    BY <1>1, <1>5, <2>3 DEF AppliedIsParsed
  <2>8. content'[applied'] = doc
    BY <1>1, <2>3
  <2> HIDE DEF doc
  <2>9. ScreenIsOneFrame'
    BY <2>3, <2>4, <2>8 DEF ScreenIsOneFrame
  <2>10. QED
    BY <1>3, <2>6, <2>7, <2>9
<1>6. QED
  BY <1>4, <1>5

LEMMA BackendPreserves ==
  ASSUME WsIInv, LinkTypeOK', BackendStep
  PROVE  WsIInv'
<1> USE DEF WsIInv
<1>1. CASE LoadGeneration
  <2>1. /\ UNCHANGED <<content, latest, generation, connected, rpc, conn, inHand, phase, lastGen,
                       taken, applied, devices, telemetry, ext>>
        /\ phase \in {"init", "running"} /\ generation # lastGen
        /\ genRead' = generation /\ upc' = "clone"
    BY <1>1 DEF LoadGeneration, sharedVars, readerVars
  <2>2. WsTypeOK'
    BY <2>1 DEF WsTypeOK
  <2>3. latest # 0
    BY <2>1 DEF CounterFollows, WsTypeOK
  <2>4. ReaderHasConnection' /\ CounterFollows' /\ CloneIsReady' /\ NothingUnread'
    BY <2>1, <2>3
    DEF ReaderHasConnection, CounterFollows, CloneIsReady, NothingUnread, Stopping, WsTypeOK
  <2>5. ScreenIsOneFrame' /\ AppliedIsParsed'
    BY <2>1 DEF ScreenIsOneFrame, AppliedIsParsed
  <2>6. QED
    BY <2>2, <2>4, <2>5
<1>2. CASE InitReturns \/ BeginWsDrop
  <2>1. /\ UNCHANGED <<content, latest, generation, connected, rpc, conn, inHand, upc, genRead,
                       lastGen, taken, applied, devices, telemetry, ext>>
        /\ upc = "idle" /\ phase' \in {"running", "dropping"}
    BY <1>2 DEF InitReturns, BeginWsDrop, sharedVars, readerVars
  <2>2. WsTypeOK'
    BY <2>1 DEF WsTypeOK
  <2>3. ReaderHasConnection' /\ CounterFollows' /\ CloneIsReady' /\ NothingUnread'
    BY <2>1 DEF ReaderHasConnection, CounterFollows, CloneIsReady, NothingUnread
  <2>4. ScreenIsOneFrame' /\ AppliedIsParsed'
    BY <2>1 DEF ScreenIsOneFrame, AppliedIsParsed
  <2>5. QED
    BY <2>2, <2>3, <2>4
<1>3. CASE FinishWsDrop
  <2>1. /\ UNCHANGED <<content, latest, generation, connected, inHand, upc, genRead,
                       lastGen, taken, applied, devices, telemetry, ext>>
        /\ phase = "dropping" /\ phase' = "dropped"
        /\ rpc \notin {"store", "bump", "leave"} /\ rpc' = "ended" /\ conn' = 0
    BY <1>3 DEF FinishWsDrop, ReaderGoes, sharedVars
  <2>2. WsTypeOK'
    BY <2>1 DEF WsTypeOK
  <2>3. ReaderHasConnection' /\ CounterFollows' /\ CloneIsReady' /\ NothingUnread'
    BY <2>1 DEF ReaderHasConnection, CounterFollows, CloneIsReady, NothingUnread, Stopping
  <2>4. ScreenIsOneFrame' /\ AppliedIsParsed'
    BY <2>1 DEF ScreenIsOneFrame, AppliedIsParsed
  <2>5. QED
    BY <2>2, <2>3, <2>4
<1>4. QED
  BY <1>1, <1>2, <1>3, ApplyPreserves DEF BackendStep

LEMMA WatcherPreserves ==
  ASSUME WsIInv, LinkTypeOK', WsNext \/ UNCHANGED wsVars
  PROVE  WsIInv'
<1>1. CASE UNCHANGED wsVars
  <2> USE <1>1 DEF WsIInv, wsVars, sharedVars, readerVars, backendVars
  <2>1. WsTypeOK'
    BY DEF WsTypeOK
  <2>2. ScreenIsOneFrame' /\ AppliedIsParsed'
    BY DEF ScreenIsOneFrame, AppliedIsParsed
  <2>3. ReaderHasConnection' /\ CounterFollows' /\ CloneIsReady' /\ NothingUnread'
    BY DEF ReaderHasConnection, CounterFollows, CloneIsReady, NothingUnread, Stopping
  <2>4. QED
    BY <2>1, <2>2, <2>3
<1>2. QED
  BY <1>1, ReaderPreserves, BackendPreserves DEF WsNext

-----------------------------------------------------------------------------
(***************************************************************************)
(* The order in which frames arrive.                                       *)
(***************************************************************************)
\* To its peer the watcher is a client like any other.
LEMMA WatcherIsAClient ==
  ASSUME WsIInv, WsNext
  PROVE  UNCHANGED linkVars \/ \E k \in Conn : Dial(k) \/ Receive(k) \/ HangUp(k)
<1>1. conn \in Conn \cup {0} /\ ReaderHasConnection
  BY DEF WsIInv, WsTypeOK
<1>2. CASE ReadFrame
  BY <1>1, <1>2 DEF ReadFrame, ReaderHasConnection
<1>3. CASE LeaveConnection
  BY <1>1, <1>3 DEF LeaveConnection, ReaderHasConnection
<1>4. CASE FinishWsDrop
  BY <1>1, <1>4 DEF FinishWsDrop
<1>5. CASE \E k \in Conn : Connect(k)
  BY <1>5 DEF Connect
<1>6. CASE ReaderStops \/ ConnectRefused \/ UpgradeSucceeds \/ UpgradeFails \/ Store \/ Bump
           \/ StreamEnds \/ BackoffEnds
  BY <1>6 DEF ReaderStops, ConnectRefused, UpgradeSucceeds, UpgradeFails, Store, Bump,
     StreamEnds, BackoffEnds
<1>7. CASE LoadGeneration \/ Apply \/ InitReturns \/ BeginWsDrop
  BY <1>7 DEF LoadGeneration, Apply, InitReturns, BeginWsDrop
<1>8. QED
  BY <1>2, <1>3, <1>4, <1>5, <1>6, <1>7 DEF WsNext, ReaderStep, BackendStep

LEMMA ConnectionSteps ==
  ASSUME LinkTypeOK, WiresInOrder, NothingBeforeOpen, NEW k \in Conn,
         Dial(k) \/ Receive(k) \/ HangUp(k) \/ Network(k)
  PROVE  LinkTypeOK' /\ WiresInOrder' /\ NothingBeforeOpen' /\ published' = published
<1> USE DEF LinkTypeOK
<1>1. published' = published
  BY DEF Dial, Receive, HangUp, Network, Break, GoSilent
<1>2. CASE Receive(k)
  <2> DEFINE rest == Tail(wire[k])
             first == Head(wire[k])
  <2>1. wire[k] \in Seq(Frame) /\ wire[k] # <<>>
    BY <1>2 DEF Receive
  <2>2. /\ first \in AnyFrame /\ rest \in Seq(Frame)
        /\ Len(wire[k]) \in Nat /\ Len(rest) = Len(wire[k]) - 1
        /\ \A i \in 1..Len(rest) : i + 1 \in 1..Len(wire[k]) /\ rest[i] = wire[k][i + 1]
    BY <2>1, TailFacts, FrameBounds
  <2>3. /\ wire' = [wire EXCEPT ![k] = rest] /\ got' = [got EXCEPT ![k] = first]
        /\ link' = link
    BY <1>2 DEF Receive
  <2> HIDE DEF rest, first
  <2>4. LinkTypeOK'
    BY <1>1, <2>2, <2>3
  <2>5. \A j \in Conn : wire'[j] = IF j = k THEN rest ELSE wire[j]
    BY <2>3
  <2>6. \A i, j \in 1..Len(rest) : i < j => rest[i] <= rest[j]
    <3> TAKE i, j \in 1..Len(rest)
    <3>1. i < j => i + 1 < j + 1
      BY <2>2
    <3>2. QED
      BY <2>2, <3>1 DEF WiresInOrder
  <2>7. \A i \in 1..Len(rest) : rest[i] <= published
    BY <2>2 DEF WiresInOrder
  <2>8. WiresInOrder'
    <3> SUFFICES ASSUME NEW l \in Conn
                 PROVE  /\ \A i, j \in 1..Len(wire'[l]) : i < j => wire'[l][i] <= wire'[l][j]
                        /\ \A i \in 1..Len(wire'[l]) : wire'[l][i] <= published
      BY <1>1 DEF WiresInOrder
    <3>1. CASE l = k
      BY <2>5, <2>6, <2>7, <3>1
    <3>2. CASE l # k
      BY <2>5, <3>2 DEF WiresInOrder
    <3>3. QED
      BY <3>1, <3>2
  <2>9. NothingBeforeOpen'
    BY <1>2, <2>3, <2>5 DEF NothingBeforeOpen, Receive
  <2>10. QED
    BY <1>1, <2>4, <2>8, <2>9
<1>3. CASE ~Receive(k)
  <2>1. /\ got' = got
        /\ \/ wire' = wire /\ link[k] = "unused"
           \/ wire' = [wire EXCEPT ![k] = <<>>]
        /\ \E s \in LinkState : link' = [link EXCEPT ![k] = s]
    BY <1>3 DEF Dial, NextUnused, HangUp, Network, Break, GoSilent, SetLink, LinkState
  <2>2. wire' \in [Conn -> Seq(Frame)] /\ link' \in [Conn -> LinkState]
    BY <2>1, EmptySeq
  <2>3. \A j \in Conn : wire'[j] = (IF j = k THEN <<>> ELSE wire[j]) /\ (j # k => link'[j] = link[j])
    BY <2>1 DEF NothingBeforeOpen
  <2>4. WiresInOrder' /\ NothingBeforeOpen'
    BY <1>1, <2>3 DEF WiresInOrder, NothingBeforeOpen
  <2>5. QED
    BY <1>1, <2>1, <2>2, <2>4
<1>4. QED
  BY <1>2, <1>3

\* Every frame the reader takes is no older than the one before, over every
\* reconnection.
LEMMA WatcherKeepsOrder ==
  ASSUME ArrivalIInv, WsNext
  PROVE  FromNowOn'
<1> USE DEF ArrivalIInv, WsIInv
<1>1. published' = published
  BY WatcherIsAClient, ConnectionSteps DEF linkVars, WsTypeOK
<1>2. /\ taken \in Nat /\ latest \in Nat /\ inHand \in Nat /\ published \in Nat
      /\ conn \in Conn \cup {0} /\ 0 \notin Conn /\ wire \in [Conn -> Seq(Frame)]
  BY FrameBounds, LinkAssumption DEF WsTypeOK, LinkTypeOK
<1>3. CASE Store
  <2>1. /\ latest' = inHand /\ rpc = "store" /\ rpc' = "bump" /\ conn' = conn /\ wire' = wire
        /\ taken' = taken
    BY <1>3 DEF Store, ReaderGoes, linkVars, backendVars
  <2>2. QED
    BY <1>1, <1>2, <2>1 DEF FromNowOn
<1>4. CASE ReadFrame
  <2> DEFINE rest == Tail(wire[conn])
             first == Head(wire[conn])
  <2>1. /\ conn \in Conn /\ wire[conn] # <<>> /\ wire[conn] \in Seq(Frame)
        /\ Receive(conn) /\ rpc = "reading"
        /\ conn' = conn /\ latest' = latest /\ taken' = taken
        /\ wire' = [wire EXCEPT ![conn] = rest] /\ got' = [got EXCEPT ![conn] = first]
    BY <1>2, <1>4 DEF ReadFrame, Receive, ReaderHasConnection, sharedVars, backendVars
  <2>2. /\ first \in Frame /\ first = wire[conn][1] /\ 1 \in 1..Len(wire[conn])
        /\ Len(wire[conn]) \in Nat /\ Len(rest) = Len(wire[conn]) - 1
        /\ \A i \in 1..Len(rest) : i + 1 \in 1..Len(wire[conn]) /\ rest[i] = wire[conn][i + 1]
    BY <2>1, TailFacts
  <2> HIDE DEF rest, first
  <2>3. rpc' = "store" => inHand' = first
    <3>1. got'[conn] = first
      BY <2>1 DEF WsTypeOK, LinkTypeOK
    <3>2. QED
      BY <1>4, <3>1 DEF ReadFrame, ReaderGoes
  <2>4. latest <= first /\ first <= published
    BY <2>1, <2>2, <1>2 DEF FromNowOn
  <2>5. ASSUME NEW i \in 1..Len(rest)
        PROVE  latest <= rest[i] /\ rest[i] <= published /\ first <= rest[i]
    <3>1. i + 1 \in 1..Len(wire[conn]) /\ rest[i] = wire[conn][i + 1] /\ 1 < i + 1
      BY <2>2
    <3>2. QED
      BY <1>2, <2>1, <2>2, <3>1 DEF FromNowOn, WiresInOrder
  <2>6. wire'[conn'] = rest
    BY <1>2, <2>1
  <2>7. QED
    BY <1>1, <2>1, <2>3, <2>4, <2>5, <2>6 DEF FromNowOn
<1>5. CASE \E k \in Conn : Connect(k)
  <2> PICK k \in Conn : Connect(k)
    BY <1>5
  <2>1. /\ rpc' = "upgrading" /\ conn' = k /\ latest' = latest /\ taken' = taken
        /\ wire' = wire /\ wire[k] = <<>>
    BY DEF Connect, Dial, NextUnused, NothingBeforeOpen, ReaderGoes, sharedVars, backendVars
  <2>2. QED
    BY <1>1, <2>1 DEF FromNowOn
<1>6. CASE LeaveConnection \/ UpgradeFails \/ FinishWsDrop
  <2>1. conn' = 0 /\ latest' = latest /\ taken' = taken /\ rpc' \in {"backoff", "ended"}
    BY <1>6 DEF LeaveConnection, UpgradeFails, FinishWsDrop, ReaderGoes, sharedVars, backendVars
  <2>2. QED
    BY <1>1, <2>1 DEF FromNowOn
<1>7. CASE ReaderStops \/ ConnectRefused \/ UpgradeSucceeds \/ Bump \/ StreamEnds \/ BackoffEnds
  <2>1. /\ conn' = conn /\ latest' = latest /\ taken' = taken /\ wire' = wire
        /\ rpc' # "store"
    BY <1>7 DEF ReaderStops, ConnectRefused, UpgradeSucceeds, Bump, StreamEnds, BackoffEnds,
       ReaderGoes, sharedVars, backendVars, linkVars
  <2>2. QED
    BY <1>1, <2>1 DEF FromNowOn
<1>8. CASE LoadGeneration \/ Apply \/ InitReturns \/ BeginWsDrop
  <2>1. /\ conn' = conn /\ latest' = latest /\ wire' = wire /\ rpc' = rpc /\ inHand' = inHand
        /\ taken' \in {taken, latest}
    BY <1>8 DEF LoadGeneration, Apply, InitReturns, BeginWsDrop, sharedVars, readerVars, linkVars
  <2>2. QED
    BY <1>1, <1>2, <2>1 DEF FromNowOn
<1>9. QED
  BY <1>3, <1>4, <1>5, <1>6, <1>7, <1>8 DEF WsNext, ReaderStep, BackendStep

\* Whoever sends may add frames no older than what the reader has, and what is
\* on the way may be lost.
LEMMA ArrivingKeepsOrder ==
  ASSUME WsTypeOK, FromNowOn, UNCHANGED wsVars,
         published' \in Nat, published <= published',
         NEW k \in Conn, NEW n \in Frame,
         \/ wire' = wire
         \/ wire' = [wire EXCEPT ![k] = <<>>]
         \/ /\ wire' = [wire EXCEPT ![k] = Append(wire[k], n)]
            /\ n <= published'
            /\ k = conn => latest <= n /\ (rpc = "store" => inHand <= n)
  PROVE  FromNowOn'
<1> DEFINE longer == Append(wire[k], n)
<1>1. /\ latest' = latest /\ taken' = taken /\ inHand' = inHand /\ rpc' = rpc /\ conn' = conn
  BY DEF wsVars, sharedVars, readerVars, backendVars
<1>2. /\ taken \in Nat /\ latest \in Nat /\ inHand \in Nat /\ published \in Nat
      /\ conn \in Conn \cup {0} /\ wire \in [Conn -> Seq(Frame)]
  BY FrameBounds DEF WsTypeOK, LinkTypeOK
<1>3. /\ taken <= latest /\ latest <= published'
      /\ rpc = "store" => latest <= inHand /\ inHand <= published'
  BY <1>2 DEF FromNowOn
<1>4. ASSUME NEW j \in Conn, NEW i \in 1..Len(wire[j])
      PROVE  wire[j][i] \in Nat
  BY <1>2, ElementOfSeq, FrameBounds
<1>5. ASSUME conn # 0, NEW i \in 1..Len(wire[conn])
      PROVE  /\ latest <= wire[conn][i] /\ wire[conn][i] <= published'
             /\ rpc = "store" => inHand <= wire[conn][i]
  BY <1>2, <1>4, <1>5 DEF FromNowOn
<1>6. ASSUME conn # 0, NEW i \in 1..Len(wire'[conn])
      PROVE  /\ latest <= wire'[conn][i] /\ wire'[conn][i] <= published'
             /\ rpc = "store" => inHand <= wire'[conn][i]
  <2>1. CASE wire' = wire
    BY <1>5, <1>6, <2>1
  <2>2. CASE wire' = [wire EXCEPT ![k] = <<>>]
    <3>1. conn # k
      BY <1>2, <1>6, <2>2
    <3>2. wire'[conn] = wire[conn]
      BY <1>2, <1>6, <2>2, <3>1
    <3>3. QED
      BY <1>5, <1>6, <3>2
  <2>3. CASE /\ wire' = [wire EXCEPT ![k] = longer]
             /\ n <= published'
             /\ k = conn => latest <= n /\ (rpc = "store" => inHand <= n)
    <3>1. /\ Len(longer) = Len(wire[k]) + 1 /\ Len(wire[k]) \in Nat
          /\ \A j \in 1..Len(wire[k]) : longer[j] = wire[k][j]
          /\ longer[Len(wire[k]) + 1] = n
      BY <1>2, AppendFacts
    <3> HIDE DEF longer
    <3>2. wire'[conn] = IF conn = k THEN longer ELSE wire[conn]
      BY <1>2, <1>6, <2>3
    <3>3. CASE conn # k
      BY <1>5, <1>6, <3>2, <3>3
    <3>4. CASE conn = k /\ i = Len(wire[k]) + 1
      BY <2>3, <3>1, <3>2, <3>4
    <3>5. CASE conn = k /\ i # Len(wire[k]) + 1
      <4>1. i \in 1..Len(wire[conn])
        BY <1>6, <3>1, <3>2, <3>5
      <4>2. wire'[conn][i] = wire[conn][i]
        BY <3>1, <3>2, <3>5, <4>1
      <4>3. QED
        BY <1>5, <1>6, <4>1, <4>2
    <3>6. QED
      BY <3>3, <3>4, <3>5
  <2>4. QED
    BY <2>1, <2>2, <2>3
<1>7. QED
  BY <1>1, <1>3, <1>6 DEF FromNowOn

\* A peer that sends the newest frame.
LEMMA PeerPreserves ==
  ASSUME ArrivalIInv, Peer
  PROVE  ArrivalIInv'
<1> USE DEF ArrivalIInv
<1>0. UNCHANGED wsVars /\ WsTypeOK /\ WsIInv
  BY DEF Peer, WsIInv
<1>1. /\ published \in AnyFrame /\ published \in Nat /\ MaxFrames \in Nat /\ latest \in Nat
      /\ inHand \in Nat /\ wire \in [Conn -> Seq(Frame)] /\ link \in [Conn -> LinkState]
      /\ got \in [Conn -> AnyFrame]
  BY <1>0, FrameBounds DEF WsTypeOK, LinkTypeOK
<1>2. ASSUME LinkTypeOK', FromNowOn', WiresInOrder', NothingBeforeOpen'
      PROVE  ArrivalIInv'
  BY <1>0, <1>2, WatcherPreserves
<1>3. \A k \in Conn : \A i \in 1..Len(wire[k]) : wire[k][i] <= published /\ wire[k][i] \in Nat
  <2>1. \A k \in Conn : \A i \in 1..Len(wire[k]) : wire[k][i] \in Frame
    BY <1>1, ElementOfSeq
  <2>2. QED
    BY <2>1, FrameBounds DEF WiresInOrder
<1>4. CASE PeerPublishes
  <2>1. published' = published + 1 /\ published < MaxFrames /\ UNCHANGED <<link, wire, got>>
    BY <1>4 DEF PeerPublishes
  <2>2. LinkTypeOK' /\ NothingBeforeOpen'
    BY <1>1, <2>1 DEF LinkTypeOK, AnyFrame, NothingBeforeOpen
  <2>3. \A k \in Conn : \A i \in 1..Len(wire[k]) : wire[k][i] <= published + 1
    <3> TAKE k \in Conn
    <3> TAKE i \in 1..Len(wire[k])
    <3> DEFINE frame == wire[k][i]
    <3>1. frame <= published /\ frame \in Nat
      BY <1>3
    <3> HIDE DEF frame
    <3>2. frame <= published + 1
      BY <1>1, <3>1
    <3>3. QED
      BY <3>2 DEF frame
  <2>4. WiresInOrder'
    BY <2>1, <2>3 DEF WiresInOrder
  <2>5. published + 1 \in Frame /\ published <= published + 1
    BY <1>1, <2>1 DEF Frame, AnyFrame
  <2>6. CASE Conn # {}
    <3> PICK k \in Conn : TRUE
      BY <2>6
    <3>1. FromNowOn'
      BY <1>0, <1>1, <2>1, <2>5, FrameBounds, ArrivingKeepsOrder
    <3>2. QED
      BY <1>2, <2>2, <2>4, <3>1
  <2>7. CASE Conn = {}
    <3>1. conn = 0 /\ taken \in Nat
      BY <1>0, <2>7, FrameBounds DEF WsTypeOK
    <3>2. FromNowOn'
      BY <1>0, <1>1, <2>1, <3>1
      DEF FromNowOn, wsVars, sharedVars, readerVars, backendVars
    <3>3. QED
      BY <1>2, <2>2, <2>4, <3>2
  <2>8. QED
    BY <2>6, <2>7
<1>5. ASSUME NEW k \in Conn, PeerAnswers(k) \/ PeerCloses(k)
      PROVE  ArrivalIInv'
  <2>1. /\ UNCHANGED <<published, wire, got>>
        /\ link[k] \in {"dialling", "open"}
        /\ \E s \in {"open", "closed"} : link' = [link EXCEPT ![k] = s]
    BY <1>5 DEF PeerAnswers, PeerCloses, SetLink
  <2>2. LinkTypeOK' /\ NothingBeforeOpen' /\ WiresInOrder'
    BY <1>1, <2>1 DEF LinkTypeOK, LinkState, NothingBeforeOpen, WiresInOrder
  <2>3. FromNowOn'
    BY <1>0, <2>1 DEF FromNowOn, wsVars, sharedVars, readerVars, backendVars
  <2>4. QED
    BY <1>2, <2>2, <2>3
<1>6. ASSUME NEW k \in Conn, PeerSends(k)
      PROVE  ArrivalIInv'
  <2> DEFINE longer == Append(wire[k], published)
  <2>1. /\ UNCHANGED <<published, link, got>> /\ link[k] = "open"
        /\ wire' = [wire EXCEPT ![k] = longer] /\ LastSent(k) < published
    BY <1>6 DEF PeerSends
  <2>2. LastSent(k) \in Nat
    <3>1. CASE wire[k] = <<>>
      BY <1>1, <3>1, FrameBounds DEF LastSent
    <3>2. CASE wire[k] # <<>>
      <4>1. Len(wire[k]) \in 1..Len(wire[k])
        BY <1>1, <3>2, EmptySeq
      <4>2. QED
        BY <1>3, <3>2, <4>1 DEF LastSent, Last
    <3>3. QED
      BY <3>1, <3>2
  <2>3. published \in Frame
    BY <1>1, <2>1, <2>2, FrameBounds
  <2>4. FromNowOn'
    <3>1. latest <= published /\ (rpc = "store" => inHand <= published)
      BY DEF FromNowOn
    <3>2. published' = published /\ published <= published
      BY <1>1, <2>1
    <3>3. QED
      BY <1>0, <1>1, <2>1, <2>3, <3>1, <3>2, ArrivingKeepsOrder
  <2>5. /\ longer \in Seq(Frame) /\ Len(longer) = Len(wire[k]) + 1 /\ Len(wire[k]) \in Nat
        /\ \A i \in 1..Len(wire[k]) : longer[i] = wire[k][i]
        /\ longer[Len(wire[k]) + 1] = published
    BY <1>1, <2>3, AppendFacts
  <2> HIDE DEF longer
  <2>6. \A i \in 1..Len(longer) : i \in 1..Len(wire[k]) \/ i = Len(wire[k]) + 1
    BY <2>5
  <2>7. \A j \in Conn : wire'[j] = IF j = k THEN longer ELSE wire[j]
    BY <1>1, <2>1
  <2>8. LinkTypeOK'
    BY <1>1, <2>1, <2>5 DEF LinkTypeOK
  <2>9. NothingBeforeOpen'
    BY <2>1, <2>7 DEF NothingBeforeOpen
  <2>10. \A i \in 1..Len(longer) : longer[i] <= published
    BY <1>1, <1>3, <2>5, <2>6
  <2>11. \A i, j \in 1..Len(longer) : i < j => longer[i] <= longer[j]
    <3> TAKE i, j \in 1..Len(longer)
    <3>1. CASE j = Len(wire[k]) + 1
      BY <2>5, <2>10, <3>1
    <3>2. CASE j # Len(wire[k]) + 1
      <4>1. i < j => i \in 1..Len(wire[k]) /\ j \in 1..Len(wire[k])
        BY <2>5, <3>2
      <4>2. QED
        BY <2>5, <4>1 DEF WiresInOrder
    <3>3. QED
      BY <3>1, <3>2
  <2>12. WiresInOrder'
    <3> SUFFICES ASSUME NEW l \in Conn
                 PROVE  /\ \A i, j \in 1..Len(wire'[l]) : i < j => wire'[l][i] <= wire'[l][j]
                        /\ \A i \in 1..Len(wire'[l]) : wire'[l][i] <= published
      BY <2>1 DEF WiresInOrder
    <3>1. CASE l = k
      BY <2>7, <2>10, <2>11, <3>1
    <3>2. CASE l # k
      BY <2>7, <3>2 DEF WiresInOrder
    <3>3. QED
      BY <3>1, <3>2
  <2>13. QED
    BY <1>2, <2>4, <2>8, <2>9, <2>12
<1>7. ASSUME NEW k \in Conn, Network(k)
      PROVE  ArrivalIInv'
  <2>1. LinkTypeOK' /\ WiresInOrder' /\ NothingBeforeOpen' /\ published' = published
    BY <1>0, <1>7, ConnectionSteps DEF WsTypeOK
  <2>2. wire' = [wire EXCEPT ![k] = <<>>]
    BY <1>7 DEF Network, Break, GoSilent
  <2>3. \A j \in Conn : wire'[j] = IF j = k THEN <<>> ELSE wire[j]
    BY <1>1, <2>2
  <2>4. conn \in Conn \cup {0} /\ conn' = conn
    BY <1>0 DEF WsTypeOK, wsVars, readerVars
  <2>5. FromNowOn'
    BY <1>0, <2>1, <2>3, <2>4 DEF FromNowOn, wsVars, sharedVars, readerVars, backendVars
  <2>6. QED
    BY <1>2, <2>1, <2>5
<1>8. QED
  BY <1>4, <1>5, <1>6, <1>7 DEF Peer

LEMMA WatcherKeepsArrival ==
  ASSUME ArrivalIInv, WsNext
  PROVE  ArrivalIInv'
<1>1. WsIInv /\ WsTypeOK /\ LinkTypeOK /\ WiresInOrder /\ NothingBeforeOpen
  BY DEF ArrivalIInv, WsIInv, WsTypeOK
<1>2. LinkTypeOK' /\ WiresInOrder' /\ NothingBeforeOpen'
  <2>1. CASE UNCHANGED linkVars
    BY <1>1, <2>1 DEF linkVars, LinkTypeOK, WiresInOrder, NothingBeforeOpen
  <2>2. CASE \E k \in Conn : Dial(k) \/ Receive(k) \/ HangUp(k)
    BY <1>1, <2>2, ConnectionSteps
  <2>3. QED
    BY <1>1, <2>1, <2>2, WatcherIsAClient
<1>3. WsIInv'
  BY <1>1, <1>2, WatcherPreserves
<1>4. FromNowOn'
  BY WatcherKeepsOrder
<1>5. QED
  BY <1>2, <1>3, <1>4 DEF ArrivalIInv

LEMMA ArrivalStarts == LinkInit /\ WsInit => ArrivalIInv
<1>1. LinkInit /\ WsInit => FromNowOn /\ WiresInOrder /\ NothingBeforeOpen
  BY DEF LinkInit, WsInit, FromNowOn, WiresInOrder, NothingBeforeOpen
<1>2. QED
  BY <1>1, WatcherStarts DEF ArrivalIInv

LEMMA ArrivalStutters ==
  ASSUME ArrivalIInv, UNCHANGED <<linkVars, wsVars>>
  PROVE  ArrivalIInv'
<1>1. UNCHANGED wsVars /\ UNCHANGED <<published, link, wire, got>>
  BY DEF linkVars
<1>2. LinkTypeOK' /\ WiresInOrder' /\ NothingBeforeOpen'
  BY <1>1 DEF ArrivalIInv, WsIInv, WsTypeOK, LinkTypeOK, WiresInOrder, NothingBeforeOpen
<1>3. WsIInv'
  BY <1>1, <1>2, WatcherPreserves DEF ArrivalIInv
<1>4. FromNowOn'
  BY <1>1 DEF ArrivalIInv, FromNowOn, wsVars, sharedVars, readerVars, backendVars
<1>5. QED
  BY <1>2, <1>3, <1>4 DEF ArrivalIInv

LEMMA ArrivalHolds == WsSafety => []ArrivalIInv
<1>1. ArrivalIInv /\ [WsNext \/ Peer]_<<linkVars, wsVars>> => ArrivalIInv'
  BY WatcherKeepsArrival, PeerPreserves, ArrivalStutters
<1>2. QED
  BY <1>1, ArrivalStarts, PTL DEF WsSafety, WsStart

\* Whatever the peer answers, sends and breaks, the watcher's numbers all come
\* from the newest frame that parsed, and no sequence of frames makes it keep
\* more than MaxDevices cards.
THEOREM WatcherShowsOneFrame == WsSafety => []ScreenIsOneFrame
<1>1. ArrivalIInv => ScreenIsOneFrame
  BY DEF ArrivalIInv, WsIInv
<1>2. QED
  BY <1>1, ArrivalHolds, PTL

\* Every state of the watcher is of its types.
THEOREM WatcherTypes == WsSafety => []WsTypeOK
<1>1. ArrivalIInv => WsTypeOK
  BY DEF ArrivalIInv, WsIInv
<1>2. QED
  BY <1>1, ArrivalHolds, PTL

\* When the counter says there is nothing new, the newest frame has been
\* taken, although it is stored and counted in two steps.
THEOREM WatcherLeavesNothingUnread == WsSafety => []NothingUnread
<1>1. ArrivalIInv => NothingUnread
  BY DEF ArrivalIInv, WsIInv
<1>2. QED
  BY <1>1, ArrivalHolds, PTL

-----------------------------------------------------------------------------
(***************************************************************************)
(* The watcher implements the feed.                                        *)
(***************************************************************************)
LEMMA WatcherFeeds ==
  ASSUME ArrivalIInv, WsNext
  PROVE  [Feed!FeedNext]_(Feed!feedVars)
<1> USE DEF ArrivalIInv, WsIInv
<1>1. /\ taken \in Nat /\ latest \in Nat /\ inHand \in Nat /\ taken <= latest
      /\ rpc = "store" => latest <= inHand
  BY FrameBounds DEF WsTypeOK, FromNowOn
<1>2. CASE Store
  <2>1. latest' = inHand /\ taken' = taken /\ Stopping' = Stopping /\ latest <= inHand
    BY <1>1, <1>2 DEF Store, backendVars, Stopping
  <2>2. CASE latest = inHand
    BY <2>1, <2>2 DEF Feed!feedVars
  <2>3. CASE latest < inHand
    <3>1. Feed!Produce
      BY <1>1, <2>1, <2>3 DEF Feed!Produce
    <3>2. QED
      BY <3>1 DEF Feed!FeedNext
  <2>4. QED
    BY <1>1, <2>1, <2>2, <2>3
<1>3. CASE Apply
  <2>1. latest' = latest /\ taken' = latest /\ Stopping' = Stopping /\ ~Stopping
    BY <1>3 DEF Apply, sharedVars, Stopping, CloneIsReady
  <2>2. CASE taken = latest
    BY <2>1, <2>2 DEF Feed!feedVars
  <2>3. CASE taken < latest
    <3>1. Feed!Show
      BY <2>1, <2>3 DEF Feed!Show
    <3>2. QED
      BY <3>1 DEF Feed!FeedNext
  <2>4. QED
    BY <1>1, <2>2, <2>3
<1>4. CASE BeginWsDrop
  <2>1. latest' = latest /\ taken' = taken /\ ~Stopping /\ Stopping'
    BY <1>4 DEF BeginWsDrop, sharedVars, Stopping
  <2>2. Feed!Close
    BY <2>1 DEF Feed!Close
  <2>3. QED
    BY <2>2 DEF Feed!FeedNext
<1>5. CASE LoadGeneration \/ InitReturns \/ FinishWsDrop
  <2>1. latest' = latest /\ taken' = taken /\ Stopping' = Stopping
    BY <1>5 DEF LoadGeneration, InitReturns, FinishWsDrop, sharedVars, Stopping
  <2>2. QED
    BY <2>1 DEF Feed!feedVars
<1>6. CASE \/ ReaderStops \/ ConnectRefused \/ UpgradeSucceeds \/ UpgradeFails \/ ReadFrame
           \/ Bump \/ StreamEnds \/ LeaveConnection \/ BackoffEnds
           \/ \E k \in Conn : Connect(k)
  <2>1. latest' = latest /\ taken' = taken /\ Stopping' = Stopping
    BY <1>6 DEF ReaderStops, ConnectRefused, UpgradeSucceeds, UpgradeFails, ReadFrame,
       Bump, StreamEnds, LeaveConnection, BackoffEnds, Connect, sharedVars, backendVars, Stopping
  <2>2. QED
    BY <2>1 DEF Feed!feedVars
<1>7. QED
  BY <1>2, <1>3, <1>4, <1>5, <1>6 DEF WsNext, ReaderStep, BackendStep

LEMMA OthersDoNotFeed ==
  ASSUME UNCHANGED wsVars
  PROVE  [Feed!FeedNext]_(Feed!feedVars)
<1>1. latest' = latest /\ taken' = taken /\ Stopping' = Stopping
  BY DEF wsVars, sharedVars, backendVars, Stopping
<1>2. QED
  BY <1>1 DEF Feed!feedVars

LEMMA FeedStarts == WsInit => Feed!FeedInit
  BY DEF WsInit, Feed!FeedInit, Stopping

\* WsBackend implements the safety part of SnapshotFeed against any peer that
\* sends the newest frame: update() never goes back to an older frame, over
\* every reconnection, and shows none once it is being dropped.
THEOREM WatcherImplementsFeed == WsSafety => Feed!FeedSafety
<1>1. ArrivalIInv /\ [WsNext \/ Peer]_<<linkVars, wsVars>> => [Feed!FeedNext]_(Feed!feedVars)
  <2>1. UNCHANGED <<linkVars, wsVars>> => UNCHANGED wsVars
    OBVIOUS
  <2>2. QED
    BY <2>1, WatcherFeeds, OthersDoNotFeed DEF Peer
<1>2. QED
  BY <1>1, ArrivalHolds, FeedStarts, PTL DEF WsSafety, WsStart, Feed!FeedSafety

-----------------------------------------------------------------------------
(***************************************************************************)
(* The session.                                                            *)
(***************************************************************************)
LEMMA SentInOrder == PublisherIInv => WiresInOrder
<1> SUFFICES ASSUME PublisherIInv, NEW k \in Conn
             PROVE  /\ \A i, j \in 1..Len(wire[k]) : i < j => wire[k][i] <= wire[k][j]
                    /\ \A i \in 1..Len(wire[k]) : wire[k][i] <= published
  BY DEF WiresInOrder
<1>1. \A i \in 1..Len(wire[k]) : wire[k][i] \in Nat
  <2>1. wire[k] \in Seq(Frame)
    BY DEF PublisherIInv, PublisherTypeOK, LinkTypeOK
  <2>2. QED
    BY <2>1, ElementOfSeq, FrameBounds
<1>2. \A i, j \in 1..Len(wire[k]) : i < j => wire[k][i] <= wire[k][j]
  BY <1>1 DEF PublisherIInv, FramesInOrder
<1>3. \A i \in 1..Len(wire[k]) : wire[k][i] <= published
  BY DEF PublisherIInv, FramesInOrder
<1>4. QED
  BY <1>2, <1>3

\* What a step of the publisher means for the connections and their tasks.
OnlyForward == published' \in Nat /\ published <= published'

DialsAreLeftAlone ==
  \A j \in Conn : link'[j] \in {"unused", "dialling"} =>
                    link'[j] = link[j] /\ wire'[j] = wire[j]

OneSendAtMost ==
  \/ wire' = wire
  \/ \E k \in Conn : /\ task[k] = "sending" /\ holds[k] \in Frame
                     /\ holds[k] <= published'
                     /\ wire' = [wire EXCEPT ![k] = Append(wire[k], holds[k])]

HoldsTheNewest ==
  \A j \in Conn : task'[j] = "sending" =>
    \/ task[j] = "sending" /\ holds'[j] = holds[j]
    \/ holds'[j] = published

LEMMA PublisherEffects ==
  ASSUME PublisherIInv, TaskHasLink, PublisherNext
  PROVE  OnlyForward /\ DialsAreLeftAlone /\ TaskHasLink' /\ OneSendAtMost /\ HoldsTheNewest
<1> USE DEF PublisherIInv
<1>0. /\ published \in Nat /\ slot \in Nat /\ task \in [Conn -> TaskState]
      /\ link \in [Conn -> LinkState] /\ wire \in [Conn -> Seq(Frame)]
      /\ holds \in [Conn -> AnyFrame] /\ seen \in [Conn -> AnyFrame]
  BY FrameBounds DEF PublisherTypeOK, LinkTypeOK
<1> USE DEF DialsAreLeftAlone, HoldsTheNewest
<1>15. published' = published => OnlyForward
  BY <1>0 DEF OnlyForward
<1>16. wire' = wire => OneSendAtMost
  BY DEF OneSendAtMost
<1>1. CASE Broadcast
  <2>1. published' = published + 1 /\ UNCHANGED <<link, wire, task, holds>>
    BY <1>1 DEF Broadcast
  <2>2. OnlyForward
    BY <1>0, <2>1 DEF OnlyForward
  <2>3. QED
    BY <1>16, <2>1, <2>2 DEF TaskHasLink
<1>2. CASE AcceptLoopHead \/ AcceptTimesOut \/ BeginServerDrop \/ SpawnServer
  <2>1. UNCHANGED <<published, link, wire, task, holds>>
    BY <1>2 DEF AcceptLoopHead, AcceptTimesOut, BeginServerDrop, SpawnServer, linkVars
  <2>2. TaskHasLink'
    BY <2>1 DEF TaskHasLink
  <2>3. DialsAreLeftAlone /\ HoldsTheNewest
    BY <2>1
  <2>4. QED
    BY <1>15, <1>16, <2>1, <2>2, <2>3
<1>3. CASE FinishServerDrop
  <2>1. /\ UNCHANGED <<published, wire, holds>>
        /\ task' = [k \in Conn |->
                      IF task[k] \in {"none", "gone"} THEN task[k] ELSE "cancelled"]
        /\ link' = [k \in Conn |->
                      IF link[k] \in {"dialling", "open", "left", "reset"}
                      THEN "closed" ELSE link[k]]
    BY <1>3 DEF FinishServerDrop
  <2>2. \A k \in Conn : task'[k] \in {"none", "gone", "cancelled"}
    BY <2>1
  <2>3. TaskHasLink'
    BY <2>1, <2>2 DEF TaskHasLink
  <2>4. DialsAreLeftAlone
    BY <1>0, <2>1
  <2>5. HoldsTheNewest
    BY <2>2
  <2>6. QED
    BY <1>15, <1>16, <2>1, <2>3, <2>4, <2>5
<1>4. ASSUME NEW k \in Conn, Accept(k)
      PROVE  /\ UNCHANGED <<published, link, wire, holds>>
             /\ task' = [task EXCEPT ![k] = "handshake"] /\ link[k] \in {"dialling", "left"}
  BY <1>4 DEF Accept, SetTask, linkVars
<1>5. ASSUME NEW k \in Conn, HandshakeSucceeds(k) \/ HandshakeRejected(k)
      PROVE  /\ UNCHANGED <<published, wire, holds>>
             /\ \/ link' = [link EXCEPT ![k] = "open"] /\ task' = [task EXCEPT ![k] = "greet"]
                \/ link' = [link EXCEPT ![k] = "closed"] /\ task' = [task EXCEPT ![k] = "gone"]
  BY <1>5 DEF HandshakeSucceeds, HandshakeRejected, SetTask, SetLink
<1>6. ASSUME NEW k \in Conn, Greet(k) \/ Wake(k)
      PROVE  /\ UNCHANGED <<published, link, wire>>
             /\ task[k] \in {"greet", "waiting"}
             /\ holds' = [holds EXCEPT ![k] = slot]
             /\ \/ task' = [task EXCEPT ![k] = "waiting"]
                \/ task' = [task EXCEPT ![k] = "sending"] /\ slot = published
  BY <1>6 DEF Greet, Wake, Borrow, SetTask, linkVars, SlotIsNewest
<1>7. ASSUME NEW k \in Conn, SendFrame(k)
      PROVE  /\ UNCHANGED <<published, link, holds>>
             /\ task[k] = "sending" /\ link[k] = "open"
             /\ holds[k] \in Frame /\ holds[k] <= published
             /\ wire' = [wire EXCEPT ![k] = Append(wire[k], holds[k])]
             /\ task' = [task EXCEPT ![k] = "waiting"]
  <2>1. task[k] = "sending"
    BY <1>7 DEF SendFrame
  <2>2. holds[k] \in Frame
    BY <1>0, <2>1, FrameBounds DEF SendsNext
  <2>3. holds[k] <= published
    <3>1. holds[k] = seen[k] /\ seen[k] <= slot /\ slot <= published
      BY <1>0, <2>1 DEF SendsNext, SeenWasInSlot, SlotIsNewest
    <3>2. seen[k] \in Nat
      BY <1>0, FrameBounds
    <3>3. QED
      BY <1>0, <3>1, <3>2
  <2>4. QED
    BY <1>7, <2>1, <2>2, <2>3 DEF SendFrame, SetTask
<1>8. ASSUME NEW k \in Conn, SendIntoVoid(k) \/ SendFails(k)
      PROVE  /\ UNCHANGED <<published, wire, holds>>
             /\ task[k] = "sending"
             /\ \/ /\ task' = [task EXCEPT ![k] = "waiting"]
                   /\ \E s \in {"reset", "silent"} : link' = [link EXCEPT ![k] = s]
                \/ /\ task' = [task EXCEPT ![k] = "gone"]
                   /\ \E s \in {"closed", "silent"} : link' = [link EXCEPT ![k] = s]
  BY <1>8 DEF SendIntoVoid, SendFails, SetTask, SetLink
<1>9. CASE \E k \in Conn : Accept(k)
  <2> PICK k \in Conn : Accept(k)
    BY <1>9
  <2>1. /\ UNCHANGED <<published, link, wire, holds>> /\ link[k] \in {"dialling", "left"}
        /\ \A j \in Conn : task'[j] = IF j = k THEN "handshake" ELSE task[j]
    BY <1>0, <1>4
  <2>2. TaskHasLink'
    BY <2>1 DEF TaskHasLink
  <2>3. DialsAreLeftAlone /\ HoldsTheNewest
    BY <2>1
  <2>4. QED
    BY <1>15, <1>16, <2>1, <2>2, <2>3
<1>10. CASE \E k \in Conn : HandshakeSucceeds(k) \/ HandshakeRejected(k)
  <2> PICK k \in Conn : HandshakeSucceeds(k) \/ HandshakeRejected(k)
    BY <1>10
  <2>1. /\ UNCHANGED <<published, wire, holds>>
        /\ \A j \in Conn : j # k => task'[j] = task[j] /\ link'[j] = link[j]
        /\ \/ link'[k] = "open" /\ task'[k] = "greet"
           \/ link'[k] = "closed" /\ task'[k] = "gone"
    BY <1>0, <1>5
  <2>2. TaskHasLink'
    BY <2>1 DEF TaskHasLink
  <2>3. DialsAreLeftAlone /\ HoldsTheNewest
    BY <2>1
  <2>4. QED
    BY <1>15, <1>16, <2>1, <2>2, <2>3
<1>11. CASE \E k \in Conn : Greet(k) \/ Wake(k)
  <2> PICK k \in Conn : Greet(k) \/ Wake(k)
    BY <1>11
  <2>1. /\ UNCHANGED <<published, link, wire>>
        /\ task[k] \in {"greet", "waiting"}
        /\ holds' = [holds EXCEPT ![k] = slot]
        /\ \/ task' = [task EXCEPT ![k] = "waiting"]
           \/ task' = [task EXCEPT ![k] = "sending"] /\ slot = published
    BY <1>6
  <2>2. \A j \in Conn : j # k => holds'[j] = holds[j] /\ task'[j] = task[j]
    BY <1>0, <2>1
  <2>3. holds'[k] = slot
    BY <1>0, <2>1
  <2>4. task'[k] = "waiting" \/ (task'[k] = "sending" /\ slot = published)
    BY <1>0, <2>1
  <2>5. TaskHasLink'
    BY <2>1, <2>2 DEF TaskHasLink
  <2>6. DialsAreLeftAlone
    BY <2>1
  <2>7. HoldsTheNewest
    BY <2>2, <2>3, <2>4
  <2>8. QED
    BY <1>15, <1>16, <2>1, <2>5, <2>6, <2>7
<1>12. CASE \E k \in Conn : SendFrame(k)
  <2> PICK k \in Conn : SendFrame(k)
    BY <1>12
  <2>1. /\ UNCHANGED <<published, link, holds>> /\ link[k] = "open" /\ task[k] = "sending"
        /\ holds[k] \in Frame /\ holds[k] <= published'
        /\ wire' = [wire EXCEPT ![k] = Append(wire[k], holds[k])]
        /\ \A j \in Conn : task'[j] = IF j = k THEN "waiting" ELSE task[j]
    BY <1>0, <1>7
  <2>2. \A j \in Conn : j # k => wire'[j] = wire[j]
    BY <1>0, <2>1
  <2>3. OneSendAtMost
    BY <2>1 DEF OneSendAtMost
  <2>4. TaskHasLink'
    BY <2>1 DEF TaskHasLink
  <2>5. DialsAreLeftAlone /\ HoldsTheNewest
    BY <2>1, <2>2
  <2>6. QED
    BY <1>15, <2>1, <2>3, <2>4, <2>5
<1>13. CASE \E k \in Conn : SendIntoVoid(k) \/ SendFails(k)
  <2> PICK k \in Conn : SendIntoVoid(k) \/ SendFails(k)
    BY <1>13
  <2>1. /\ UNCHANGED <<published, wire, holds>>
        /\ \A j \in Conn : j # k => task'[j] = task[j] /\ link'[j] = link[j]
        /\ link'[k] \notin {"unused", "dialling"}
        /\ (task'[k] = "waiting" /\ link'[k] # "closed") \/ task'[k] = "gone"
    BY <1>0, <1>8
  <2>2. TaskHasLink'
    BY <2>1 DEF TaskHasLink
  <2>3. DialsAreLeftAlone /\ HoldsTheNewest
    BY <2>1
  <2>4. QED
    BY <1>15, <1>16, <2>1, <2>2, <2>3
<1>14. QED
  BY <1>1, <1>2, <1>3, <1>9, <1>10, <1>11, <1>12, <1>13 DEF PublisherNext, ClientTask

LEMMA SessionPublishes ==
  ASSUME SessionIInv, PublisherNext, UNCHANGED wsVars
  PROVE  SessionIInv'
<1>1. /\ PublisherIInv /\ ArrivalIInv /\ TaskFromNowOn /\ TaskHasLink
      /\ WsIInv /\ WsTypeOK /\ FromNowOn /\ NothingBeforeOpen
  BY DEF SessionIInv, ArrivalIInv, WsIInv
<1>2. OnlyForward /\ DialsAreLeftAlone /\ TaskHasLink' /\ OneSendAtMost /\ HoldsTheNewest
  BY <1>1, PublisherEffects
<1>3. PublisherIInv'
  BY <1>1, PublisherNextPreserves
<1>4. LinkTypeOK'
  BY <1>3 DEF PublisherIInv, PublisherTypeOK
<1>5. WsIInv'
  BY <1>1, <1>4, WatcherPreserves
<1>6. WiresInOrder'
  BY <1>3, SentInOrder, PTL
<1>7. NothingBeforeOpen'
  BY <1>1, <1>2 DEF NothingBeforeOpen, DialsAreLeftAlone
<1>8. /\ latest' = latest /\ inHand' = inHand /\ rpc' = rpc /\ conn' = conn
      /\ conn \in Conn \cup {0} /\ latest \in Nat /\ inHand \in Nat
  BY <1>1, FrameBounds DEF wsVars, sharedVars, readerVars, WsTypeOK
<1>9. TaskFromNowOn'
  <2> SUFFICES ASSUME conn # 0, task'[conn] = "sending"
               PROVE  latest <= holds'[conn] /\ (rpc = "store" => inHand <= holds'[conn])
    BY <1>8 DEF TaskFromNowOn
  <2>1. CASE task[conn] = "sending" /\ holds'[conn] = holds[conn]
    BY <1>1, <2>1 DEF TaskFromNowOn
  <2>2. CASE holds'[conn] = published
    BY <1>1, <2>2 DEF FromNowOn
  <2>3. QED
    BY <1>2, <1>8, <2>1, <2>2 DEF HoldsTheNewest
<1>10. FromNowOn'
  <2>1. CASE wire' = wire
    <3>1. CASE conn = 0
      BY <1>1, <1>2, <1>8, <3>1, FrameBounds
      DEF FromNowOn, OnlyForward, WsTypeOK, LinkTypeOK, wsVars, backendVars
    <3>2. CASE conn # 0
      <4>1. CASE Frame # {}
        BY <1>1, <1>2, <1>8, <2>1, <3>2, <4>1, ArrivingKeepsOrder DEF OnlyForward
      <4>2. CASE Frame = {}
        <5>1. wire[conn] = <<>>
          BY <1>1, <1>8, <3>2, <4>2, EmptySeq, ElementOfSeq DEF WsTypeOK, LinkTypeOK
        <5>2. QED
          BY <1>1, <1>2, <1>8, <2>1, <5>1, FrameBounds
          DEF FromNowOn, OnlyForward, WsTypeOK, LinkTypeOK, wsVars, backendVars
      <4>3. QED
        BY <4>1, <4>2
    <3>3. QED
      BY <3>1, <3>2
  <2>2. CASE wire' # wire
    <3> PICK k \in Conn : /\ task[k] = "sending" /\ holds[k] \in Frame
                          /\ holds[k] <= published'
                          /\ wire' = [wire EXCEPT ![k] = Append(wire[k], holds[k])]
      BY <1>2, <2>2 DEF OneSendAtMost
    <3>1. k = conn => latest <= holds[k] /\ (rpc = "store" => inHand <= holds[k])
      BY <1>1, LinkAssumption DEF TaskFromNowOn
    <3>2. QED
      BY <1>1, <1>2, <3>1, ArrivingKeepsOrder DEF OnlyForward
  <2>3. QED
    BY <2>1, <2>2
<1>11. QED
  BY <1>2, <1>3, <1>5, <1>6, <1>7, <1>9, <1>10 DEF SessionIInv, ArrivalIInv

LEMMA SessionIsWatched ==
  ASSUME SessionIInv, WsNext, UNCHANGED publisherVars
  PROVE  SessionIInv'
<1>1. /\ PublisherIInv /\ ArrivalIInv /\ TaskFromNowOn /\ TaskHasLink
      /\ WsIInv /\ WsTypeOK /\ LinkTypeOK /\ FromNowOn /\ ReaderHasConnection
  BY DEF SessionIInv, ArrivalIInv, WsIInv, WsTypeOK
<1>2. task' = task /\ holds' = holds
  BY DEF publisherVars
<1>3. ArrivalIInv'
  BY <1>1, WatcherKeepsArrival
<1>4. PublisherIInv'
  <2>1. CASE UNCHANGED linkVars
    BY <1>1, <2>1, PublisherStutters
  <2>2. CASE \E k \in Conn : Dial(k) \/ Receive(k) \/ HangUp(k)
    BY <1>1, <2>2, ClientEndPreserves
  <2>3. QED
    BY <1>1, <2>1, <2>2, WatcherIsAClient
<1>5. TaskHasLink'
  <2>1. CASE UNCHANGED linkVars
    BY <1>1, <1>2, <2>1 DEF linkVars, TaskHasLink
  <2>2. CASE \E k \in Conn : Dial(k) \/ Receive(k) \/ HangUp(k)
    <3> PICK k \in Conn : Dial(k) \/ Receive(k) \/ HangUp(k)
      BY <2>2
    <3>1. link' = link \/ \E s \in {"dialling", "left"} : link' = [link EXCEPT ![k] = s]
      BY DEF Dial, Receive, HangUp, SetLink
    <3>2. \A j \in Conn : link'[j] = link[j] \/ link'[j] \in {"dialling", "left"}
      BY <1>1, <3>1 DEF LinkTypeOK
    <3>3. QED
      BY <1>1, <1>2, <3>2 DEF TaskHasLink
  <2>3. QED
    BY <1>1, <2>1, <2>2, WatcherIsAClient
<1>6. TaskFromNowOn'
  <2> SUFFICES ASSUME conn' # 0, task[conn'] = "sending"
               PROVE  latest' <= holds[conn'] /\ (rpc' = "store" => inHand' <= holds[conn'])
    BY <1>2 DEF TaskFromNowOn
  <2>1. CASE Store
    BY <1>1, <2>1 DEF Store, ReaderGoes, TaskFromNowOn
  <2>2. CASE ReadFrame
    <3>1. /\ conn \in Conn /\ conn' = conn /\ latest' = latest /\ Receive(conn)
          /\ wire[conn] \in Seq(Frame) /\ wire[conn] # <<>> /\ link[conn] \in {"open", "closed"}
          /\ got[conn] \in AnyFrame /\ got' = [got EXCEPT ![conn] = Head(wire[conn])]
          /\ rpc' = "store" => inHand' = got'[conn]
      BY <1>1, <2>2 DEF ReadFrame, Receive, ReaderHasConnection, ReaderGoes, sharedVars,
         WsTypeOK, LinkTypeOK
    <3>2. latest <= holds[conn]
      BY <1>1, <3>1 DEF TaskFromNowOn
    <3>3. link[conn] = "open"
      BY <1>1, <3>1 DEF TaskHasLink
    <3>4. Newest(got[conn], wire[conn]) < holds[conn] /\ Ordered(got[conn], wire[conn])
      BY <1>1, <3>1, <3>3, WiresAreOrdered DEF PublisherIInv, SendsNext
    <3>5. /\ Newest(got[conn], wire[conn]) \in Nat
          /\ Head(wire[conn]) <= Newest(got[conn], wire[conn]) /\ Head(wire[conn]) \in Nat
      BY <3>1, <3>4, NewestFacts, TailFacts, FrameBounds
    <3>6. holds[conn] \in Nat
      BY <1>1, <3>1, FrameBounds DEF PublisherIInv, PublisherTypeOK
    <3>7. got'[conn] = Head(wire[conn])
      BY <1>1, <3>1 DEF LinkTypeOK
    <3>8. Head(wire[conn]) <= holds[conn]
      BY <3>4, <3>5, <3>6
    <3>9. QED
      BY <3>1, <3>2, <3>7, <3>8
  <2>3. CASE \E k \in Conn : Connect(k)
    <3> PICK k \in Conn : Connect(k)
      BY <2>3
    <3>1. conn' = k /\ link[k] = "unused"
      BY DEF Connect, Dial, NextUnused
    <3>2. QED
      BY <1>1, <3>1 DEF TaskHasLink
  <2>4. CASE LeaveConnection \/ UpgradeFails \/ FinishWsDrop
    BY <2>4 DEF LeaveConnection, UpgradeFails, FinishWsDrop
  <2>5. CASE ReaderStops \/ ConnectRefused \/ UpgradeSucceeds \/ Bump \/ StreamEnds \/ BackoffEnds
    <3>1. conn' = conn /\ latest' = latest /\ rpc' # "store"
      BY <2>5 DEF ReaderStops, ConnectRefused, UpgradeSucceeds, Bump, StreamEnds, BackoffEnds,
         ReaderGoes, sharedVars
    <3>2. QED
      BY <1>1, <3>1 DEF TaskFromNowOn
  <2>6. CASE LoadGeneration \/ Apply \/ InitReturns \/ BeginWsDrop
    <3>1. conn' = conn /\ latest' = latest /\ rpc' = rpc /\ inHand' = inHand
      BY <2>6 DEF LoadGeneration, Apply, InitReturns, BeginWsDrop, sharedVars, readerVars
    <3>2. QED
      BY <1>1, <3>1 DEF TaskFromNowOn
  <2>7. QED
    BY <2>1, <2>2, <2>3, <2>4, <2>5, <2>6 DEF WsNext, ReaderStep, BackendStep
<1>7. QED
  BY <1>3, <1>4, <1>5, <1>6 DEF SessionIInv

LEMMA SessionBreaks ==
  ASSUME SessionIInv, NEW k \in Conn, Network(k), UNCHANGED <<publisherVars, wsVars>>
  PROVE  SessionIInv'
<1>1. /\ PublisherIInv /\ ArrivalIInv /\ TaskFromNowOn /\ TaskHasLink /\ LinkTypeOK
  BY DEF SessionIInv, ArrivalIInv, WsIInv, WsTypeOK
<1>2. PublisherIInv'
  BY <1>1, ClientEndPreserves
<1>3. ArrivalIInv'
  <2>1. Peer
    BY DEF Peer
  <2>2. QED
    BY <1>1, <2>1, PeerPreserves
<1>4. UNCHANGED <<task, holds, latest, inHand, rpc, conn>>
  BY DEF publisherVars, wsVars, sharedVars, readerVars
<1>5. TaskFromNowOn'
  BY <1>1, <1>4 DEF TaskFromNowOn
<1>6. \A j \in Conn : link'[j] = link[j] \/ link'[j] \in {"reset", "silent"}
  BY <1>1 DEF Network, Break, GoSilent, SetLink, LinkTypeOK
<1>7. TaskHasLink'
  BY <1>1, <1>4, <1>6 DEF TaskHasLink
<1>8. QED
  BY <1>2, <1>3, <1>5, <1>7 DEF SessionIInv

LEMMA SessionStutters ==
  ASSUME SessionIInv, UNCHANGED remoteVars
  PROVE  SessionIInv'
<1>1. PublisherIInv'
  BY PublisherStutters DEF SessionIInv, remoteVars
<1>2. ArrivalIInv'
  BY ArrivalStutters DEF SessionIInv, remoteVars
<1>3. UNCHANGED <<task, holds, latest, inHand, rpc, conn, link>>
  BY DEF remoteVars, publisherVars, wsVars, sharedVars, readerVars, linkVars
<1>4. TaskFromNowOn' /\ TaskHasLink'
  BY <1>3 DEF SessionIInv, TaskFromNowOn, TaskHasLink
<1>5. QED
  BY <1>1, <1>2, <1>4 DEF SessionIInv

LEMMA SessionSteps ==
  ASSUME RemoteNext
  PROVE  \/ PublisherNext /\ UNCHANGED wsVars
         \/ WsNext /\ UNCHANGED publisherVars
         \/ \E k \in Conn : Network(k) /\ UNCHANGED <<publisherVars, wsVars>>
  BY DEF RemoteNext, WsNext

LEMMA SessionHolds == RemoteSafety => []SessionIInv
<1>1. RemoteInit => SessionIInv
  <2>1. RemoteInit => TaskFromNowOn /\ TaskHasLink
    BY DEF RemoteInit, LinkInit, PublisherInit, WsInit, TaskFromNowOn, TaskHasLink
  <2>2. QED
    BY <2>1, PublisherStarts, ArrivalStarts DEF RemoteInit, PublisherStart, SessionIInv
<1>2. SessionIInv /\ [RemoteNext]_remoteVars => SessionIInv'
  BY SessionSteps, SessionPublishes, SessionIsWatched, SessionBreaks, SessionStutters
<1>3. QED
  BY <1>1, <1>2, PTL DEF RemoteSafety

\* To its publisher a session is one of the runs the publisher's own
\* specification allows: what holds of a publisher with clients of every kind
\* holds of it with this watcher.
THEOREM SessionIsAPublisher == RemoteSafety => PublisherSafety
<1>1. RemoteInit => PublisherStart
  BY DEF RemoteInit, PublisherStart
<1>2. SessionIInv /\ [RemoteNext]_remoteVars
        => [PublisherNext \/ \E k \in Conn : ClientEnd(k)]_<<linkVars, publisherVars>>
  <2> SUFFICES ASSUME SessionIInv, [RemoteNext]_remoteVars
               PROVE  \/ PublisherNext \/ \E k \in Conn : ClientEnd(k)
                      \/ UNCHANGED <<linkVars, publisherVars>>
    OBVIOUS
  <2>1. CASE WsNext /\ UNCHANGED publisherVars
    <3>1. WsIInv
      BY DEF SessionIInv, ArrivalIInv
    <3>2. QED
      BY <2>1, <3>1, WatcherIsAClient DEF ClientEnd
  <2>2. CASE \E k \in Conn : Network(k) /\ UNCHANGED <<publisherVars, wsVars>>
    BY <2>2 DEF ClientEnd
  <2>3. CASE UNCHANGED remoteVars
    BY <2>3 DEF remoteVars
  <2>4. QED
    BY <2>1, <2>2, <2>3, SessionSteps
<1>3. QED
  BY <1>1, <1>2, SessionHolds, PTL DEF RemoteSafety, PublisherSafety

\* A whole session keeps what either end promises on its own: the count, the
\* order and the catch-up of the publisher, and the watcher's one frame.
THEOREM SessionKeepsPromises ==
  RemoteSafety => [](CountIsExact /\ FramesInOrder /\ NothingForgotten /\ ScreenIsOneFrame)
<1>1. SessionIInv => CountIsExact /\ FramesInOrder /\ NothingForgotten /\ ScreenIsOneFrame
  BY DEF SessionIInv, PublisherIInv, ArrivalIInv, WsIInv
<1>2. QED
  BY <1>1, SessionHolds, PTL

\* From the publisher to the watcher's screen, across broken connections and
\* restarts of the publisher, no older frame follows a newer one.
THEOREM SessionImplementsFeed == RemoteSafety => Feed!FeedSafety
<1>1. SessionIInv /\ [RemoteNext]_remoteVars => [Feed!FeedNext]_(Feed!feedVars)
  <2> SUFFICES ASSUME SessionIInv, [RemoteNext]_remoteVars
               PROVE  [Feed!FeedNext]_(Feed!feedVars)
    OBVIOUS
  <2>1. ArrivalIInv
    BY DEF SessionIInv
  <2>2. UNCHANGED remoteVars => UNCHANGED wsVars
    BY DEF remoteVars
  <2>3. QED
    BY <2>1, <2>2, SessionSteps, WatcherFeeds, OthersDoNotFeed
<1>2. RemoteInit => WsInit
  BY DEF RemoteInit
<1>3. QED
  BY <1>1, <1>2, SessionHolds, FeedStarts, PTL DEF RemoteSafety, Feed!FeedSafety
=============================================================================
