-------------------------- MODULE TelemetryPublisher --------------------------
(***************************************************************************)
(* The publishing end of a remote session (backend/serve.rs): a watch      *)
(* channel holding the newest frame, an accept loop, one task per client,  *)
(* and the client count shown in the footer.  /serve off drops the         *)
(* publisher and /serve starts a new one.                                  *)
(***************************************************************************)
EXTENDS TelemetryLink, FiniteSets

CONSTANTS
  MaxServers, \* publishers started in a behaviour
  WrongPath,  \* connections that may ask for another path than /telemetry
  Slow        \* connections whose client may stop reading

ASSUME PublisherAssumption ==
  /\ MaxServers \in Nat \ {0}
  /\ IsFiniteSet(Conn)

VARIABLES
  servers,      \* publishers started so far
  server,       \* "up", "stopping" inside drop(), "down"
  acceptPc,     \* the accept loop
  slot,         \* frame in the watch channel, 0 for the initial empty string
  task,         \* what the task of each connection is doing
  seen,         \* frame its watch receiver has marked as seen
  holds,        \* frame it is sending
  clientCount

publisherVars ==
  <<servers, server, acceptPc, slot, task, seen, holds, clientCount>>

TaskState ==
  {"none", "handshake", "greet", "sending", "waiting", "gone", "cancelled"}

\* The tasks client_count counts.
Counted == {"greet", "sending", "waiting"}

PublisherInit ==
  /\ servers = 1
  /\ server = "up"
  /\ acceptPc = "head"
  /\ slot = 0
  /\ task = [k \in Conn |-> "none"]
  /\ seen = [k \in Conn |-> 0]
  /\ holds = [k \in Conn |-> 0]
  /\ clientCount = 0

SetTask(k, state) == task' = [task EXCEPT ![k] = state]

\* broadcast(): send_replace stores the frame whether or not anyone listens.
Broadcast ==
  /\ server = "up"
  /\ published < MaxFrames
  /\ published' = published + 1
  /\ slot' = published + 1
  /\ UNCHANGED <<link, wire, got, servers, server, acceptPc, task, seen,
                 holds, clientCount>>

-----------------------------------------------------------------------------
(***************************************************************************)
(* The accept loop.                                                        *)
(***************************************************************************)
AcceptLoopHead ==
  /\ server # "down"
  /\ acceptPc = "head"
  /\ acceptPc' = IF server = "stopping" THEN "stopped" ELSE "accept"
  /\ UNCHANGED <<linkVars, servers, server, slot, task, seen, holds, clientCount>>

\* The 200 ms are over, or accept() failed.
AcceptTimesOut ==
  /\ server # "down"
  /\ acceptPc = "accept"
  /\ acceptPc' = "head"
  /\ UNCHANGED <<linkVars, servers, server, slot, task, seen, holds, clientCount>>

\* subscribe() marks the current frame as seen; the task does the handshake.
Accept(k) ==
  /\ server # "down"
  /\ acceptPc = "accept"
  /\ link[k] \in {"dialling", "left"}
  /\ task[k] = "none"
  /\ acceptPc' = "head"
  /\ SetTask(k, "handshake")
  /\ seen' = [seen EXCEPT ![k] = slot]
  /\ UNCHANGED <<linkVars, servers, server, slot, holds, clientCount>>

-----------------------------------------------------------------------------
(***************************************************************************)
(* One client's task.                                                      *)
(***************************************************************************)
HandshakeSucceeds(k) ==
  /\ task[k] = "handshake"
  /\ link[k] = "dialling"
  /\ SetLink(k, "open")
  /\ SetTask(k, "greet")
  /\ clientCount' = clientCount + 1
  /\ UNCHANGED <<published, wire, got, servers, server, acceptPc, slot, seen,
                 holds>>

\* The peer asked for another path, or left: never counted.
HandshakeRejected(k) ==
  /\ task[k] = "handshake"
  /\ link[k] = "left" \/ (link[k] = "dialling" /\ k \in WrongPath)
  /\ SetLink(k, "closed")
  /\ SetTask(k, "gone")
  /\ UNCHANGED <<published, wire, got, servers, server, acceptPc, slot, seen,
                 holds, clientCount>>

\* borrow_and_update(), and what the task does with an empty string.
Borrow(k) ==
  /\ seen' = [seen EXCEPT ![k] = slot]
  /\ holds' = [holds EXCEPT ![k] = slot]
  /\ SetTask(k, IF slot = 0 THEN "waiting" ELSE "sending")

\* Mistake: no catch-up send; the frame present at subscribe() is skipped.
GreetWaitsForChange(k) ==
  /\ task[k] = "greet"
  /\ SetTask(k, "waiting")
  /\ UNCHANGED <<linkVars, servers, server, acceptPc, slot, seen, holds, clientCount>>

\* The catch-up send of the frame that was there before the client.
Greet(k) ==
  /\ task[k] = "greet"
  /\ Borrow(k)
  /\ UNCHANGED <<linkVars, servers, server, acceptPc, slot, clientCount>>

\* changed() resolves.  The frames between the last one sent and the newest
\* are skipped.
Wake(k) ==
  /\ task[k] = "waiting"
  /\ seen[k] # slot
  /\ Borrow(k)
  /\ UNCHANGED <<linkVars, servers, server, acceptPc, slot, clientCount>>

\* Mistake: a send that took long is repeated.
SendFrameRetried(k) ==
  /\ task[k] = "sending"
  /\ link[k] = "open"
  /\ Len(wire[k]) < WireCap
  /\ wire' = [wire EXCEPT ![k] = Append(@, holds[k])]
  /\ \/ SetTask(k, "waiting")
     \/ UNCHANGED task
  /\ UNCHANGED <<published, link, got, servers, server, acceptPc, slot, seen,
                 holds, clientCount>>

\* Mistake: a send holds something every client's send needs.
SendFrameInLockstep(k) ==
  /\ task[k] = "sending"
  /\ \A j \in Conn : link[j] = "open" => Len(wire[j]) < WireCap
  /\ link[k] = "open"
  /\ wire' = [wire EXCEPT ![k] = Append(@, holds[k])]
  /\ SetTask(k, "waiting")
  /\ UNCHANGED <<published, link, got, servers, server, acceptPc, slot, seen,
                 holds, clientCount>>

\* send() returns when the frame is buffered; a reader that does not read
\* keeps this task, and only this task, here.
SendFrame(k) ==
  /\ task[k] = "sending"
  /\ link[k] = "open"
  /\ Len(wire[k]) < WireCap
  /\ wire' = [wire EXCEPT ![k] = Append(@, holds[k])]
  /\ SetTask(k, "waiting")
  /\ UNCHANGED <<published, link, got, servers, server, acceptPc, slot, seen,
                 holds, clientCount>>

\* The first write after the peer left is still buffered; the answer to it is
\* a reset.
SendIntoVoid(k) ==
  /\ task[k] = "sending"
  /\ link[k] \in {"left", "silent"}
  /\ SetLink(k, IF link[k] = "left" THEN "reset" ELSE "silent")
  /\ SetTask(k, "waiting")
  /\ UNCHANGED <<published, wire, got, servers, server, acceptPc, slot, seen,
                 holds, clientCount>>

\* Mistake: the early return after a failed send forgets the count.
SendFailsUncounted(k) ==
  /\ task[k] = "sending"
  /\ link[k] \in {"left", "reset", "silent"}
  /\ SetLink(k, IF link[k] = "silent" THEN "silent" ELSE "closed")
  /\ SetTask(k, "gone")
  /\ UNCHANGED <<published, wire, got, servers, server, acceptPc, slot, seen,
                 holds, clientCount>>

SendFails(k) ==
  /\ task[k] = "sending"
  /\ link[k] \in {"left", "reset", "silent"}
  /\ SetLink(k, IF link[k] = "silent" THEN "silent" ELSE "closed")
  /\ SetTask(k, "gone")
  /\ clientCount' = clientCount - 1
  /\ UNCHANGED <<published, wire, got, servers, server, acceptPc, slot, seen,
                 holds>>

ClientTask(k) ==
  \/ HandshakeSucceeds(k) \/ HandshakeRejected(k)
  \/ Greet(k) \/ Wake(k)
  \/ SendFrame(k) \/ SendIntoVoid(k) \/ SendFails(k)

-----------------------------------------------------------------------------
(***************************************************************************)
(* drop() and a new publisher.                                             *)
(***************************************************************************)
BeginServerDrop ==
  /\ server = "up"
  /\ server' = "stopping"
  /\ UNCHANGED <<linkVars, servers, acceptPc, slot, task, seen, holds, clientCount>>

\* shutdown_timeout cancels every task at its await; the sockets close with
\* what they had buffered still deliverable.
FinishServerDrop ==
  /\ server = "stopping"
  /\ server' = "down"
  /\ acceptPc' = "stopped"
  /\ task' = [k \in Conn |->
                IF task[k] \in {"none", "gone"} THEN task[k] ELSE "cancelled"]
  /\ link' = [k \in Conn |->
                IF link[k] \in {"dialling", "open", "left", "reset"}
                THEN "closed" ELSE link[k]]
  /\ UNCHANGED <<published, wire, got, servers, slot, seen, holds, clientCount>>

\* spawn(): a fresh watch channel holding the empty string, a fresh count.
SpawnServer ==
  /\ server = "down"
  /\ servers < MaxServers
  /\ servers' = servers + 1
  /\ server' = "up"
  /\ acceptPc' = "head"
  /\ slot' = 0
  /\ clientCount' = 0
  /\ UNCHANGED <<linkVars, task, seen, holds>>

PublisherNext ==
  \/ Broadcast
  \/ AcceptLoopHead \/ AcceptTimesOut
  \/ BeginServerDrop \/ FinishServerDrop \/ SpawnServer
  \/ \E k \in Conn : Accept(k) \/ ClientTask(k)

\* The runtime polls its tasks; a connection that waits is accepted before
\* the loop has timed out for ever.
PublisherFairness ==
  /\ WF_<<linkVars, publisherVars>>(AcceptLoopHead)
  /\ WF_<<linkVars, publisherVars>>(FinishServerDrop)
  /\ \A k \in Conn :
       /\ SF_<<linkVars, publisherVars>>(Accept(k))
       /\ WF_<<linkVars, publisherVars>>(HandshakeSucceeds(k) \/ HandshakeRejected(k))
       /\ WF_<<linkVars, publisherVars>>(Greet(k) \/ Wake(k))
       /\ WF_<<linkVars, publisherVars>>(SendFrame(k) \/ SendFails(k))

-----------------------------------------------------------------------------
(***************************************************************************)
(* The publisher with clients of every kind.                               *)
(***************************************************************************)
ClientEnd(k) ==
  /\ Dial(k) \/ Receive(k) \/ HangUp(k) \/ Network(k)
  /\ UNCHANGED publisherVars

PublisherStart == LinkInit /\ PublisherInit

PublisherSafety ==
  /\ PublisherStart
  /\ [][PublisherNext \/ \E k \in Conn : ClientEnd(k)]_<<linkVars, publisherVars>>

PublisherSpec ==
  /\ PublisherSafety
  /\ PublisherFairness
  /\ \A k \in Conn \ Slow :
       WF_<<linkVars, publisherVars>>(Receive(k) /\ UNCHANGED publisherVars)

PublisherTypeOK ==
  /\ LinkTypeOK
  /\ servers \in 1..MaxServers
  /\ server \in {"up", "stopping", "down"}
  /\ acceptPc \in {"head", "accept", "stopped"}
  /\ slot \in AnyFrame
  /\ task \in [Conn -> TaskState]
  /\ seen \in [Conn -> AnyFrame]
  /\ holds \in [Conn -> AnyFrame]
  /\ clientCount \in Nat

\* client_count is the number of live client tasks whatever way each of them
\* ended: a rejected handshake, a failed first send or a failed later one.
CountIsExact ==
  server # "down" =>
    clientCount = Cardinality({k \in Conn : task[k] \in Counted})

\* One connection carries frames in the order they were published, none of
\* them twice, although the catch-up send and the change notification can be
\* about the same frame.
FramesInOrder ==
  \A k \in Conn :
    /\ \A i \in 1..Len(wire[k]) : got[k] < wire[k][i] /\ wire[k][i] <= published
    /\ \A i, j \in 1..Len(wire[k]) : i < j => wire[k][i] < wire[k][j]

\* A task that waits for the next change has sent what it has seen: a client
\* that connects after the last broadcast has it on its way, and none is left
\* behind by frames that come while it is being sent one.
NothingForgotten ==
  \A k \in Conn :
    (task[k] = "waiting" /\ link[k] = "open") => LastSent(k) = seen[k]

\* The newest frame reaches every client that keeps reading and stays
\* connected, whatever the slow clients do.
NewestArrives ==
  \A k \in Conn \ Slow, n \in Frame :
    (link[k] = "open" /\ slot = n) ~> (got[k] >= n \/ link[k] # "open")

=============================================================================
