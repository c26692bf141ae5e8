----------------------------- MODULE RemoteStream -----------------------------
(***************************************************************************)
(* A remote session: a TelemetryPublisher and a WsBackend over connections *)
(* the network may break, a publisher that is switched off and on again,   *)
(* and a watcher that reconnects.                                          *)
(***************************************************************************)
EXTENDS TelemetryPublisher, WsBackend

remoteVars == <<linkVars, publisherVars, wsVars>>

RemoteInit == LinkInit /\ PublisherInit /\ WsInit

\* Nothing listens while the publisher is down.
Reachable == server # "down"

RemoteNext ==
  \/ PublisherNext /\ UNCHANGED wsVars
  \/ /\ ReaderStep \/ BackendStep
     /\ rpc = "head" /\ rpc' = "upgrading" => Reachable
     /\ UNCHANGED publisherVars
  \/ \E k \in Conn : Network(k) /\ UNCHANGED <<publisherVars, wsVars>>

RemoteSafety == RemoteInit /\ [][RemoteNext]_remoteVars

\* A publisher that keeps listening is not refused for ever.
Connects ==
  \E k \in Conn : Connect(k) /\ Reachable /\ UNCHANGED publisherVars

RemoteSpec ==
  /\ RemoteSafety
  /\ WF_remoteVars(AcceptLoopHead /\ UNCHANGED wsVars)
  /\ WF_remoteVars(FinishServerDrop /\ UNCHANGED wsVars)
  /\ \A k \in Conn :
       /\ SF_remoteVars(Accept(k) /\ UNCHANGED wsVars)
       /\ WF_remoteVars(ClientTask(k) /\ UNCHANGED wsVars)
  /\ SF_remoteVars(Connects)
  /\ WF_remoteVars(ReaderStep /\ UNCHANGED publisherVars)
  /\ WF_remoteVars((LoadGeneration \/ Apply) /\ UNCHANGED publisherVars)
  /\ WF_remoteVars(InitReturns /\ UNCHANGED publisherVars)

\* Every connection of the bounded model has been used up.
OutOfConnections == conn = 0 /\ \A k \in Conn : link[k] # "unused"

-----------------------------------------------------------------------------
\* What is published reaches the watcher's screen as long as both programs run
\* and there is a network to reconnect over.
Delivered ==
  \A n \in Frame :
    (slot = n /\ ~Stopping) ~>
      (taken >= n \/ server # "up" \/ Stopping \/ OutOfConnections)

=============================================================================
