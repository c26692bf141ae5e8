----------------------------- MODULE MCLinkEnds -----------------------------
(***************************************************************************)
(* The two ends of the link, each against any peer, checked in one run: a  *)
(* behaviour takes the steps of one end and the other keeps still.         *)
(*                                                                         *)
(* The publisher has two connections, of which one may stop reading and    *)
(* either may ask for another path, two frames, two publishers in turn,    *)
(* and room for one frame in a connection so that a slow reader really     *)
(* blocks its task.  The watcher sees three cards of which it can admit    *)
(* two, frames that report one card or all, carry an extension or do not   *)
(* parse, and one reconnection.                                            *)
(***************************************************************************)
EXTENDS RemoteStream

TwoConnections == 1..2
FirstIsSlow == {1}
ThreeCards == 0..2
Says(ds, e) == [devices |-> ds, ext |-> e]
GoodAndBad == {Garbled, Says({1}, TRUE), Says(ThreeCards, FALSE)}

VARIABLE end

EndsInit ==
  /\ end \in {"publisher", "watcher"}
  /\ RemoteInit
  /\ end = "publisher" => \A n \in Frame : content[n] = Garbled

EndsNext ==
  /\ UNCHANGED end
  /\ \/ end = "publisher" /\ UNCHANGED wsVars
          /\ (PublisherNext \/ \E k \in Conn : ClientEnd(k))
     \/ end = "watcher" /\ UNCHANGED publisherVars
          /\ (WsNext \/ Peer)

AtPublisher(A) == end = "publisher" /\ A /\ UNCHANGED wsVars
AtWatcher(A) == end = "watcher" /\ A /\ UNCHANGED publisherVars

\* PublisherSpec's and WsSpec's fairness, each for the end that moves.
EndsFairness ==
  /\ WF_remoteVars(AtPublisher(AcceptLoopHead))
  /\ WF_remoteVars(AtPublisher(FinishServerDrop))
  /\ \A k \in Conn :
       /\ SF_remoteVars(AtPublisher(Accept(k)))
       /\ WF_remoteVars(AtPublisher(HandshakeSucceeds(k) \/ HandshakeRejected(k)))
       /\ WF_remoteVars(AtPublisher(Greet(k) \/ Wake(k)))
       /\ WF_remoteVars(AtPublisher(SendFrame(k) \/ SendFails(k)))
  /\ \A k \in Conn \ Slow : WF_remoteVars(AtPublisher(Receive(k) /\ UNCHANGED publisherVars))
  /\ WF_remoteVars(AtWatcher(LoadGeneration \/ Apply))
  /\ WF_remoteVars(AtWatcher(InitReturns))
  /\ WF_remoteVars(AtWatcher(FinishWsDrop))
  /\ WF_remoteVars(AtWatcher(ReaderStep))

EndsSpec == EndsInit /\ [][EndsNext]_<<remoteVars, end>> /\ EndsFairness
=============================================================================
