--------------------------- MODULE MCRemoteStream ---------------------------
(***************************************************************************)
(* One watcher, two connections (one reconnection), two frames and two     *)
(* publishers.  What the frames say is the concern of MCLinkEnds.          *)
(***************************************************************************)
EXTENDS RemoteStream

TwoConnections == 1..2
OneCard == {0}
NoConnection == {}
OneGoodFrame == {[devices |-> OneCard, ext |-> FALSE]}
=============================================================================
