---------------------------- MODULE TelemetryLink ----------------------------
(***************************************************************************)
(* The WebSocket connections between a TelemetryPublisher and the          *)
(* WsBackends that watch it.  A connection is a FIFO of frames that either *)
(* end can close and the network can break; frames are numbered in the     *)
(* order they are published.  Both ends EXTEND this module.                *)
(***************************************************************************)
EXTENDS Naturals, Sequences, SequencesExt

CONSTANTS
  Conn,       \* connections, in the order they are dialled
  MaxFrames,  \* frames published in a behaviour
  WireCap,    \* frames a connection buffers before send() blocks
  SilentLoss  \* whether a connection may die without either end being told

ASSUME LinkAssumption ==
  /\ Conn \subseteq Nat \ {0}
  /\ MaxFrames \in Nat
  /\ WireCap \in Nat \ {0}
  /\ SilentLoss \in BOOLEAN

Frame == 1..MaxFrames
AnyFrame == 0..MaxFrames

VARIABLES
  published,  \* frames published so far
  link,       \* state of each connection
  wire,       \* frames sent and not yet received, per connection
  got         \* last frame the client received, per connection

linkVars == <<published, link, wire, got>>

\* "left": the client hung up and the server has not noticed; "reset": the
\* server's next write fails; "silent": nothing gets through any more, and
\* only a write that is not acknowledged ever fails.
LinkState == {"unused", "dialling", "open", "left", "reset", "silent", "closed"}

LinkInit ==
  /\ published = 0
  /\ link = [k \in Conn |-> "unused"]
  /\ wire = [k \in Conn |-> <<>>]
  /\ got = [k \in Conn |-> 0]

LinkTypeOK ==
  /\ published \in AnyFrame
  /\ link \in [Conn -> LinkState]
  /\ wire \in [Conn -> Seq(Frame)]
  /\ got \in [Conn -> AnyFrame]

SetLink(k, state) == link' = [link EXCEPT ![k] = state]

\* The newest frame that is on its way to the client or has reached it.
LastSent(k) == IF wire[k] = <<>> THEN got[k] ELSE Last(wire[k])

-----------------------------------------------------------------------------
(***************************************************************************)
(* What the client end and the network do.                                 *)
(***************************************************************************)
NextUnused(k) ==
  /\ link[k] = "unused"
  /\ \A j \in Conn : link[j] = "unused" => k <= j

Dial(k) ==
  /\ NextUnused(k)
  /\ SetLink(k, "dialling")
  /\ UNCHANGED <<published, wire, got>>

\* The client takes the next frame; what arrived before the server closed is
\* still delivered.
Receive(k) ==
  /\ link[k] \in {"open", "closed"}
  /\ wire[k] # <<>>
  /\ wire' = [wire EXCEPT ![k] = Tail(@)]
  /\ got' = [got EXCEPT ![k] = Head(wire[k])]
  /\ UNCHANGED <<published, link>>

HangUp(k) ==
  /\ link[k] \in {"dialling", "open", "silent"}
  /\ SetLink(k, "left")
  /\ wire' = [wire EXCEPT ![k] = <<>>]
  /\ UNCHANGED <<published, got>>

\* The network resets the connection: both ends find out on their next use,
\* and what was in flight is gone.
Break(k) ==
  /\ link[k] = "open"
  /\ SetLink(k, "reset")
  /\ wire' = [wire EXCEPT ![k] = <<>>]
  /\ UNCHANGED <<published, got>>

\* A reboot of the box or a Wi-Fi drop: no close, no reset.
GoSilent(k) ==
  /\ SilentLoss
  /\ link[k] = "open"
  /\ SetLink(k, "silent")
  /\ wire' = [wire EXCEPT ![k] = <<>>]
  /\ UNCHANGED <<published, got>>

Network(k) == Break(k) \/ GoSilent(k)

=============================================================================
