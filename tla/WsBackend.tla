------------------------------ MODULE WsBackend ------------------------------
(***************************************************************************)
(* The watching end of a remote session (backend/ws.rs): a reader task     *)
(* that connects, keeps the newest frame in a one-slot buffer and          *)
(* reconnects, and the synchronous backend that init() and update() call   *)
(* from the render thread.  What a frame says is fixed by its number.      *)
(***************************************************************************)
EXTENDS TelemetryLink, FiniteSets, FiniteSetsExt

CONSTANTS
  Dev,            \* device indices a frame can mention
  MaxDevices,     \* MAX_REMOTE_DEVICES
  Contents,       \* what frames can say
  Garbled         \* a frame that does not parse

\* The devices a frame reports, and whether it carries a tt_toplike extension.
Parsed == [devices : SUBSET Dev, ext : BOOLEAN]

ASSUME WsAssumption ==
  /\ Dev \subseteq Nat
  /\ IsFiniteSet(Dev)
  /\ MaxDevices \in Nat
  /\ Contents \subseteq Parsed \cup {Garbled}
  /\ Garbled \notin Parsed

VARIABLES
  content,      \* what each frame says
  \* Shared
  latest,       \* newest frame, 0 for None
  generation,
  connected,
  \* the reader task
  rpc,
  conn,         \* its connection, 0 for none
  inHand,       \* the frame it is storing
  \* the backend
  phase,        \* "init", "running", "dropping", "dropped"
  upc,          \* inside apply_latest
  genRead,      \* the generation apply_latest loaded
  lastGen,
  taken,        \* the frame last cloned out of latest
  applied,      \* the frame last merged
  devices,
  telemetry,    \* device -> frame its numbers come from, 0 for none
  ext           \* frame the tt_toplike extension comes from, 0 for none

sharedVars == <<latest, generation, connected>>
readerVars == <<rpc, conn, inHand>>
backendVars == <<phase, upc, genRead, lastGen, taken, applied, devices,
                 telemetry, ext>>
wsVars == <<content, sharedVars, readerVars, backendVars>>

\* init() spawns the reader first.
WsInit ==
  /\ content \in [Frame -> Contents]
  /\ latest = 0
  /\ generation = 0
  /\ connected = FALSE
  /\ rpc = "head"
  /\ conn = 0
  /\ inHand = 0
  /\ phase = "init"
  /\ upc = "idle"
  /\ genRead = 0
  /\ lastGen = 0
  /\ taken = 0
  /\ applied = 0
  /\ devices = {}
  /\ telemetry = [d \in Dev |-> 0]
  /\ ext = 0

Stopping == phase \in {"dropping", "dropped"}

ReaderGoes(to) == rpc' = to

-----------------------------------------------------------------------------
(***************************************************************************)
(* reader_loop                                                             *)
(***************************************************************************)
ReaderStops ==
  /\ rpc \in {"head", "backoff"}
  /\ Stopping
  /\ ReaderGoes("ended")
  /\ UNCHANGED <<linkVars, content, sharedVars, conn, inHand, backendVars>>

\* connect_async: the TCP connection is there, the upgrade is under way.
Connect(k) ==
  /\ rpc = "head"
  /\ ~Stopping
  /\ Dial(k)
  /\ conn' = k
  /\ ReaderGoes("upgrading")
  /\ UNCHANGED <<content, sharedVars, inHand, backendVars>>

\* Refused, unresolved or timed out before there was a connection.
ConnectRefused ==
  /\ rpc = "head"
  /\ ~Stopping
  /\ connected' = FALSE
  /\ ReaderGoes("backoff")
  /\ UNCHANGED <<linkVars, content, latest, generation, conn, inHand, backendVars>>

UpgradeSucceeds ==
  /\ rpc = "upgrading"
  /\ link[conn] \in {"open", "reset", "silent"}
  /\ connected' = TRUE
  /\ ReaderGoes("reading")
  /\ UNCHANGED <<linkVars, content, latest, generation, conn, inHand, backendVars>>

UpgradeFails ==
  /\ rpc = "upgrading"
  /\ link[conn] = "closed"
  /\ connected' = FALSE
  /\ conn' = 0
  /\ ReaderGoes("backoff")
  /\ UNCHANGED <<linkVars, content, latest, generation, inHand, backendVars>>

\* read.next() yields a frame; while stopping it is thrown away and the
\* connection with it.
ReadFrame ==
  /\ rpc = "reading"
  /\ Receive(conn)
  /\ IF Stopping
     THEN ReaderGoes("leave") /\ UNCHANGED inHand
     ELSE ReaderGoes("store") /\ inHand' = got'[conn]
  /\ UNCHANGED <<content, sharedVars, conn, backendVars>>

\* set_frame: latest and last_frame_at, then the counter.
Store ==
  /\ rpc = "store"
  /\ latest' = inHand
  /\ ReaderGoes("bump")
  /\ UNCHANGED <<linkVars, content, generation, connected, conn, inHand, backendVars>>

\* Mistake: only the first frame of a connection is announced.
BumpIfFirst ==
  /\ rpc = "bump"
  /\ generation' = IF generation = 0 THEN 1 ELSE generation
  /\ ReaderGoes("reading")
  /\ UNCHANGED <<linkVars, content, latest, connected, conn, inHand, backendVars>>

Bump ==
  /\ rpc = "bump"
  /\ generation' = generation + 1
  /\ ReaderGoes("reading")
  /\ UNCHANGED <<linkVars, content, latest, connected, conn, inHand, backendVars>>

\* A close, an error or the end of the stream.
StreamEnds ==
  /\ rpc = "reading"
  /\ wire[conn] = <<>>
  /\ link[conn] \in {"closed", "reset"}
  /\ ReaderGoes("leave")
  /\ UNCHANGED <<linkVars, content, sharedVars, conn, inHand, backendVars>>

LeaveConnection ==
  /\ rpc = "leave"
  /\ connected' = FALSE
  /\ IF link[conn] = "open" THEN HangUp(conn) ELSE UNCHANGED linkVars
  /\ conn' = 0
  /\ ReaderGoes("backoff")
  /\ UNCHANGED <<content, latest, generation, inHand, backendVars>>

\* Mistake: after one lost connection the reader waits for ever.
BackoffGivesUp ==
  /\ rpc = "backoff"
  /\ ~Stopping
  /\ generation = 0
  /\ ReaderGoes("head")
  /\ UNCHANGED <<linkVars, content, sharedVars, conn, inHand, backendVars>>

BackoffEnds ==
  /\ rpc = "backoff"
  /\ ~Stopping
  /\ ReaderGoes("head")
  /\ UNCHANGED <<linkVars, content, sharedVars, conn, inHand, backendVars>>

ReaderStep ==
  \/ ReaderStops \/ ConnectRefused \/ UpgradeSucceeds \/ UpgradeFails
  \/ ReadFrame \/ Store \/ Bump \/ StreamEnds \/ LeaveConnection \/ BackoffEnds
  \/ \E k \in Conn : Connect(k)

-----------------------------------------------------------------------------
(***************************************************************************)
(* apply_latest, called by the polling loop of init() and by update().     *)
(***************************************************************************)
LoadGeneration ==
  /\ phase \in {"init", "running"}
  /\ upc = "idle"
  /\ generation # lastGen
  /\ genRead' = generation
  /\ upc' = "clone"
  /\ UNCHANGED <<linkVars, content, sharedVars, readerVars, phase, lastGen,
                 taken, applied, devices, telemetry, ext>>

\* Devices are never removed and at most MaxDevices are ever added, in the
\* order of the frame.
Admitted(said) ==
  LET new == said \ devices IN
  devices \cup {d \in new : Cardinality({e \in new : e < d}) + Cardinality(devices)
                              < MaxDevices}

\* Mistake: numbers are merged into the map instead of replacing it.
MergeGrows(doc) ==
  /\ devices' = Admitted(doc.devices)
  /\ telemetry' = [d \in Dev |-> IF d \in doc.devices \cap devices' THEN latest
                                 ELSE telemetry[d]]
  /\ ext' = IF doc.ext THEN latest ELSE 0
  /\ applied' = latest

Merge(doc) ==
  /\ devices' = Admitted(doc.devices)
  /\ telemetry' = [d \in Dev |-> IF d \in doc.devices \cap devices' THEN latest ELSE 0]
  /\ ext' = IF doc.ext THEN latest ELSE 0
  /\ applied' = latest

\* A frame that does not parse leaves the screen alone, and is not parsed
\* again.
Apply ==
  /\ upc = "clone"
  /\ lastGen' = genRead
  /\ taken' = latest
  /\ upc' = "idle"
  /\ IF content[latest] = Garbled
     THEN UNCHANGED <<applied, devices, telemetry, ext>>
     ELSE Merge(content[latest])
  /\ UNCHANGED <<linkVars, content, sharedVars, readerVars, phase, genRead>>

InitReturns ==
  /\ phase = "init"
  /\ upc = "idle"
  /\ applied # 0
  /\ devices # {}
  /\ phase' = "running"
  /\ UNCHANGED <<linkVars, content, sharedVars, readerVars, upc, genRead,
                 lastGen, taken, applied, devices, telemetry, ext>>

\* The deadline of init() passes, the backend is exchanged, or the program
\* ends: the backend is dropped.
BeginWsDrop ==
  /\ phase = "running" \/ (phase = "init" /\ devices = {})
  /\ upc = "idle"
  /\ phase' = "dropping"
  /\ UNCHANGED <<linkVars, content, sharedVars, readerVars, upc, genRead,
                 lastGen, taken, applied, devices, telemetry, ext>>

\* shutdown_timeout(200 ms): the reader is dropped at its await, and its
\* socket with it.
FinishWsDrop ==
  /\ phase = "dropping"
  /\ rpc \notin {"store", "bump", "leave"}
  /\ phase' = "dropped"
  /\ ReaderGoes("ended")
  /\ IF conn # 0 /\ link[conn] \in {"dialling", "open", "silent"}
     THEN HangUp(conn) ELSE UNCHANGED linkVars
  /\ conn' = 0
  /\ UNCHANGED <<content, sharedVars, inHand, upc, genRead, lastGen, taken,
                 applied, devices, telemetry, ext>>

BackendStep ==
  LoadGeneration \/ Apply \/ InitReturns \/ BeginWsDrop \/ FinishWsDrop

WsNext == ReaderStep \/ BackendStep

WsFairness ==
  /\ WF_<<linkVars, wsVars>>(LoadGeneration \/ Apply)
  /\ WF_<<linkVars, wsVars>>(InitReturns)
  /\ WF_<<linkVars, wsVars>>(FinishWsDrop)
  /\ WF_<<linkVars, wsVars>>(ReaderStep)

-----------------------------------------------------------------------------
(***************************************************************************)
(* The backend watching a peer it knows nothing of, except that it sends   *)
(* the newest frame there is.                                              *)
(***************************************************************************)
PeerPublishes ==
  /\ published < MaxFrames
  /\ published' = published + 1
  /\ UNCHANGED <<link, wire, got>>

PeerAnswers(k) ==
  /\ link[k] = "dialling"
  /\ SetLink(k, "open") \/ SetLink(k, "closed")
  /\ UNCHANGED <<published, wire, got>>

PeerSends(k) ==
  /\ link[k] = "open"
  /\ LastSent(k) < published
  /\ Len(wire[k]) < WireCap
  /\ wire' = [wire EXCEPT ![k] = Append(@, published)]
  /\ UNCHANGED <<published, link, got>>

PeerCloses(k) ==
  /\ link[k] = "open"
  /\ SetLink(k, "closed")
  /\ UNCHANGED <<published, wire, got>>

Peer ==
  /\ \/ PeerPublishes
     \/ \E k \in Conn : PeerAnswers(k) \/ PeerSends(k) \/ PeerCloses(k) \/ Network(k)
  /\ UNCHANGED wsVars

WsStart == LinkInit /\ WsInit

WsSafety == WsStart /\ [][WsNext \/ Peer]_<<linkVars, wsVars>>

WsSpec == WsSafety /\ WsFairness

WsTypeOK ==
  /\ LinkTypeOK
  /\ content \in [Frame -> Contents]
  /\ latest \in AnyFrame
  /\ generation \in Nat
  /\ connected \in BOOLEAN
  /\ rpc \in {"head", "upgrading", "reading", "store", "bump", "leave",
             "backoff", "ended"}
  /\ conn \in Conn \cup {0}
  /\ inHand \in AnyFrame
  /\ phase \in {"init", "running", "dropping", "dropped"}
  /\ upc \in {"idle", "clone"}
  /\ genRead \in Nat
  /\ lastGen \in Nat
  /\ taken \in AnyFrame
  /\ applied \in AnyFrame
  /\ devices \subseteq Dev
  /\ telemetry \in [Dev -> AnyFrame]
  /\ ext \in AnyFrame

\* update() may run between the store of a frame and the step of the counter,
\* and may clone a frame newer than the counter it loaded; still, when the
\* counter says there is nothing new, the newest frame has been taken.
NothingUnread ==
  (generation = lastGen /\ upc = "idle" /\ rpc # "bump") => taken = latest

\* What is on the screen comes from one frame: a card the newest good frame
\* does not report has no numbers, and the extension is that frame's own.
\* However many cards the frames mention, at most MaxDevices are kept, and
\* numbers are kept only for those.
ScreenIsOneFrame ==
  /\ applied # 0 =>
       /\ \A d \in devices :
            telemetry[d] = IF d \in content[applied].devices THEN applied ELSE 0
       /\ ext = IF content[applied].ext THEN applied ELSE 0
  /\ Cardinality(devices) <= MaxDevices
  /\ \A d \in Dev : telemetry[d] # 0 => d \in devices

\* WsBackend implements the feed specification: the slot holds the newest
\* received frame, and update() shows it, over every reconnection.
Feed == INSTANCE SnapshotFeed WITH
  produced <- latest, shown <- taken, closed <- Stopping

FeedImplemented == Feed!FeedSpec

=============================================================================
