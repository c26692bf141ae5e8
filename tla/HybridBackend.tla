---------------------------- MODULE HybridBackend ---------------------------
(***************************************************************************)
(* The default telemetry backend on Linux (backend/hybrid.rs).  Two        *)
(* threads share lock-free slots:                                          *)
(*                                                                         *)
(*   - "hybrid-smbus-reader" runs `tt-smi -s` in a loop and publishes what *)
(*     it parsed with five separate atomic stores: the per-device metadata,*)
(*     its stamp, the SMBUS map, its stamp, and a generation counter;      *)
(*   - the render thread calls update() on every tick, which adopts a new  *)
(*     snapshot when the generation moved, blends it, and overlays the     *)
(*     board power, each payload only while its stamp is young enough.     *)
(*                                                                         *)
(* Every atomic load or store that the other thread can observe is a step  *)
(* of its own.  A payload is represented by the number of the poll that    *)
(* produced it (0 is "nothing yet"); docs remembers what each poll held.   *)
(* The EMA-smoothed value of a device is represented by the poll it is     *)
(* converging to.                                                          *)
(***************************************************************************)
EXTENDS Naturals

CONSTANTS
  Dev,        \* the sysfs device indices
  Docs,       \* the documents tt-smi may print, after the bus-id join
  MaxPolls,   \* bound: successful runs of tt-smi
  MaxClock,   \* bound: last instant of the clock
  OutageAt,   \* tt-smi answers no more once the clock is past this instant
  MaxAge      \* LIVE_MEASUREMENT_MAX_AGE, in clock ticks

\* A document says which devices had SMBUS data, which had metadata, and
\* which of the latter carried static fields and a board power reading.
Doc == [smbus : SUBSET Dev, meta : SUBSET Dev,
        static : SUBSET Dev, power : SUBSET Dev]

EmptyDoc == [smbus |-> {}, meta |-> {}, static |-> {}, power |-> {}]

ASSUME HybridAssumption ==
  /\ Docs \subseteq Doc
  /\ \A doc \in Docs : (doc.static \cup doc.power) \subseteq doc.meta
  /\ MaxPolls \in Nat
  /\ MaxClock \in Nat
  /\ OutageAt \in Nat
  /\ MaxAge \in Nat \ {0}

VARIABLES
  \* the world
  clock,          \* what Instant::now() returns
  docs,           \* history: the document of each poll
  polls,          \* history: how many polls succeeded
  stampedAt,      \* history: when each poll came back, then when it was stamped
  \* shared slots
  smbusShared,    \* smbus_shared: the poll whose SMBUS map it holds
  metaShared,     \* device_meta_shared
  smbusStamp,     \* smbus_stamp, with the poll it was taken for
  metaStamp,      \* device_meta_stamp
  generation,     \* smbus_generation
  lastRaw,        \* last_raw: the poll whose verbatim text it holds
  stopFlag,       \* stop_flag
  \* the reader thread
  rpc,
  \* the render thread
  upc,
  genSeen,        \* current_gen
  snapshotGen,    \* smbus_snapshot_gen
  smbusLatest,    \* smbus_latest
  blended,        \* smbus_blended: per device, the poll blended towards
  ema,            \* smbus_ema: the devices with an accumulator
  now,            \* the instant update() judges freshness at
  metaForPower,   \* meta_for_power
  static,         \* per device, the poll its static fields came from
  boardPower,     \* per device, the poll its board_power came from
  overlap         \* history: a publication was under way during update()

worldVars  == <<clock, docs, polls, stampedAt>>
sharedVars == <<smbusShared, metaShared, smbusStamp, metaStamp, generation,
                lastRaw, stopFlag>>
renderVars == <<upc, genSeen, snapshotGen, smbusLatest, blended, ema, now,
                metaForPower, static, boardPower>>
vars == <<worldVars, sharedVars, renderVars, rpc, overlap>>

Poll    == 1..MaxPolls
AnyPoll == 0..MaxPolls
Stamp   == [poll : AnyPoll, at : Nat]
NoStamp == [poll |-> 0, at |-> 0]       \* ArcSwapOption::empty()

DocOf(p) == IF p = 0 THEN EmptyDoc ELSE docs[p]

\* The stores of publish_snapshot, in program order.
Publishing == {"metaStore", "metaStamp", "smbusStore", "smbusStamp", "bump"}
\* Inside update(); "joining" and "gone" are the two halves of Drop.
Updating == {"adoptSmbus", "adoptMeta", "clock", "blend", "loadMeta", "power"}

Nothing == [d \in Dev |-> 0]

Init ==
  /\ clock = 0
  /\ docs = [p \in Poll |-> EmptyDoc]
  /\ polls = 0
  /\ stampedAt = [p \in Poll |-> 0]
  /\ smbusShared = 0 /\ metaShared = 0
  /\ smbusStamp = NoStamp /\ metaStamp = NoStamp
  /\ generation = 0
  /\ lastRaw = 0
  /\ stopFlag = FALSE
  /\ rpc \in {"top", "parked"}       \* tt-smi was found in PATH, or was not
  /\ upc = "idle"
  /\ genSeen = 0 /\ snapshotGen = 0
  /\ smbusLatest = 0
  /\ blended = Nothing
  /\ ema = {}
  /\ now = 0
  /\ metaForPower = 0
  /\ static = Nothing
  /\ boardPower = Nothing
  /\ overlap = FALSE

(***************************************************************************)
(* measurement_is_fresh: no stamp is not fresh; an instant that predates   *)
(* the stamp saturates to age 0.                                           *)
(***************************************************************************)
IsFresh(stamp, instant) ==
  /\ stamp.poll # 0
  /\ instant < stamp.at + MaxAge

(***************************************************************************)
(* The reader thread.                                                      *)
(***************************************************************************)
ReaderGoes(to) ==
  /\ rpc' = to
  /\ overlap' = (overlap \/ (upc \in Updating /\ to \in Publishing))

\* Variants of an action, each with a mistake the code might have had, stand
\* before the action they vary; no specification below uses them.

\* Mistake: the loop head does not look at the flag.
PollLoopHeadIgnoresStop ==
  /\ rpc = "top"
  /\ ReaderGoes("run")
  /\ UNCHANGED <<worldVars, sharedVars, renderVars>>

\* while !stop_flag: the check at the head of the polling loop.
PollLoopHead ==
  /\ rpc = "top"
  /\ ReaderGoes(IF stopFlag THEN "done" ELSE "run")
  /\ UNCHANGED <<worldVars, sharedVars, renderVars>>

\* tt-smi was not found at init: the thread only waits for the stop flag.
ParkedReaderStops ==
  /\ rpc = "parked"
  /\ stopFlag
  /\ ReaderGoes("done")
  /\ UNCHANGED <<worldVars, sharedVars, renderVars>>

\* Where publish_snapshot begins for a document: each payload is gated on its
\* own emptiness, and a document with neither is dropped.
FirstStore(doc) ==
  IF doc.meta # {} THEN "metaStore"
  ELSE IF doc.smbus # {} THEN "smbusStore"
  ELSE "nap"

\* Mistake: only a document with an SMBUS block is kept for the relay.
RelayOnlySmbus(doc) ==
  /\ rpc = "run"
  /\ polls < MaxPolls
  /\ clock <= OutageAt
  /\ polls' = polls + 1
  /\ docs' = [docs EXCEPT ![polls + 1] = doc]
  /\ stampedAt' = [stampedAt EXCEPT ![polls + 1] = clock]
  /\ lastRaw' = IF doc.smbus # {} THEN polls + 1 ELSE lastRaw
  /\ ReaderGoes(FirstStore(doc))
  /\ UNCHANGED <<clock, smbusShared, metaShared, smbusStamp, metaStamp,
                 generation, stopFlag, renderVars>>

\* .output() returned success: keep the verbatim text, then publish.
TtSmiSucceeds(doc) ==
  /\ rpc = "run"
  /\ polls < MaxPolls
  /\ clock <= OutageAt
  /\ polls' = polls + 1
  /\ docs' = [docs EXCEPT ![polls + 1] = doc]
  /\ stampedAt' = [stampedAt EXCEPT ![polls + 1] = clock]
  /\ lastRaw' = polls + 1
  /\ ReaderGoes(FirstStore(doc))
  /\ UNCHANGED <<clock, smbusShared, metaShared, smbusStamp,
                 metaStamp, generation, stopFlag, renderVars>>

\* A nonzero exit status is logged and forgotten.
TtSmiExitsNonZero ==
  /\ rpc = "run"
  /\ ReaderGoes("nap")
  /\ UNCHANGED <<worldVars, sharedVars, renderVars>>

\* The process could not be spawned: sleep 5 s without looking at the flag.
TtSmiSpawnFails ==
  /\ rpc = "run"
  /\ ReaderGoes("backoff")
  /\ UNCHANGED <<worldVars, sharedVars, renderVars>>

BackoffEnds ==
  /\ rpc = "backoff"
  /\ ReaderGoes("top")
  /\ UNCHANGED <<worldVars, sharedVars, renderVars>>

StoreMeta ==
  /\ rpc = "metaStore"
  /\ metaShared' = polls
  /\ ReaderGoes("metaStamp")
  /\ UNCHANGED <<worldVars, smbusShared, smbusStamp, metaStamp, generation,
                 lastRaw, stopFlag, renderVars>>

StampMeta ==
  /\ rpc = "metaStamp"
  /\ metaStamp' = [poll |-> polls, at |-> clock]
  /\ stampedAt' = [stampedAt EXCEPT ![polls] = clock]
  /\ ReaderGoes(IF docs[polls].smbus # {} THEN "smbusStore" ELSE "bump")
  /\ UNCHANGED <<clock, docs, polls, smbusShared, metaShared, smbusStamp,
                 generation, lastRaw, stopFlag, renderVars>>

StoreSmbus ==
  /\ rpc = "smbusStore"
  /\ smbusShared' = polls
  /\ ReaderGoes("smbusStamp")
  /\ UNCHANGED <<worldVars, metaShared, smbusStamp, metaStamp, generation,
                 lastRaw, stopFlag, renderVars>>

StampSmbus ==
  /\ rpc = "smbusStamp"
  /\ smbusStamp' = [poll |-> polls, at |-> clock]
  /\ stampedAt' = [stampedAt EXCEPT ![polls] = clock]
  /\ ReaderGoes("bump")
  /\ UNCHANGED <<clock, docs, polls, smbusShared, metaShared, metaStamp,
                 generation, lastRaw, stopFlag, renderVars>>

\* Mistakes: the counter moves for one kind of payload only.
BumpOnlyForSmbus ==
  /\ rpc = "bump"
  /\ generation' = IF docs[polls].smbus # {} THEN generation + 1 ELSE generation
  /\ ReaderGoes("nap")
  /\ UNCHANGED <<worldVars, smbusShared, metaShared, smbusStamp, metaStamp,
                 lastRaw, stopFlag, renderVars>>

BumpOnlyForMeta ==
  /\ rpc = "bump"
  /\ generation' = IF docs[polls].meta # {} THEN generation + 1 ELSE generation
  /\ ReaderGoes("nap")
  /\ UNCHANGED <<worldVars, smbusShared, metaShared, smbusStamp, metaStamp,
                 lastRaw, stopFlag, renderVars>>

BumpGeneration ==
  /\ rpc = "bump"
  /\ generation' = generation + 1
  /\ ReaderGoes("nap")
  /\ UNCHANGED <<worldVars, smbusShared, metaShared, smbusStamp, metaStamp,
                 lastRaw, stopFlag, renderVars>>

\* The 1.5 s sleep, sliced so that the stop flag is seen every 50 ms.
Nap ==
  /\ rpc = "nap"
  /\ \/ stopFlag /\ ReaderGoes("done")
     \/ ReaderGoes("top")
  /\ UNCHANGED <<worldVars, sharedVars, renderVars>>

TtSmiReturns ==
  \/ \E doc \in Docs : TtSmiSucceeds(doc)
  \/ TtSmiExitsNonZero
  \/ TtSmiSpawnFails

ReaderRuns ==
  \/ PollLoopHead \/ ParkedReaderStops \/ BackoffEnds \/ Nap
  \/ StoreMeta \/ StampMeta \/ StoreSmbus \/ StampSmbus \/ BumpGeneration

(***************************************************************************)
(* The render thread: update().                                            *)
(***************************************************************************)
\* sysfs.update() rebuilds every Telemetry with board_power: None; then the
\* generation counter is loaded.
BeginUpdate ==
  /\ upc = "idle"
  /\ boardPower' = Nothing
  /\ genSeen' = generation
  /\ upc' = IF generation # snapshotGen THEN "adoptSmbus" ELSE "clock"
  /\ overlap' = (rpc \in Publishing)
  /\ UNCHANGED <<worldVars, sharedVars, rpc, snapshotGen, smbusLatest,
                 blended, ema, now, metaForPower, static>>

\* Mistake: devices that left the snapshot are not removed from the blend.
AdoptWithoutRetain ==
  /\ upc = "adoptSmbus"
  /\ smbusLatest' = smbusShared
  /\ snapshotGen' = genSeen
  /\ upc' = "adoptMeta"
  /\ UNCHANGED <<worldVars, sharedVars, rpc, overlap, genSeen, now, blended,
                 ema, metaForPower, static, boardPower>>

\* Adopt the map and retain only the devices it still mentions.
AdoptSmbus ==
  /\ upc = "adoptSmbus"
  /\ smbusLatest' = smbusShared
  /\ snapshotGen' = genSeen
  /\ LET kept == DocOf(smbusShared).smbus
     IN /\ blended' = [d \in Dev |-> IF d \in kept THEN blended[d] ELSE 0]
        /\ ema' = ema \cap kept
  /\ upc' = "adoptMeta"
  /\ UNCHANGED <<worldVars, sharedVars, rpc, overlap, genSeen, now,
                 metaForPower, static, boardPower>>

\* Copy the static fields the metadata carries; keep those it lacks.
AdoptMeta ==
  /\ upc = "adoptMeta"
  /\ static' = [d \in Dev |-> IF d \in DocOf(metaShared).static
                              THEN metaShared ELSE static[d]]
  /\ upc' = "clock"
  /\ UNCHANGED <<worldVars, sharedVars, rpc, overlap, genSeen, snapshotGen,
                 smbusLatest, blended, ema, now, metaForPower, boardPower>>

ReadClock ==
  /\ upc = "clock"
  /\ now' = clock
  /\ upc' = "blend"
  /\ UNCHANGED <<worldVars, sharedVars, rpc, overlap, genSeen, snapshotGen,
                 smbusLatest, blended, ema, metaForPower, static, boardPower>>

\* The blend of one frame, given whether the SMBUS map counts as fresh and
\* what happens to the blend and its accumulators otherwise.
BlendIf(fresh, otherwise, emaOtherwise) ==
  /\ upc = "blend"
  /\ LET target == DocOf(smbusLatest).smbus
     IN /\ blended' = IF ~fresh THEN otherwise
                      ELSE [d \in Dev |-> IF d \in target THEN smbusLatest
                                                          ELSE blended[d]]
        /\ ema' = IF fresh THEN ema \cup target ELSE emaOtherwise
  /\ upc' = "loadMeta"
  /\ UNCHANGED <<worldVars, sharedVars, rpc, overlap, genSeen, snapshotGen,
                 smbusLatest, now, metaForPower, static, boardPower>>

\* Mistakes: the metadata's stamp vouches for the SMBUS map; an expired blend
\* stays.
BlendByMetaStamp  == BlendIf(IsFresh(metaStamp, now), Nothing, {})
BlendNeverExpires == BlendIf(IsFresh(smbusStamp, now), blended, ema)

\* Load smbus_stamp; blend towards smbus_latest, or drop an expired blend.
\* The TDP/TDC overlay that follows copies from the blend on the same thread.
Blend ==
  BlendIf(IsFresh(smbusStamp, now), Nothing,
          IF blended = Nothing THEN ema ELSE {})

LoadMeta ==
  /\ upc = "loadMeta"
  /\ metaForPower' = metaShared
  /\ upc' = "power"
  /\ UNCHANGED <<worldVars, sharedVars, rpc, overlap, genSeen, snapshotGen,
                 smbusLatest, blended, ema, now, static, boardPower>>

\* Load device_meta_stamp and sweep the board power of every cached device.
OverlayPower ==
  /\ upc = "power"
  /\ boardPower' =
       [d \in Dev |-> IF /\ d \in DocOf(metaForPower).power
                         /\ IsFresh(metaStamp, now)
                      THEN metaForPower ELSE 0]
  /\ upc' = "idle"
  /\ UNCHANGED <<worldVars, sharedVars, rpc, overlap, genSeen, snapshotGen,
                 smbusLatest, blended, ema, now, metaForPower, static>>

\* Drop for HybridBackend: raise the flag, then join the reader.
BeginDrop ==
  /\ upc = "idle"
  /\ stopFlag' = TRUE
  /\ upc' = "joining"
  /\ UNCHANGED <<worldVars, smbusShared, metaShared, smbusStamp, metaStamp,
                 generation, lastRaw, rpc, overlap, genSeen, snapshotGen,
                 smbusLatest, blended, ema, now, metaForPower, static,
                 boardPower>>

JoinReader ==
  /\ upc = "joining"
  /\ rpc = "done"
  /\ upc' = "gone"
  /\ UNCHANGED <<worldVars, sharedVars, rpc, overlap, genSeen, snapshotGen,
                 smbusLatest, blended, ema, now, metaForPower, static,
                 boardPower>>

UpdateStep ==
  \/ AdoptSmbus \/ AdoptMeta \/ ReadClock \/ Blend \/ LoadMeta \/ OverlayPower

\* Bound: the publication in progress when the outage begins is not delayed.
Tick ==
  /\ clock < MaxClock
  /\ upc # "gone"
  /\ ~(clock > OutageAt /\ rpc \in Publishing)
  /\ clock' = clock + 1
  /\ UNCHANGED <<docs, polls, stampedAt, sharedVars, renderVars, rpc, overlap>>

\* The backend has been dropped: the value no longer exists.
Dropped == upc = "gone" /\ UNCHANGED vars

Next ==
  \/ ReaderRuns \/ TtSmiReturns
  \/ BeginUpdate \/ UpdateStep \/ BeginDrop \/ JoinReader
  \/ Tick \/ Dropped

Safety == Init /\ [][Next]_vars

(***************************************************************************)
(* The reader thread is scheduled and every tt-smi run returns; the render *)
(* loop calls update() on every tick until it drops the backend; the clock *)
(* advances.                                                               *)
(***************************************************************************)
Fairness ==
  /\ WF_vars(ReaderRuns)
  /\ WF_vars(TtSmiReturns)
  /\ WF_vars(UpdateStep)
  /\ WF_vars(BeginUpdate)
  /\ WF_vars(JoinReader)
  /\ WF_vars(Tick)

Spec == Safety /\ Fairness

-----------------------------------------------------------------------------
(***************************************************************************)
(* Properties.                                                             *)
(***************************************************************************)
ReaderPc == {"top", "parked", "run", "backoff", "nap", "done"} \cup Publishing
RenderPc == {"idle", "joining", "gone"} \cup Updating

TypeOK ==
  /\ clock \in Nat
  /\ docs \in [Poll -> Doc]
  /\ polls \in AnyPoll
  /\ stampedAt \in [Poll -> Nat]
  /\ smbusShared \in AnyPoll /\ metaShared \in AnyPoll
  /\ smbusStamp \in Stamp /\ metaStamp \in Stamp
  /\ generation \in Nat
  /\ lastRaw \in AnyPoll
  /\ stopFlag \in BOOLEAN
  /\ rpc \in ReaderPc
  /\ upc \in RenderPc
  /\ genSeen \in Nat /\ snapshotGen \in Nat
  /\ smbusLatest \in AnyPoll
  /\ blended \in [Dev -> AnyPoll]
  /\ ema \subseteq Dev
  /\ now \in Nat
  /\ metaForPower \in AnyPoll
  /\ static \in [Dev -> AnyPoll]
  /\ boardPower \in [Dev -> AnyPoll]
  /\ overlap \in BOOLEAN

\* No snapshot is lost: when no publication is under way and the render
\* thread has caught up with the generation counter, it holds the SMBUS map
\* that was published last, and its devices carry every static field of the
\* last metadata.  The reader bumps the counter once per document, after all
\* of its stores, whichever payload the document had.
CaughtUp ==
  /\ snapshotGen = generation
  /\ rpc \notin Publishing
  /\ upc # "adoptMeta"

NoSnapshotLost ==
  CaughtUp => /\ smbusLatest = smbusShared
              /\ \A d \in DocOf(metaShared).static : static[d] = metaShared

\* Between two updates, every device's SMBUS row comes from the same poll:
\* a device that left the snapshot is gone from the blend, with its EMA
\* accumulator, and no row of an older poll survives beside newer ones.
OneSnapshot ==
  upc \notin Updating =>
    /\ \A d \in Dev : blended[d] \in {0, smbusLatest}
    /\ ema = {d \in Dev : blended[d] # 0}

\* Live measurements expire.  After an update() that no publication
\* overlapped, each blended SMBUS row and each board power reading on the
\* screen was stamped less than MaxAge before the instant it was judged at.
FreshUnlessOverlapped ==
  (upc \notin Updating /\ ~overlap) =>
    \A d \in Dev :
      /\ blended[d] # 0 => now < stampedAt[blended[d]] + MaxAge
      /\ boardPower[d] # 0 => now < stampedAt[boardPower[d]] + MaxAge

\* The screen never goes back in time: neither the adopted snapshot nor the
\* static fields of any device are replaced by older ones, and a static
\* field once known is never blanked by a document that lacks it.
NeverBackInTime ==
  [][/\ smbusLatest' >= smbusLatest
     /\ \A d \in Dev : static'[d] >= static[d]]_vars

\* The text relayed to remote viewers (snapshot_json) is never older than
\* anything the local screen shows.
RelayNotBehindScreen ==
  \A d \in Dev :
    /\ blended[d] <= lastRaw
    /\ static[d] <= lastRaw
    /\ boardPower[d] <= lastRaw

\* When tt-smi stops answering (every behaviour has an outage after OutageAt),
\* everything it measured is off the screen in the end, and stays off.
OutageClearsScreen ==
  \/ <>[](blended = Nothing /\ boardPower = Nothing)
  \/ <>stopFlag

\* Dropping the backend joins the reader thread, from wherever it is, as
\* long as the tt-smi it may be waiting for returns.
DropReturns == (upc = "joining") ~> (upc = "gone")

\* HybridBackend implements a snapshot feed: what the reader publishes is,
\* while the backend is open, eventually what the screen shows.
Feed == INSTANCE SnapshotFeed WITH
          produced <- smbusShared, shown <- smbusLatest, closed <- stopFlag
FeedImplemented == Feed!FeedSpec

-----------------------------------------------------------------------------
(***************************************************************************)
(* The inductive invariant behind the theorems of HybridBackendProofs.     *)
(***************************************************************************)
\* Poll numbers only ever flow from the reader to the slots to the screen.
PollsFlow ==
  /\ lastRaw = polls
  /\ smbusShared <= polls /\ metaShared <= polls
  /\ rpc \in {"metaStore", "metaStamp", "smbusStore"} => smbusShared < polls
  /\ rpc \in Publishing => polls # 0
  /\ rpc = "metaStamp" => metaShared = polls
  /\ rpc = "smbusStamp" => smbusShared = polls
  /\ smbusLatest <= smbusShared
  /\ metaForPower <= metaShared
  /\ \A d \in Dev : /\ blended[d] <= smbusLatest
                    /\ static[d] <= metaShared
                    /\ boardPower[d] <= metaShared

\* A stamp lags its payload only between the two stores, and no stamp is
\* later than the clock.
StampsFollow ==
  /\ rpc # "metaStamp" => metaStamp.poll = metaShared
  /\ rpc # "smbusStamp" => smbusStamp.poll = smbusShared
  /\ metaStamp.poll # 0 => metaStamp.at <= stampedAt[metaStamp.poll]
  /\ smbusStamp.poll # 0 => smbusStamp.at <= stampedAt[smbusStamp.poll]
  /\ metaStamp.poll <= polls /\ smbusStamp.poll <= polls
  /\ \A p \in Poll : stampedAt[p] <= clock

GenerationsFollow ==
  /\ snapshotGen <= genSeen /\ genSeen <= generation
  /\ (snapshotGen = generation /\ rpc \notin Publishing)
        => smbusLatest = smbusShared
  /\ NoSnapshotLost

BlendFollows ==
  /\ \A d \in Dev : blended[d] # 0 => d \in DocOf(smbusLatest).smbus
  /\ ema = {d \in Dev : blended[d] # 0}
  /\ upc \notin {"adoptMeta", "clock", "blend"} =>
       \A d \in Dev : blended[d] \in {0, smbusLatest}

FreshFollows ==
  /\ (upc \in Updating /\ ~overlap) =>
       /\ rpc \notin Publishing
       /\ genSeen = generation
       /\ upc # "adoptSmbus" => snapshotGen = generation
       /\ upc = "power" => metaForPower = metaShared
  /\ (upc \notin {"adoptSmbus", "adoptMeta", "clock", "blend"} /\ ~overlap) =>
       \A d \in Dev : blended[d] # 0 => now < stampedAt[blended[d]] + MaxAge
  /\ FreshUnlessOverlapped

IInv ==
  /\ TypeOK
  /\ PollsFlow
  /\ StampsFollow
  /\ GenerationsFollow
  /\ BlendFollows
  /\ FreshFollows
  /\ stopFlag => upc \in {"joining", "gone"}

=============================================================================
