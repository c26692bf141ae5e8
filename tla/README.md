# Verification of tt-toplike

tt-toplike is a monitor for Tenstorrent accelerators: a terminal UI (and a
desktop one around it) that merges sysfs, `tt-smi`, `/proc`, container logs and
remote boxes into animated views. Almost nothing in it blocks the thread that
draws. Every slow source has a thread of its own that hands its newest result to
the render loop through an atomic slot, a counter or a channel, and the loop
decides on every pass what is still fresh, still running and still wanted. This
directory models those hand-overs in TLA+, checks them with TLC and proves the
central ones with TLAPS. Paths below are relative to the repository; line
references of every definition are in `PROJECT.json` under `map`.

## 1. Inventory

86,500 lines of Rust, of which 27,000 draw animations and 19,000 are UI. The
parts with state that matters:

| Part | State it keeps | Operations | What is hard | What makes it correct |
|---|---|---|---|---|
| **HybridBackend** (`backend/hybrid.rs`) | two payload slots with stamps, a generation counter, the relay text; on the render side the adopted snapshot, the blend, EMA set, static fields, board power | reader: run tt-smi, publish in five stores; renderer: `update()`, drop | `update()` between any two stores; a document with one block only; tt-smi hangs or dies | no snapshot lost, rows of one poll, measurements expire, nothing goes back, drop returns |
| **Bus-id join** (`rekey_snapshot_by_bus_id`) | mapping, claimed cards | two passes over a document | documents that list fewer, other or anonymous cards | injective; an identified card beats a positional guess |
| **TelemetryPublisher** (`backend/serve.rs`) | watch channel, accept loop, a task per client, client count | publish, accept, handshake, send, drop, restart | clients that stall, vanish, ask for another path | order, no repeat, no frame forgotten, exact count |
| **WsBackend** (`backend/ws.rs`) | one-slot buffer, generation, connection; device list and rows | connect, read, reconnect; init, update, drop | a frame stored while another is applied; bad frames; too many devices | screen shows one frame, the newest; bounded state |
| **View loop** (`ui/tui/mod.rs`) | view, previous view, drawn view, rotation and dwell, Hivemind engine | keys, commands, rotation, choke point | the order rotation / choke point / draw / key in one pass | sweeper has a live engine, dwell kept, every view shown |
| **Scan worker** (`ui/tui/proc_scan.rs`) | request and reply channels, `outstanding` | request, scan, reply, panic, quit | slow and panicking scans; a list that is a mixture of moments | one scan at a time, never wedged |
| **Reset watch and takeover** (`ui/tui/reset_status.rs`, `workload/reset_detect.rs`, `animation/takeover/`) | live resets, done text, detector, takeover clock, demo position | apply a scan, tick, skip, demo, view change | pid reuse; reset ends, is skipped, or overlaps another | one reaction per reset, no false end, every start and end noticed |
| **Training follower** (`workload/train/`) | probe cache, attached run, log tailer, cadence anchors | scan, attach, detach, tail | late `ttml` import, pid reuse, truncated logs, several trainers | lines once, runs never mix, trainer found and dropped |
| **Step accounting** (`TrainState` in `workload/train/monitor.rs`) | step, budget, bases of chunk and resume, cadence anchor | fold headers, resumes, bar frames, step lines, step times | chunked bars that start again, crashes, resumes, validation bars, pauses | the position shown is the run's; only training is timed |
| **Inference monitor** (`workload/inference_server/monitor.rs`, `state.rs`) | detections, per-service state, flat ticks | submit, enumerate, probe, fold | early ticks when the set changes; a service missing from one tick; docker calls that fail | a hung server is alarmed; what runs is shown, what stopped is not |
| **Liveness prober** (`workload/liveness_probe.rs`) | verdict map with ages | submit, probe, replace map | slow cycles, runtimes that do not answer, wholesale replacement | a verdict comes, stays and goes in time |
| **Hivemind engine** (`workload/hivemind/`) | collector threads, their children and pipe readers, channel of 1024; ring of 4096, feed, heat grid | start, stop, poll, add watch | blocked collectors, full channel, containers that restart, processes that stay behind | stop returns and leaves nothing behind |
| **Process panel and `/remote`** (`ui/tui/mod.rs`, `backend/factory.rs`) | cursor, kill dialog, pending connection, backend, broadcast frame | keys, swap, kill, connect, scan applied, `/serve` | lists that change under the cursor, a connection that succeeds late, frames half of one machine | kill what is shown, connect to what is wanted, one machine per frame |
| **Desktop window** (`bin/app.rs`) | terminal grid, cursor, saved cursor; pty | escape sequences, resize, redraw, end of the child | resizes between any two sequences, redraws read late | the grid is whole, what was drawn is shown |
| **Memory Defrag view** (`animation/defrag.rs`) | smoothed power, learned baseline, phase, fill of each channel | one update for each frame, eviction | baselines learned while the chip is in use, missing telemetry, clocks that read 0 | the phase says what the chip does |
| Sysfs, JSON, luwen, host, mock backends | last sample | init, update | little; sequential | unit tests |
| Catalog, process access guard, configuration, log buffer, models, drawing | values under a lock or none | replace, trim, parse | little | unit tests |

How they interact: the loop thread owns every right-hand side. Reader threads
(hybrid, ws) publish into slots it polls; the publisher broadcasts what the loop
takes from `HybridBackend::snapshot_json`; the scan worker answers one request
at a time with a result that feeds the reset watch, the training follower, the
prober, the inference monitor and the process panel; the view loop starts and
stops the Hivemind engine and decides what is scanned for; `b` and `/remote`
replace the backend below all of them, which is why the loop drops the per-view
state that was learned from the old one.

`PROJECT.json` lists every component with what is modelled of it, and under
`hazards` each place where this code can go wrong in a way a test hardly
reaches, with the property that covers it or the reason none does yet.

## 2. Modules

| Module | Models | Uses |
|---|---|---|
| `SnapshotFeed` | abstract: a producer replaces a snapshot, an open consumer ends up showing the newest and never an older one | – |
| `HybridBackend` | reader thread and `update()` of the default backend | implements `SnapshotFeed` |
| `SnapshotJoin` | `rekey_snapshot_by_bus_id`, one turn of a loop per step | – |
| `TelemetryLink` | a WebSocket connection: FIFO, closed or broken, silently or not (external) | – |
| `TelemetryPublisher` | the serving end | `TelemetryLink` |
| `WsBackend` | the watching end, also alone against an arbitrary peer | `TelemetryLink`, implements `SnapshotFeed` |
| `RemoteStream` | both ends composed | the two above |
| `ViewLoop` | views, rotation, choke point, engine lifetime | – |
| `ResetWatch` | scan worker, reset tracking, takeover | – |
| `TrainFollow` | trainer search, attach/detach, log tailer | – |
| `TrainSteps` | what the Training view makes of a log, and the trainers that write it | – |
| `LivenessProber` | prober of runtimes and the scan around it | – |
| `InferenceMonitor` | worker, enumeration, fold of a tick | – |
| `HivemindEngine` | collectors, children, pipes, channel, `stop()` | – |
| `InsightsPanel` | process panel, kill dialog, `b`, `/remote`, `/serve` | – |
| `TerminalScreen` | the grid and one operator per escape sequence | – |
| `TermWindow` | program, terminal, reader thread and window | `TerminalScreen` |
| `DefragPhases` | the phases of the defrag view of one chip | – |
| other `MC*` | instances for TLC | the module each is named after |
| `MCLinkEnds` | each end of the link against any peer, in one run | `RemoteStream` |
| `MCParts` | eight parts that share no state, in one run | their modules |
| `MCViewTrain` | view loop and training follower, which share none either, in one run | `ViewLoop`, `MCTrainFollow` |
| `MCHastyAlarm` | the inference monitor beside a clock that says how long a server has not moved | `InferenceMonitor` |
| `PartsProofs` | theorems of the join, of the window and of a run's steps | `SnapshotJoin`, `TermWindow`, `TrainSteps` |
| `RemoteStreamProofs` | theorems of publisher, watcher and session | `RemoteStream` |
| `TimedPartsProofs` | theorems of the parts that measure time or count frames | `InferenceMonitor`, `LivenessProber`, `HivemindEngine`, `DefragPhases` |
| other `*Proofs` | theorems | the module each is named after |

A definition below a comment that begins "Mistake:" is a deliberate error of an
action or helper (a dropped guard, a swapped order). No specification uses
them; each is there so that a run can be shown to notice it (`mutants` in
`PROJECT.json`).

### How state and actions correspond to the code

**HybridBackend.** Every atomic load and store the other thread can see is a
step: the reader's `rpc` walks metadata, its stamp, SMBUS, its stamp, counter;
the renderer's `upc` walks the same slots in `update()`'s order. A payload is the
number of its poll; `docs` remembers what a poll contained (which devices have
SMBUS, metadata, static fields, power), chosen freely from `Docs`. Smoothing is
represented by the poll a value converges to; the set `ema` says which
accumulators exist. `clock` is the time stamps are compared with. `overlap` and
`stampedAt` are history variables: whether a publication ran into the current
update, and when a poll was stamped.

**SnapshotJoin.** `busToIndex`, `mapping`, `claimed` are the code's maps; the
two passes are two loops in ascending position.

**TelemetryPublisher / WsBackend / RemoteStream.** Frames are numbered in the
order of publication. A client task shakes hands, sends the frame there already
is, then waits and sends in turn; `seen` is what its watch receiver has marked as
seen, `got` what arrived. The reader's `rpc` separates storing a frame from
stepping the generation, and `update()` separates loading the generation from
cloning the frame. In `WsBackend` alone the peer is any peer that sends its
newest frame; in `RemoteStream` it is the publisher.

**ViewLoop.** One pass is `Tick` (per-view update, then rotation) or
`TickNotDue`, `ChokePoint` (compare with `drawn`, stop or start the engine,
reset the dwell, draw) and one input. Time is in units of five seconds, with the
code's dwell times. `shownFor` is a history variable.

**ResetWatch.** Processes have a pid, a command line and a launch number that
only the model knows. A scan reads pids one at a time (`ReadPid`) while
processes come and go, so its list is a mixture of moments. One pass of the loop
is `Draw` or `NoDraw`, `Input`, `TakeReply` or `NoReply`, `AskForScan` or
`NotYet`. `reported` and `reactions` are history variables.

**TrainFollow.** A process is the number of its launch, which is also its start
time. `Find` is `find_with_start` with the cache of `/proc/<pid>/maps` probes:
it stops at the first match of a list in any order. `Update` and `PollAttached`
are the two halves of `TrainWatch::update`; a process may end between them.
`Poll` is the Training view's own search and follow. A log is the number of
lines written and the number cut away, one file per run; `got` holds the lines ingested since the
run was attached. Lines are whole lines: partial writes and carriage returns are
text, left to the unit tests.

**TrainSteps.** The left half is the environment: a trainer of one of six kinds
(with or without a header, step times, absolute step lines, a bar per chunk or
one for the whole run) trains, saves, validates, crashes and starts again in the
same log. `ReadHeader` ... `ReadTime` are the arms of `apply_event`, `Ingest` is
`ingest_lines` and `Note` is `note_step_progress`; `LookAway` is a detach and a
new attach. Each line carries the position the run had when it was printed,
which only the properties read. Assumed of trainers: the first and the last
frame of every count are drawn; a chunk is two steps or more; validation lines
come where a checkpoint is saved; only the harness appends a run to a log. A
trainer whose bar says neither chunk nor base ("blind") shows the total of its
first chunk as the budget, so only the position is compared for it, and bars
without a base are left out of `OnlyTrainingIsTimed`.

**LivenessProber.** Seconds are the unit. `Scan` is one applied scan: it submits
the runtimes and reads back what is fresh. `Wake` drains the queue to the newest
set and checks the interval; `Answered` and `TimedOut` are probes in turn,
`Store` replaces the map. A probe that is not answered takes up to a second
(the code's limit is 250 ms). What it leaves in the map is `GivenUp`: nothing
when connecting timed out, an inactive verdict when reading did, because
`http_get_localhost` takes the time-out of a read for the end of the answer and judges what
it has (finding 5). A runtime that trickles its answer for up to two seconds is
left out. Each runtime has a label of its own. A verdict stays only if two
intervals and the hung runtimes' time-outs fit into the maximum age.

**InferenceMonitor.** `SubmitServers` is a scan, `Tick` one turn of the worker:
the servers handed over and the ones it enumerates, sampled and folded
(`FoldTick`) into the state published before (`RebuildSnapshot`). A kernel stands
for anything counted to see a server move. Every call of a sample can fail
(`lost`, out of the constant `Flaky`) and then reads as a zero or a no: docker
stats as no memory, `find` as no kernels, `ps` as no python, the health request as not
ready. After a lost stats or `find` the next good reading counts as growth and the
flat run starts again, so `stuck` counts from the last tick that missed the server
or one of these two; that failures which come back again and again put an alarm
off for ever is not excluded, and the code does so. A server that stops and starts
between two ticks looks like one that did neither. Ticks of a ready server count as
flat until it moves; a server that is down is alarmed like one that hangs, and a ready
one whose health request fails late in a flat run at once (finding 6).

**HivemindEngine.** Tenths of a second; what a thread can do it does before time
passes. `BeginStop` and `JoinNext` are `stop()` on the render thread: a flag, a
join, the next. A collector looks at its flag between naps; one that follows
containers or a command also has a child process and a thread that reads its
pipe. `try_send` is what keeps `stop()` from waiting for itself: while it joins
nothing drains the channel, which is dropped after the last join.
What is in an event, the ring, the feed and the grid are left out.

**InsightsPanel.** One iteration of the loop is `Top` (which may draw), a key or
`NoKey`, the outcome of the `/remote` worker (`Swap`, `Report`) or `NoOutcome`,
`UpdateBackend`, and `ApplyScan` or `NoScan`. `shown` is what the last drawn frame
showed; `shot`, the signal sent and how it came about, and `frame`, what was
broadcast, are those of the current iteration.

**TerminalScreen / TermWindow.** A screen is a record, a sequence an operator on
it. The window resizes the terminal and then the screen; the reader applies at
least one sequence per turn of the lock. The program either writes text and
any sequence, or redraws the way the terminal interface does, which is
what makes `DrawnIsShown` more than a statement about one operator. Colours and
attributes are left out.

**DefragPhases.** `Update` is one frame of one chip: the smoothed power, the
phase from last frame's phase and fills, the side effects of the transition, the
fills. Watts are whole, the average moves by a half instead of 0.08, and
`EvictDwell` is shortened with it; it stays longer than the average takes to
fall, as 120 frames are. How long a channel takes to fill or drain is open.
`running_since` and `saw_load` are kept in Running only, where they are read and
at whose entry they are set afresh. `rested`, `worked` and `rest_seen` are history.

## 3. Runs

All bounds are constants of the configurations; none is hidden in a module.

| Run | Question | Bounds, and why they are enough | States |
|---|---|---|---|
| `Hybrid` | every interleaving of publication and `update()`; refinement of `SnapshotFeed`; liveness | two cards (one can leave while one stays), two polls (an old and a new payload), five kinds of document, a clock that reaches expiry and beyond, an outage after one | 374,000 |
| `LinkEnds` | each end of the link against any peer; refinement of `SnapshotFeed`; liveness | two connections (a stalled one and one that must not notice), two frames, wire room for one so that a slow reader blocks, two publishers in turn; three cards with two admitted, every content of two frames, one reconnection | 173,000 |
| `Remote` | both ends over broken connections and a publisher restart | one card, two connections, two frames, two publishers | 213,000 |
| `ViewTrain` | one input at any time of a running rotation; following a run | *views:* all ten and the real dwell times; what the rotation does once it is left alone depends, from the next frame on, on the drawn view and its dwell only, and one input reaches all of those. *Training:* two pids, two Python processes (either may import `ttml`, or never), two log lines so that a log is cut and grows again, a negative probe retried at the second scan after it | 548,000 |
| `Reset` | resets against pid reuse, panics, keys, rotation, all four behaviours | two pids and two processes, so that a pid passes from a reset to a reset or to something else; one panicking scan | 382,000 |
| `Parts` | eight parts, one of them moving in each behaviour | see below | 1,830,000 |
| `TrainStaleTailer` | finding | two pids, compiled trainers and stdout that is not a file | – |
| `PanelTarget` | finding | one key | – |
| `ProbeTimeout` | finding | as the prober in `Parts` | – |
| `HastyAlarm` | finding | two servers the scan sees, two changes, an alarm after three ticks, no call that fails | – |
| `WrapHolds` | finding | as the engine in `Parts`, with processes that stay behind | – |
| `DefragGap` | finding | as the view in `Parts`, with telemetry that may be missing | – |

The parts of `Parts` share no variable, so nothing is lost by letting one of them move
while the others stand still:

* *the join*: three entries, three cards: two claimants for a card and a bystander;
* *step accounting*: eight steps in chunks of three, so that a chunk is whole, short, cut
  short by a crash and resumed; three launches; three lines unread, more than one
  turn of the tailer prints;
* *the prober*: two runtimes (a hung one delays the other), two changes; interval,
  age and cadence are 3, 8 and 2 to 3 seconds instead of 5, 12 and 2 or more, in
  the same order and with a maximum age that covers two intervals and the other
  runtime's time-outs;
* *the inference monitor*: two servers of which one is seen by the scan, two
  changes; scans come every 1 to 2 seconds, ticks every 2, an alarm after two
  ticks, for 2 seconds or more, 5 and 60 ticks. Of the calls docker stats fails,
  of any server in any tick; the theorems let every choice of calls fail;
* *the engine*: a polling collector, one that follows a container and one that
  wraps a command; a channel of two, so that it fills;
* *the window*: two columns or three, two rows, so that a line wraps, scrolls and
  is cut; parameters 0 to 3 reach past every edge. A resize changes the width
  only; the theorems are of every set of sizes;
* *the defrag view*: two powers at rest within the margin of each other, one at
  work above the margin only and one above the firmware limit's share too. One
  channel: channels meet only in "all full" and "all empty";
* *the panel*: two processes of which a list holds one, so that a list can change
  under the cursor, two boxes of which one is a fleet, the mock as the one local
  backend that starts, rotating views, three keys: one opens, one disturbs, one
  confirms. Two rows at a time are what `PanelTarget` needs; the theorems are of any number.

What they show, with the property that says it:

* *Hybrid.* After catching up the screen holds the last published payloads
  (`NoSnapshotLost`), all rows of one poll (`OneSnapshot`); nothing expired is
  left by an update no publication overlapped (`FreshUnlessOverlapped`); what is
  relayed is never behind what is shown (`RelayNotBehindScreen`); an outage
  clears the screen (`OutageClearsScreen`), `drop()` returns (`DropReturns`), and
  the backend implements `SnapshotFeed`, fairness included.
* *LinkEnds.* `CountIsExact` however a client task ends; `FramesInOrder`
  although the greeting and the notification can be about one frame;
  `NothingForgotten`; `NewestArrives` at every reading client whatever slow ones
  do; on the other end `ScreenIsOneFrame`, and the refinement of `SnapshotFeed`
  although store and counter are two steps.
* *Remote.* `Delivered`: what is published is shown, over reconnections.
* *ViewTrain.* `SweeperIsAlive`, `DwellIsKept`, `RotationShowsAll`; `LinesOnce`,
  `OneRun`, `FollowsTheTrainer`, `EndedIsDropped`.
* *Reset.* `DetectorGuardsTakeover`, `EndsAreReal`, `ReactedOnce`,
  `ResetIsNoticed`, `EndIsNoticed`.
* *Parts.* `RightCard`; `ProgressIsTheRuns` and `OnlyTrainingIsTimed`;
  `VerdictsAreTimely`; `HungIsAlarmed` and `FleetIsShown`;
  `StopIsBrief`, which also says that nothing outlives `stop()`; `GridIsWhole`
  and `DrawnIsShown`; `PhaseIsTrue`: a chip at rest reads idle and, once its
  rest was seen, a chip at work reads running; a confirmed kill was named on the
  screen (`ConfirmedOnScreen`), a cancelled or superseded connection never lands
  (`OnlyTheWantedConnects`), a broadcast frame describes one machine
  (`OneMachinePerFrame`).

`CHECK_DEADLOCK FALSE` stands where the modelled system really ends: the user
quits, the frames, keys and connections of the instance are used up. `Hybrid`,
`ViewTrain` and `Parts` are checked for deadlock; in the last two a loop the user
has quit stutters.

### Fairness

Weak fairness for a thread that is scheduled (the readers, the runtime's tasks,
the worker) and for the render loop, which never blocks. Strong fairness only
where the code offers a step again and again without it being enabled all the
time: a tick of the loop that is due once per interval, the request that is due
every two seconds, the result looked for once per pass, the accept that a
one-second timeout keeps interrupting, and a dial that is retried after every
backoff. `Hybrid` also assumes that a tt-smi run returns, without which
`DropReturns` fails: the reader is joined, and it waits in `output()`. In `ViewTrain`
each fairness condition of the two parts holds for the part that moves. Nothing is
assumed of users, networks, processes, logs or slow clients.

## 4. Findings

1. **TrainStaleTailer.** `TrainMonitor::attach` replaces the tailer only if the
   new run's log is a file, and `TrainWatch::update` attaches to another trainer
   without detaching. A trainer that writes to a pipe is then drawn with the
   lines of the run before it. (The Training view detaches first and is not
   affected.)
2. **PanelTarget.** `K` signals the row under the cursor of the list of the last
   scan. A scan may have been applied after the last frame was drawn, and the row
   that is highlighted is then another process.
3. **WrapHolds.** Killing a wrapped command does not close its pipe when a
   process it started still holds it: the reader stays in `read_line`, and
   `stop()`, on the render thread, waits for the reader.
4. **DefragGap.** A missing power reading is averaged in as 0 W. In the Idle
   phase the running minimum keeps what the average fell to: five frames
   without a reading take a third off it (0.92^5 = 0.66), which is the margin that
   marks a load. Nothing raises the minimum again while the chip rests, and the
   chip at rest is drawn as RUN until the next copy from the host or until the
   view is rebuilt.
5. **ProbeTimeout.** A comment promises that a probe that timed out yields no
   verdict, so that the server is not drawn as idle
   (`workload/liveness_probe.rs:22`). `http_get_localhost` breaks out of its read loop when a read
   times out and returns what it has, which `probe_once` judges like an answer: a
   runtime that accepts the connection and hangs is stored as inactive.
6. **HastyAlarm.** The alarm is documented as five minutes without progress
   (`workload/inference_server/state.rs:63`), and the code counts ticks, each as a
   cadence. A tick comes at once whenever the set of servers changed, so servers
   that come and go bring the alarm forward. The flat run goes on while a server
   is ready, too: one that stops being ready after a long time is alarmed by the
   first tick.

Seen while modelling, without a run of their own:

* Payload and stamp of `publish_snapshot` are two slots, so the freshness check
  can judge a payload by another one's stamp although a comment says it never
  does (`backend/hybrid.rs:417`); an expired row can be blended for one tick.
* The reader of `WsBackend` waits in `read.next()` without a timeout: a stream
  that stalls silently is relabelled and never left (`backend/ws.rs:534`).
* The rotation runs before the choke point in a pass. A sweeper opened by the
  last key can be left before it is drawn; the choke point then compares two
  other views and the collectors keep running (`ui/tui/mod.rs:1209`). The
  rotation can also move onto the sweeper below a running takeover.
* `~`, `t`, Esc, `~`: `t` stores the sweeper in the one `prev_mode` slot, so `~`
  and Esc then lead from the sweeper to the sweeper until another view key is
  pressed (`ui/tui/mod.rs:2028`).
* The Training view looks only whether the pid exists. If the pid passes to any
  other process it goes on showing the ended run; `EndedIsDropped` therefore asks
  of that view only that nothing at all runs, and of Arcade, which compares start
  times, that no trainer does.
* The table of denied pids is keyed by the pid alone and `attach` looks for the
  log once, so a trainer attached while its pid is still denied to an earlier
  process reads as not redirected for its whole run, although a comment says the
  sixty seconds bound how long a recycled pid is skipped
  (`workload/proc_access.rs:130`, `workload/train/monitor.rs:1308`).
* The help overlay hides the kill dialog, whose keys go on acting below it.
* `log_tail` follows a container once by its name: one that was restarted is not
  followed again (`collectors/log_tail.rs:299`).
* Progress made in a tick whose docker stats or `find` failed is seen with the next
  good reading only; the alarm can come between the two
  (`workload/inference_server/monitor.rs:236`).
* A feed that is polled after a gap of seven seconds puts the new events into
  its oldest bucket and shifts them out at once (`workload/hivemind/feed.rs:222`).
* `VerdictsAreTimely` needs a maximum age that covers two intervals and the time-outs
  of the hung runtimes; with more than four of them (at 250 ms each) a live one's
  verdict can come and go.
* In the defrag view the average passes 1.5 times the baseline, where Running
  becomes Idle, before it reaches 1.2 times, where it would evict: at the code's
  smoothing, power alone evicts only a chip that stays above the firmware
  limit's share or whose baseline is below 5.3 W. A copy
  that begins while the chip draws working power (a clock of 0 after an eviction,
  or with a channel that was trained late) takes that power for the baseline,
  and the chip reads idle at work until it rests; `WorkReadsRunning` asks for a
  rest seen since. A chip at rest whose clock is not reported reads DMA.
* `ESC M`, `ESC 8` and the sequences K, J, L, M and S leave a pending wrap in
  place, where a comment on `print` says escape sequences cancel it; `J 1` leaves
  the cursor's own row alone; a redraw read between the resize of the terminal
  and of the screen is cut, and not drawn again.

## 5. Proofs

Eight modules of theorems. Each follows one argument: a typed inductive invariant
`IInv`, `Init => IInv`, `IInv /\ [Next]_vars => IInv'` by one case per action,
`IInv => Inv`. The only assumptions are the named ones on the constants in the
module proved about, and the hypotheses stated below; no bound of a run is used.

* **HybridBackendProofs**, for every set of cards and documents and any number of
  polls. A caught-up renderer holds the last payloads because (`PollsFlow`) poll
  numbers only flow from the reader to the slots to the screen,
  (`StampsFollow`) a stamp lags its payload only between the two stores, and
  (`GenerationsFollow`) the counter is stepped after all stores.
  `FreshUnlessOverlapped` alone is not inductive: `FreshFollows` carries it
  through the steps of an update on which nothing has intruded.
  `ImplementsFeed` maps every step to a step of `SnapshotFeed` or a stutter.
* **PartsProofs**, of the join, for every document. `Linked` says mapping and
  claimed are one relation, `Justified` that no join made so far will have to be
  undone, `Progress` that nothing is left undone behind the loops; together they
  give `RightCard` at the end. Of the window, for every set of window sizes:
  `GridStaysWhole`, that no sequence with any parameter and no resize between two
  of them leaves a grid that is not rows by columns, or a cursor outside it. What
  is in a cell plays no part, so `Shaped` types a screen by its shape; one lemma
  per operator of `TerminalScreen` says that it keeps a screen shaped.
  And `WindowShowsWhatIsDrawn`, for texts of any length, whatever the wire may hold.
  For text (`TextInv`): the screen shows the last rows of the text's paper and the
  cursor is behind its last character, on it when a wrap is due. What the property
  computes from the whole text, lines and rows, is related to the step of the code
  by lemmas about one more character: it changes the last line (`LinesOfMore`), the
  rows of that line by a cell or a row (`RowsGrow`), and the paper at its end
  (`RowsGrowAtEnd`), and one lemma per operator says that the screen changes the
  same way (`InkIsShown`, `ReturnIsShown`, `FeedIsShown`). For a program that draws
  (`PictureInv`): behind each clear on the wire come all cells of its size, each
  where the one before leaves the cursor; once the clear for the screen's own size
  was read, every cell shows its glyph or is still to come before the next clear,
  and what comes fits the screen, so no wrap is ever due in the middle of a row.
  Of a run's steps, for every style of trainer, every chunk and length of a run and
  any number of launches and of unread lines: `Printed` says what an unread line
  tells of the position it was printed at, `Follows` which line can come behind
  which, and `Ready` that the reader is in step with what comes next, a line or,
  when all is read, the trainer itself. A line that is printed keeps the first two
  and a line that is read carries the third on, which is `ProgressIsTheRuns`. The
  cadence's anchor is set only while the optimizer was polled, is not ahead of the
  step and lies in its chunk (`CadenceOK`), hence `OnlyTrainingIsTimed`.
* **RemoteStreamProofs**, for any number of connections, frames, publishers and
  devices and buffers of any size. `CountIsExact` takes the change of a
  cardinality in each way a task begins or ends. `FramesInOrder` and
  `NothingForgotten` rest on `SendsNext`: a task that is about to send holds what
  it has marked as seen, and that is newer than all on its connection, although
  the greeting and the first notification can be about one frame. For the watcher,
  `NothingUnread`: a counter without news means that the stored frame was taken,
  unless the reader is between store and count. That the screen never goes back
  needs a peer that sends frames in order, over reconnections too
  (`ArrivalIInv`); `SessionIsAPublisher` shows that the publisher is one, so a
  session keeps both ends' promises and implements the safety of `SnapshotFeed`.
* **ViewLoopProofs**, for every first view and any number of keys.
  `SweeperIsAlive` speaks of drawn frames; `AliveWhileDrawn` says that the drawn
  view decides between frames too. `ClockIsHonest` says the rotation's clock is
  never ahead of the time a view was shown.
* **ResetWatchProofs**, for every set of pids and command lines and any number of
  processes and panics. The heart is `ScanHasReported`: because there is one scan
  at a time, a reset that was reported and still runs is in the list of every
  later scan, or has yet to be read. Hence none is reported twice
  (`OneReactionPerReset`) or declared ended too early (`NoEndIsMadeUp`).
* **TrainFollowProofs**, for any number of pids, processes and log lines. Everything
  counted since the attachment was read from the tailer's file (`ReadOneFile`) and
  lies before the place the next read starts from (`ReadBehind`): the offset or,
  once the file was cut below it, the start of the file. Hence `LinesOnce`, wherever
  a log is cut, and `OneRun`.
* **InsightsPanelProofs**, for every set of processes, requests, fleets and
  reachable backends and any number of keys, the panel's three properties of run `Parts`.
  `ListensToWanted` says that the one channel the loop reads is that of the last
  /remote not cancelled; `TypeNamesOrigin` that a backend whose type is not Remote
  is a local one, which needs that `b` stays among the local backends
  (`SwitchIsLocal`: the mock is always among the seven tried); `DrawnOrDue` that
  the screen shows the open dialog unless a frame is due before the next key.

* **TimedPartsProofs**, for any number of servers, runtimes and collectors. Each
  invariant says of a clock how much of a deadline what has happened has used up and
  how much what is still to come can use.
  *Inference monitor*: a server the scan lost is in the snapshot as long as its
  detection is in use (`ScanSaw`, `Leaves`); the flat ticks of a server that does
  not move grow with the time since it last moved or a tick last missed it or its
  stats or `find` (`FlatTicksCome`), and the alarm lasts as long (`AlarmLasts`), whence
  `HungIsAlarmed`, for every choice of calls that can fail. Assumed of the
  constants: an alarm takes a whole number of cadences, as 300 and 5 seconds do.
  *Prober*: `EntriesAreTrue` dates every verdict, an inactive one of a runtime that
  was given up included, `CyclesAreTimely` bounds the cycle that is running by the
  runtimes still to be probed. Assumed: `MaxAge` covers two intervals and the
  time-outs of all other runtimes, which the code's 12 seconds do for five runtimes
  of which four never answer (two intervals of 5 seconds, eight time-outs of 250
  ms); with more, or with one that trickles its answer for up to two seconds, a live
  runtime's verdict can lapse.
  *Engine*: `OnTime` adds up what `stop()` has spent, the nap of the collector it
  is joining and the cost of those that are left. `StopIsBrief` is proved from the
  hypothesis that no process outlives the command that started it, without which
  finding 3 refutes it; that nothing is left once `stop()` has returned
  (`StopLeavesNothing`) needs no hypothesis.
  *Defrag view*: after n frames at rest the average is above what the chip draws at
  rest by no more than a power halved n times (`RestIsNear`, and `WorkIsNear` below
  what it draws at work). The baseline is never below every power (`BaselineIsAmong`)
  and, once a rest was seen, not above it (`BaselineIsRest`), hence `PhaseIsTrue`.
  Assumed: powers at rest and at work are apart by the factor 1.5 of the code and
  rest is below 30 % of the firmware's limit, as its constants take for granted, and
  `Settled` is long enough for the average to follow (`Halvings`). That rest reads
  idle is proved from the hypothesis that telemetry does not go missing, without
  which finding 4 refutes it; that work reads running
  (`DefragWorkIsShown`) needs no hypothesis, since a gap only lowers the baseline.

Two CASE expressions had overlapping arms, for which TLC takes the first and TLA+ leaves the
choice open; the proofs could not do without the order, and the modules now say
which arm comes first (`ProbesAfter` of `TrainFollow`, `FoldTick` of
`InferenceMonitor`).

Only model-checked:

* all liveness, and the liveness part of the refinements: the prover has no rule
  for fairness over `ENABLED`. Every invariant and every action property that a
  passing run checks is stated by a theorem;
* what a recursive definition computes for every input where no theorem needs it:
  the library's induction theorems take an operator as a parameter, which no prover
  here can instantiate. Where a theorem does need it (`LinesOf`, `FlattenSeq`,
  `Halvings`), the induction is had from the fact that a set of numbers that is not
  empty has a least element (`LeastElement`, by the library's `WFMin`).

## 6. Not modelled

Drawing, layout, parsing and formatting; floating-point smoothing and decay
other than the defrag view's (which row is smoothed and when its accumulator
goes is modelled); sysfs, JSON, luwen, host and mock backends, which are
sequential reads (`sysfs.update()?` in `backend/hybrid.rs:646` could leave
`update()` early, but the sysfs backend's update returns no error); what probes,
containers and servers print; `backend_info`'s wording; configuration files,
checkpoint and host cost readings of a training run; loss and rate curves; the
Hivemind ring, feed and grid; the inference state classifier, a rolling window
over floating point; the model catalog, a value replaced once a day; the
`proc_access` table of denied pids; the other animations, which compute a
picture from a row and keep only phases of motion.

## 7. Plan

Done, in this order: `HybridBackend` with its abstract feed and proofs,
`SnapshotJoin` with proofs, the remote session, `ViewLoop` and `ResetWatch` with
proofs, `TrainFollow`, `TrainSteps`, `InsightsPanel` with proofs,
`LivenessProber`, `InferenceMonitor`, `HivemindEngine`, `TermWindow` with proofs,
`DefragPhases`; then the proofs of the remote session, of `TrainFollow`, of
`TrainSteps`, of the three parts that measure time, of what the window shows and of
`DefragPhases`.

Next, most important first:

1. The access guard in front of `TrainFollow`'s `DiscoverLog`: a log that cannot
   be read for the moment must be found later.
2. The Hivemind feed's buckets and the heat grid, and `ViewLoop`'s engine as the
   abstraction of `HivemindEngine`.
