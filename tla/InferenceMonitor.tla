-------------------------- MODULE InferenceMonitor --------------------------
(***************************************************************************)
(* The monitor of inference servers (workload/inference_server/monitor.rs, *)
(* state.rs): a worker that is handed the servers of each process scan,    *)
(* adds those it enumerates itself, samples each and folds the sample into *)
(* the state it published last.                                            *)
(*                                                                         *)
(* Time is in seconds and a step of the program takes none.  Kernels stand *)
(* for everything that is counted to see a server move; they stay on disk  *)
(* when a server ends.                                                     *)
(***************************************************************************)
EXTENDS Naturals, FiniteSets

CONSTANTS
  Server,         \* each with a key of its own
  Foreground,     \* those the process scan sees
  TickInterval,   \* also CADENCE_SECS
  AlarmAfter,     \* seconds without progress that raise the alarm
  ScanGap,        \* between two process scans
  LateScan,       \* and how late a slow one may be
  MaxKernels,     \* per server
  MaxEvents,      \* changes of the servers in a behaviour
  Flaky,          \* calls that can fail: docker stats, the execs of find and
                  \* ps, the health request
  Absent

ASSUME MonitorAssumption ==
  /\ Foreground \subseteq Server
  /\ {TickInterval, AlarmAfter, ScanGap, LateScan, MaxKernels, MaxEvents} \subseteq Nat
  /\ 0 < TickInterval /\ 0 < ScanGap /\ ScanGap <= LateScan
  /\ Flaky \subseteq {"stats", "find", "ps", "http"}
  \* 300 seconds and 5
  /\ AlarmAfter % TickInterval = 0
  /\ \A servers \in SUBSET Server : Absent # servers
  /\ Absent \notin [phase : {"Alarm", "Ready", "Down", "Compiling", "Loading"},
                    rss : {0, 1}, kernels : Nat, flat : Nat]

VARIABLES
  \* the servers
  container,      \* "gone", "empty" (no python in it), "busy" or "ready"
  kernels,
  events,
  \* the render loop
  scanAge,
  handed,         \* the set submitted and not yet received, or Absent
  \* the worker
  received,       \* the set of the last submission
  previous,       \* the set it last probed for (prev_sig)
  wait,           \* seconds in recv_timeout
  tickAge,        \* seconds since last_tick, long ago before the first
  states,         \* the snapshot: server -> state or Absent
  \* history
  stuck,          \* seconds a server is seen whole, not ready and does not move
  standing,       \* seconds it is there (+) ...
  missing         \* ... or is not

serverVars == <<container, kernels, events>>
monitorVars == <<received, previous, wait, tickAge, states>>
storyVars == <<stuck, standing, missing>>
inferenceVars == <<serverVars, scanAge, handed, monitorVars, storyVars>>

Alive(s) == container[s] \in {"busy", "ready"}

\* Seconds until a stopped server is out of the snapshot: a scan that still
\* shows it, the next one, and the rest of the interval.
ClearTime == 2 * LateScan + TickInterval
\* Until a server that does not move has raised the alarm: it is found, its
\* first whole tick moves, and then AlarmAfter in ticks, each at most two
\* waits apart.
AlarmTime == LateScan + 2 * (AlarmAfter + TickInterval)

InferenceInit ==
  /\ container \in [Server -> {"gone", "busy"}]
  /\ kernels = [s \in Server |-> 0]
  /\ events = 0
  /\ scanAge = 0
  /\ handed = Absent
  /\ received = {}
  /\ previous = {}
  /\ wait = 0
  /\ tickAge = TickInterval
  /\ states = [s \in Server |-> Absent]
  /\ stuck = [s \in Server |-> 0]
  /\ standing = [s \in Server |-> 0]
  /\ missing = [s \in Server |-> 0]

-----------------------------------------------------------------------------
(* The servers. *)

\* A server starts, gets ready, loses its python, stops.
Change(s) ==
  /\ events < MaxEvents
  /\ events' = events + 1
  /\ \E c \in {"gone", "empty", "busy", "ready"} \ {container[s]} :
       /\ container' = [container EXCEPT ![s] = c]
       /\ standing' = IF c = "gone" THEN [standing EXCEPT ![s] = 0] ELSE standing
       /\ missing' = IF c = "gone" THEN missing ELSE [missing EXCEPT ![s] = 0]
  /\ stuck' = [stuck EXCEPT ![s] = 0]
  /\ UNCHANGED <<kernels, scanAge, handed, monitorVars>>

\* A kernel is compiled or a shard of the weights is loaded.
Progress(s) ==
  /\ events < MaxEvents
  /\ events' = events + 1
  /\ Alive(s)
  /\ kernels[s] < MaxKernels
  /\ kernels' = [kernels EXCEPT ![s] = @ + 1]
  /\ stuck' = [stuck EXCEPT ![s] = 0]
  /\ UNCHANGED <<container, scanAge, handed, monitorVars, standing, missing>>

Present == {s \in Server : container[s] # "gone"}

\* A finished scan submits the servers it found a `docker run` of.
SubmitServers ==
  /\ scanAge >= ScanGap
  /\ scanAge' = 0
  /\ handed' = Present \cap Foreground
  /\ UNCHANGED <<serverVars, monitorVars, storyVars>>

-----------------------------------------------------------------------------
(* The fold of a tick. *)

\* A state nothing was observed of has NEVER_OBSERVED_KERNEL_COUNT kernels,
\* more than any server.
FreshState == [phase |-> "Down", rss |-> 0, kernels |-> MaxKernels + 1, flat |-> 0]

\* The calls that are lost "degrade to an empty string": a zero or a no.  Of a
\* server that is gone nothing is read.
Sample(s, lost) ==
  [alive   |-> Alive(s) /\ "ps" \notin lost,
   ready   |-> container[s] = "ready" /\ "http" \notin lost,
   rss     |-> IF Alive(s) /\ "stats" \notin lost THEN 1 ELSE 0,
   kernels |-> IF container[s] # "gone" /\ "find" \notin lost THEN kernels[s] ELSE 0]

FlatTicks(prev, moved) == IF moved THEN 0 ELSE prev.flat + 1

\* Mistake: the alarm is for a server that answers nothing at all.
AlarmWhenDown(flat, sample) ==
  ~sample.alive /\ flat * TickInterval >= AlarmAfter

IsAlarm(flat, sample) == ~sample.ready /\ flat * TickInterval >= AlarmAfter

\* Phase::derive and what fold_tick layers over it.
FoldTick(prev, sample) ==
  LET compiles == sample.kernels > prev.kernels
      grows    == sample.rss > prev.rss
      flat     == FlatTicks(prev, compiles \/ grows)
  IN  [phase   |-> IF IsAlarm(flat, sample) THEN "Alarm"
                   ELSE IF sample.ready THEN "Ready"
                   ELSE IF ~sample.alive THEN "Down"
                   ELSE IF compiles THEN "Compiling" ELSE "Loading",
       rss     |-> sample.rss,
       kernels |-> sample.kernels,
       flat    |-> IF flat * TickInterval > AlarmAfter THEN prev.flat ELSE flat]

\* The servers that stopped are not in the new snapshot.
RebuildSnapshot(all, lost) ==
  [s \in Server |->
     IF s \notin all THEN Absent
     ELSE FoldTick(IF states[s] = Absent THEN FreshState ELSE states[s], Sample(s, lost[s]))]

\* A tick that misses a server, or what moves of it, starts its wait again.
StuckOn(all, lost) ==
  [s \in Server |-> IF s \in all /\ lost[s] \cap {"stats", "find"} = {} THEN stuck[s] ELSE 0]

-----------------------------------------------------------------------------
(* The worker. *)

MonitorWakes == handed # Absent \/ wait = TickInterval

\* A set that differs from the one last probed for is probed at once.
DueNow(newest) == newest # previous \/ tickAge >= TickInterval

\* docker ps may fail; the process scan's servers are sampled all the same,
\* those that have stopped since as down.
Enumerated == {Present, {}}

\* Mistake: when no server is left the old snapshot is kept.
TickUnlessEmpty(newest) ==
  /\ DueNow(newest)
  /\ previous' = newest
  /\ tickAge' = 0
  /\ \E found \in Enumerated : \E lost \in [newest \cup found -> SUBSET Flaky] :
       /\ states' = IF newest \cup found = {} THEN states
                    ELSE RebuildSnapshot(newest \cup found, lost)
       /\ stuck' = StuckOn(newest \cup found, lost)

Tick(newest) ==
  /\ DueNow(newest)
  /\ previous' = newest
  /\ tickAge' = 0
  /\ \E found \in Enumerated : \E lost \in [newest \cup found -> SUBSET Flaky] :
       /\ states' = RebuildSnapshot(newest \cup found, lost)
       /\ stuck' = StuckOn(newest \cup found, lost)

MonitorWake ==
  /\ MonitorWakes
  /\ wait' = 0
  /\ handed' = Absent
  /\ received' = IF handed = Absent THEN received ELSE handed
  /\ \/ Tick(received')
     \/ /\ ~DueNow(received')
        /\ UNCHANGED <<previous, tickAge, states, stuck>>
  /\ UNCHANGED <<serverVars, scanAge, standing, missing>>

-----------------------------------------------------------------------------
UpTo(n, cap) == IF n < cap THEN n + 1 ELSE cap

SecondPasses ==
  /\ scanAge < LateScan
  /\ ~MonitorWakes
  /\ scanAge' = scanAge + 1
  /\ wait' = wait + 1
  /\ tickAge' = UpTo(tickAge, TickInterval)
  /\ stuck' = [s \in Server |-> IF container[s] = "busy" THEN UpTo(stuck[s], AlarmTime) ELSE 0]
  /\ standing' = [s \in Server |-> IF s \in Present THEN UpTo(standing[s], LateScan + 1) ELSE 0]
  /\ missing' = [s \in Server |-> IF s \in Present THEN 0 ELSE UpTo(missing[s], ClearTime)]
  /\ UNCHANGED <<serverVars, handed, received, previous, states>>

InferenceNext ==
  \/ SubmitServers \/ MonitorWake \/ SecondPasses
  \/ \E s \in Server : Change(s) \/ Progress(s)

InferenceSpec == InferenceInit /\ [][InferenceNext]_inferenceVars

-----------------------------------------------------------------------------
InAlarm(state) == state # Absent /\ state.phase = "Alarm"

\* A server that is up, not ready and does not move raises the alarm AlarmTime
\* after it last moved or a tick last missed it or a part of what moves,
\* however scans, ticks, changes of the other servers and failures of ps and
\* of the health probe fall.
HungIsAlarmed == \A s \in Server : stuck[s] = AlarmTime => InAlarm(states[s])

\* The snapshot follows the servers: one launched in the foreground is in it
\* with the next scan, "not up to TICK_INTERVAL later"; one that stopped is
\* out of it in time, the last of a fleet ("a fully-stopped fleet clears the
\* snapshot instead of leaving the last-known states cached forever") as well
\* as a single one.
FleetIsShown ==
  \A s \in Server :
    /\ s \in Foreground /\ standing[s] > LateScan => states[s] # Absent
    /\ missing[s] = ClearTime => states[s] = Absent
=============================================================================
