-------------------------- MODULE TimedPartsProofs --------------------------
(***************************************************************************)
(* The four parts that measure time (InferenceMonitor, LivenessProber,     *)
(* HivemindEngine, DefragPhases): that the monitor shows the fleet it was  *)
(* handed and alarms at a server that does not come up; that a verdict of the prober is neither forgotten nor kept for   *)
(* too long; that stopping the engine takes no longer than its collectors  *)
(* sleep and leaves nothing behind; and that a chip which has been at rest *)
(* or at work for long enough is shown so.                                 *)
(*                                                                         *)
(* Each invariant says of a clock how much of a deadline is used up by     *)
(* what has happened, and how much what is still to come can use.          *)
(***************************************************************************)
EXTENDS InferenceMonitor, LivenessProber, HivemindEngine, DefragPhases,
        FiniteSetTheorems, SequenceTheorems, WellFoundedInduction, TLAPS

-----------------------------------------------------------------------------
(***************************************************************************)
(* The monitor of inference servers.                                       *)
(***************************************************************************)
ServerState ==
  [phase : {"Alarm", "Ready", "Down", "Compiling", "Loading"},
   rss : {0, 1}, kernels : Nat, flat : Nat]

InferenceTypes ==
  /\ container \in [Server -> {"gone", "empty", "busy", "ready"}]
  /\ kernels \in [Server -> 0..MaxKernels]
  /\ scanAge \in 0..LateScan
  /\ handed \in (SUBSET Server) \cup {Absent}
  /\ received \in SUBSET Server
  /\ wait \in 0..TickInterval
  /\ tickAge \in 0..TickInterval
  /\ states \in [Server -> ServerState \cup {Absent}]
  /\ stuck \in [Server -> Nat]
  /\ standing \in [Server -> Nat] /\ missing \in [Server -> Nat]

\* A handed set is taken before a second passes, and a scan hands one over: the
\* wait is no longer than the last scan is ago.
Handed ==
  /\ handed = Absent => wait <= scanAge
  /\ handed # Absent => scanAge = 0 /\ \A s \in handed : missing[s] = 0

\* Whoever was in the set probed for last is in the snapshot.
ProbedAreShown == received = previous /\ \A s \in previous : states[s] # Absent

\* The counters run while what they count lasts.
Counters ==
  \A s \in Server :
    /\ standing[s] > 0 => container[s] # "gone"
    /\ missing[s] > 0 => container[s] = "gone"
    /\ stuck[s] > 0 => container[s] = "busy"

\* A server that stands for longer than the last scan is ago was seen by it.
ScanSaw ==
  \A s \in Foreground :
    /\ standing[s] > scanAge => s \in (IF handed = Absent THEN received ELSE handed)
    /\ standing[s] > LateScan => s \in received

\* A bound of the seconds since the last scan whose result was taken.
SinceScan == IF handed = Absent THEN scanAge ELSE LateScan

\* A stopped server is in the set until the next scan and in the snapshot until
\* the next tick.
Leaves ==
  \A s \in Server :
    IF s \in received THEN missing[s] <= SinceScan
    ELSE states[s] # Absent =>
           missing[s] <= IF tickAge < TickInterval THEN tickAge ELSE TickInterval + SinceScan

\* The seconds since the last tick: once one is due, it comes with the next
\* wake.
SinceTick == IF tickAge < TickInterval THEN tickAge ELSE TickInterval + wait

\* The last tick saw all of the server alive and it has not moved since.
SeenSo(s) ==
  /\ states[s] # Absent
  /\ states[s].rss = 1
  /\ states[s].kernels = kernels[s]

\* A server that does not move gets older by one flat tick at least every
\* 2 * TickInterval seconds, until it is in alarm and stays so.
FlatTicksCome ==
  \A s \in Server :
    \/ stuck[s] <= SinceTick
    \/ /\ SeenSo(s)
       /\ \/ InAlarm(states[s])
          \/ /\ states[s].flat * TickInterval < AlarmAfter
             /\ stuck[s] <= 2 * (states[s].flat * TickInterval) + 2 * TickInterval + SinceTick

AlarmLasts ==
  \A s \in Server :
    states[s] # Absent =>
      /\ states[s].kernels <= kernels[s]
      /\ InAlarm(states[s]) => (states[s].flat + 1) * TickInterval >= AlarmAfter

InferenceIInv ==
  /\ InferenceTypes
  /\ Handed
  /\ ProbedAreShown
  /\ Counters
  /\ ScanSaw
  /\ Leaves
  /\ FlatTicksCome
  /\ AlarmLasts

-----------------------------------------------------------------------------
LEMMA MonitorNumbers ==
  /\ TickInterval \in Nat /\ AlarmAfter \in Nat /\ ScanGap \in Nat /\ LateScan \in Nat
  /\ MaxKernels \in Nat
  /\ 0 < TickInterval /\ 0 < ScanGap /\ ScanGap <= LateScan
  BY MonitorAssumption

LEMMA AbsentIsNothing ==
  Absent \notin ServerState /\ \A servers \in SUBSET Server : Absent # servers
  BY MonitorAssumption DEF ServerState

\* What the products that count ticks in seconds obey.
LEMMA TickSeconds ==
  ASSUME NEW n \in Nat
  PROVE  /\ n * TickInterval \in Nat
         /\ (n + 1) * TickInterval = n * TickInterval + TickInterval
         /\ n * TickInterval < AlarmAfter => n * TickInterval + TickInterval <= AlarmAfter
<1> DEFINE k == AlarmAfter \div TickInterval
<1>1. k \in Nat /\ AlarmAfter = k * TickInterval
  <2>1. AlarmAfter % TickInterval = 0
    BY MonitorAssumption
  <2>2. QED
    BY <2>1, MonitorNumbers
<1> HIDE DEF k
<1>2. n * TickInterval \in Nat
  BY MonitorNumbers
<1>3. ASSUME NEW a \in Nat, NEW b \in Nat, NEW g \in Nat, a <= b
      PROVE  a * g <= b * g
  BY <1>3
<1>4. n * TickInterval < AlarmAfter => n * TickInterval + TickInterval <= AlarmAfter
  <2> SUFFICES ASSUME n * TickInterval < AlarmAfter
               PROVE  n * TickInterval + TickInterval <= AlarmAfter
    OBVIOUS
  <2>1. n + 1 <= k
    <3>1. CASE k <= n
      <4>1. k * TickInterval <= n * TickInterval
        BY <1>1, <1>3, <3>1, MonitorNumbers
      <4>2. QED
        BY <1>1, <1>2, <4>1, MonitorNumbers
    <3>2. QED
      BY <1>1, <3>1
  <2>2. (n + 1) * TickInterval <= k * TickInterval
    BY <1>1, <1>3, <2>1, MonitorNumbers
  <2>3. QED
    BY <1>1, <2>2, MonitorNumbers
<1>5. (n + 1) * TickInterval = n * TickInterval + TickInterval
  BY MonitorNumbers
<1>6. QED
  BY <1>2, <1>4, <1>5

\* One fold, field by field.
LEMMA FoldFacts ==
  ASSUME NEW prev \in ServerState, NEW sample, sample.rss \in {0, 1}, sample.kernels \in Nat
  PROVE  LET new  == FoldTick(prev, sample)
             flat == FlatTicks(prev, sample.kernels > prev.kernels \/ sample.rss > prev.rss)
         IN /\ new \in ServerState
            /\ new.rss = sample.rss
            /\ new.kernels = sample.kernels
            /\ flat \in Nat
            /\ new.phase = "Alarm" <=> (~sample.ready /\ flat * TickInterval >= AlarmAfter)
            /\ new.flat = IF flat * TickInterval > AlarmAfter THEN prev.flat ELSE flat
<1> DEFINE flat == FlatTicks(prev, sample.kernels > prev.kernels \/ sample.rss > prev.rss)
           kept == IF flat * TickInterval > AlarmAfter THEN prev.flat ELSE flat
           phase == IF IsAlarm(flat, sample) THEN "Alarm"
                    ELSE IF sample.ready THEN "Ready"
                    ELSE IF ~sample.alive THEN "Down"
                    ELSE IF sample.kernels > prev.kernels THEN "Compiling" ELSE "Loading"
<1>1. FoldTick(prev, sample) =
        [phase |-> phase, rss |-> sample.rss, kernels |-> sample.kernels, flat |-> kept]
  BY DEF FoldTick
<1>2. prev.flat \in Nat
  BY DEF ServerState
<1>3. flat \in Nat /\ kept \in Nat
  BY <1>2 DEF FlatTicks
<1>4. phase \in {"Alarm", "Ready", "Down", "Compiling", "Loading"}
  OBVIOUS
<1>5. phase = "Alarm" <=> (~sample.ready /\ flat * TickInterval >= AlarmAfter)
  BY DEF IsAlarm
<1> HIDE DEF phase, flat, kept
<1>6. FoldTick(prev, sample) \in ServerState
  BY <1>1, <1>3, <1>4 DEF ServerState
<1>7. QED
  BY <1>1, <1>3, <1>5, <1>6 DEF kept, flat

\* What a sample may be, of which the calls in lost failed.
LEMMA SampleFacts ==
  ASSUME InferenceTypes, NEW s \in Server, NEW lost
  PROVE  /\ Sample(s, lost).rss \in {0, 1}
         /\ Sample(s, lost).kernels \in Nat
         /\ Sample(s, lost).kernels <= kernels[s]
         /\ container[s] = "busy" /\ lost \cap {"stats", "find"} = {} =>
              /\ ~Sample(s, lost).ready
              /\ Sample(s, lost).rss = 1
              /\ Sample(s, lost).kernels = kernels[s]
<1>1. kernels[s] \in Nat
  BY MonitorNumbers DEF InferenceTypes
<1>2. lost \cap {"stats", "find"} = {} => "stats" \notin lost /\ "find" \notin lost
  OBVIOUS
<1>3. /\ Sample(s, lost).ready <=> container[s] = "ready" /\ "http" \notin lost
      /\ Sample(s, lost).rss = IF Alive(s) /\ "stats" \notin lost THEN 1 ELSE 0
      /\ Sample(s, lost).kernels =
           IF container[s] # "gone" /\ "find" \notin lost THEN kernels[s] ELSE 0
  BY DEF Sample
<1>4. container[s] = "busy" => Alive(s) /\ container[s] # "gone" /\ container[s] # "ready"
  BY DEF Alive
<1>5. QED
  BY <1>1, <1>2, <1>3, <1>4

\* The state a tick folds the sample into.
Before(s) == IF states[s] = Absent THEN FreshState ELSE states[s]

LEMMA BeforeFacts ==
  ASSUME InferenceIInv, NEW s \in Server
  PROVE  /\ Before(s) \in ServerState
         /\ SeenSo(s) => Before(s) = states[s]
         /\ ~SeenSo(s) => Before(s).rss = 0 \/ Before(s).kernels < kernels[s]
<1> USE DEF InferenceIInv
<1>1. Before(s) \in ServerState
  BY MonitorNumbers DEF Before, InferenceTypes, FreshState, ServerState
<1>2. CASE states[s] = Absent
  <2>1. Before(s) = FreshState /\ FreshState.rss = 0
    BY <1>2 DEF Before, FreshState
  <2>2. QED
    BY <1>1, <1>2, <2>1 DEF SeenSo
<1>3. CASE states[s] # Absent
  <2>1. /\ Before(s) = states[s] /\ states[s].rss \in {0, 1} /\ states[s].kernels \in Nat
        /\ kernels[s] \in Nat /\ states[s].kernels <= kernels[s]
    BY <1>1, <1>3, MonitorNumbers DEF Before, ServerState, AlarmLasts, InferenceTypes
  <2>2. QED
    BY <1>1, <1>3, <2>1 DEF SeenSo
<1>4. QED
  BY <1>1, <1>2, <1>3

\* A wake of the worker that ticks, for one server.
Ticks(s) ==
  \/ states'[s] = Absent /\ stuck'[s] = 0 /\ s \notin received'
  \/ /\ states'[s] # Absent
     /\ s \in received' \/ container[s] # "gone"
     /\ \E lost \in SUBSET Flaky :
          /\ stuck'[s] = IF lost \cap {"stats", "find"} = {} THEN stuck[s] ELSE 0
          /\ states'[s] = FoldTick(Before(s), Sample(s, lost))

LEMMA WakeCases ==
  ASSUME InferenceIInv, MonitorWake
  PROVE  /\ wait' = 0 /\ handed' = Absent /\ previous' = received'
         /\ received' = IF handed = Absent THEN received ELSE handed
         /\ UNCHANGED <<container, kernels, scanAge, standing, missing>>
         /\ handed = Absent => wait = TickInterval
         /\ \/ tickAge < TickInterval /\ received' = received /\ UNCHANGED <<tickAge, states, stuck>>
            \/ /\ tickAge' = 0
               /\ received' # received \/ tickAge = TickInterval
               /\ states' \in [Server -> ServerState \cup {Absent}]
               /\ stuck' \in [Server -> Nat]
               /\ \A s \in Server : Ticks(s)
<1>1. /\ wait' = 0 /\ handed' = Absent
      /\ received' = IF handed = Absent THEN received ELSE handed
      /\ UNCHANGED <<container, kernels, scanAge, standing, missing>>
      /\ handed = Absent => wait = TickInterval
      /\ received = previous
      /\ tickAge \in 0..TickInterval
  BY DEF MonitorWake, MonitorWakes, serverVars, InferenceIInv, InferenceTypes, ProbedAreShown
<1>2. CASE /\ ~DueNow(received')
           /\ UNCHANGED <<previous, tickAge, states, stuck>>
  BY <1>1, <1>2, MonitorNumbers DEF DueNow
<1>3. CASE Tick(received')
  <2>1. PICK seen \in Enumerated : \E lost \in [received' \cup seen -> SUBSET Flaky] :
          /\ states' = RebuildSnapshot(received' \cup seen, lost)
          /\ stuck' = StuckOn(received' \cup seen, lost)
    BY <1>3 DEF Tick
  <2>2. /\ previous' = received' /\ tickAge' = 0
        /\ received' # received \/ tickAge = TickInterval
    BY <1>1, <1>3, MonitorNumbers DEF Tick, DueNow
  <2> DEFINE all == received' \cup seen
  <2>3. PICK lost \in [all -> SUBSET Flaky] :
          states' = RebuildSnapshot(all, lost) /\ stuck' = StuckOn(all, lost)
    BY <2>1
  <2>4. \A s \in seen : container[s] # "gone"
    BY DEF Enumerated, Present
  <2>5. ASSUME NEW s \in Server
        PROVE  /\ states'[s] \in ServerState \cup {Absent} /\ stuck'[s] \in Nat
               /\ Ticks(s)
    <3>1. CASE s \notin all
      <4>1. states'[s] = Absent /\ stuck'[s] = 0
        BY <2>3, <3>1 DEF RebuildSnapshot, StuckOn
      <4>2. QED
        BY <3>1, <4>1 DEF Ticks
    <3>2. CASE s \in all
      <4>1. /\ states'[s] = FoldTick(Before(s), Sample(s, lost[s]))
            /\ stuck'[s] = IF lost[s] \cap {"stats", "find"} = {} THEN stuck[s] ELSE 0
            /\ lost[s] \in SUBSET Flaky
        BY <2>3, <3>2 DEF RebuildSnapshot, StuckOn, Before
      <4>2. FoldTick(Before(s), Sample(s, lost[s])) \in ServerState
        BY BeforeFacts, SampleFacts, FoldFacts DEF InferenceIInv
      <4>3. s \in received' \/ container[s] # "gone"
        BY <2>4, <3>2
      <4>4. Ticks(s)
        BY <4>1, <4>2, <4>3, AbsentIsNothing DEF Ticks
      <4>5. stuck'[s] \in Nat
        BY <4>1 DEF InferenceIInv, InferenceTypes
      <4>6. QED
        BY <4>1, <4>2, <4>4, <4>5
    <3>3. QED
      BY <3>1, <3>2
  <2>6. /\ states' = [s \in Server |-> states'[s]]
        /\ stuck' = [s \in Server |-> stuck'[s]]
    BY <2>3 DEF RebuildSnapshot, StuckOn
  <2>7. /\ states' \in [Server -> ServerState \cup {Absent}]
        /\ stuck' \in [Server -> Nat]
    BY <2>5, <2>6
  <2>8. QED
    BY <1>1, <2>2, <2>5, <2>7
<1>4. QED
  BY <1>2, <1>3 DEF MonitorWake

\* What any tick makes of a server that is in the snapshot after it.
LEMMA TickedState ==
  ASSUME InferenceIInv, NEW s \in Server, Ticks(s), states'[s] # Absent
  PROVE  /\ states'[s] \in ServerState
         /\ states'[s].kernels <= kernels[s]
         /\ InAlarm(states'[s]) => (states'[s].flat + 1) * TickInterval >= AlarmAfter
<1>1. PICK lost \in SUBSET Flaky : states'[s] = FoldTick(Before(s), Sample(s, lost))
  BY DEF Ticks
<1> DEFINE prev == Before(s)
           sample == Sample(s, lost)
           new == FoldTick(prev, sample)
           flat == FlatTicks(prev, sample.kernels > prev.kernels \/ sample.rss > prev.rss)
<1>2. prev \in ServerState
  BY BeforeFacts
<1>3. sample.rss \in {0, 1} /\ sample.kernels \in Nat /\ sample.kernels <= kernels[s]
  BY SampleFacts DEF InferenceIInv
<1>4. /\ new \in ServerState
      /\ new.kernels = sample.kernels
      /\ flat \in Nat
      /\ new.phase = "Alarm" => flat * TickInterval >= AlarmAfter
      /\ new.flat = IF flat * TickInterval > AlarmAfter THEN prev.flat ELSE flat
  BY <1>2, <1>3, FoldFacts
<1>5. flat = 0 \/ flat = prev.flat + 1
  BY DEF FlatTicks
<1>6. prev.flat \in Nat
  BY <1>2 DEF ServerState
<1> HIDE DEF prev, sample, new, flat
<1>7. ~(0 * TickInterval > AlarmAfter)
  BY MonitorNumbers
<1>8. new.phase = "Alarm" => (new.flat + 1) * TickInterval >= AlarmAfter
  <2> SUFFICES ASSUME flat * TickInterval >= AlarmAfter
               PROVE  (new.flat + 1) * TickInterval >= AlarmAfter
    BY <1>4
  <2>1. CASE flat * TickInterval > AlarmAfter
    <3>1. new.flat + 1 = flat
      BY <1>4, <1>5, <1>6, <1>7, <2>1
    <3>2. QED
      BY <2>1, <3>1, <1>4, MonitorNumbers
  <2>2. CASE ~(flat * TickInterval > AlarmAfter)
    <3>1. new.flat = flat
      BY <1>4, <2>2
    <3>2. (flat + 1) * TickInterval = flat * TickInterval + TickInterval /\ flat * TickInterval \in Nat
      BY <1>4, TickSeconds
    <3>3. QED
      BY <3>1, <3>2, MonitorNumbers
  <2>3. QED
    BY <2>1, <2>2
<1>9. states'[s] = new
  BY <1>1 DEF new, prev, sample
<1>10. QED
  BY <1>3, <1>4, <1>8, <1>9 DEF InAlarm

\* What a tick makes of a busy server whose wait goes on.
LEMMA WholeTick ==
  ASSUME InferenceIInv, NEW s \in Server, Ticks(s), states'[s] # Absent,
         container[s] = "busy", stuck'[s] # 0
  PROVE  LET count == IF SeenSo(s) THEN states[s].flat + 1 ELSE 0
         IN /\ states'[s] \in ServerState
            /\ states'[s].kernels = kernels[s] /\ states'[s].rss = 1
            /\ InAlarm(states'[s]) <=> count * TickInterval >= AlarmAfter
            /\ states'[s].flat = IF SeenSo(s) /\ count * TickInterval > AlarmAfter
                                 THEN states[s].flat ELSE count
            /\ count \in Nat
<1>1. PICK lost \in SUBSET Flaky :
        /\ lost \cap {"stats", "find"} = {}
        /\ states'[s] = FoldTick(Before(s), Sample(s, lost))
  BY DEF Ticks
<1> DEFINE prev == Before(s)
           sample == Sample(s, lost)
           new == FoldTick(prev, sample)
           flat == FlatTicks(prev, sample.kernels > prev.kernels \/ sample.rss > prev.rss)
           count == IF SeenSo(s) THEN states[s].flat + 1 ELSE 0
<1>2. /\ prev \in ServerState
      /\ SeenSo(s) => prev = states[s]
      /\ ~SeenSo(s) => prev.rss = 0 \/ prev.kernels < kernels[s]
  BY BeforeFacts
<1>3. ~sample.ready /\ sample.rss = 1 /\ sample.kernels = kernels[s] /\ sample.kernels \in Nat
  BY <1>1, SampleFacts DEF InferenceIInv
<1>4. /\ new \in ServerState
      /\ new.kernels = sample.kernels /\ new.rss = sample.rss
      /\ flat \in Nat
      /\ new.phase = "Alarm" <=> (~sample.ready /\ flat * TickInterval >= AlarmAfter)
      /\ new.flat = IF flat * TickInterval > AlarmAfter THEN prev.flat ELSE flat
  BY <1>2, <1>3, FoldFacts
<1>5. flat = count
  <2>1. prev.rss \in {0, 1} /\ prev.kernels \in Nat
    BY <1>2 DEF ServerState
  <2>2. (sample.kernels > prev.kernels \/ sample.rss > prev.rss) <=> ~SeenSo(s)
    <3>1. CASE SeenSo(s)
      <4>1. prev.rss = 1 /\ prev.kernels = kernels[s]
        BY <1>2, <3>1 DEF SeenSo
      <4>2. QED
        BY <1>3, <2>1, <3>1, <4>1
    <3>2. CASE ~SeenSo(s)
      BY <1>2, <1>3, <2>1, <3>2
    <3>3. QED
      BY <3>1, <3>2
  <2>3. QED
    BY <1>2, <2>2 DEF FlatTicks
<1>6. states'[s] = new
  BY <1>1
<1>7. ~(0 * TickInterval > AlarmAfter)
  BY MonitorNumbers
<1> HIDE DEF prev, sample, new, flat
<1>8. new.flat = IF SeenSo(s) /\ count * TickInterval > AlarmAfter THEN states[s].flat ELSE count
  BY <1>2, <1>4, <1>5, <1>7
<1>9. InAlarm(new) <=> count * TickInterval >= AlarmAfter
  <2>1. new # Absent
    BY <1>4, AbsentIsNothing
  <2>2. QED
    BY <1>3, <1>4, <1>5, <2>1 DEF InAlarm
<1>10. QED
  BY <1>3, <1>4, <1>5, <1>6, <1>8, <1>9

LEMMA InferenceInitEstablishes == InferenceInit => InferenceIInv
<1> SUFFICES ASSUME InferenceInit
             PROVE  InferenceIInv
  OBVIOUS
<1>1. InferenceTypes
  BY MonitorNumbers DEF InferenceInit, InferenceTypes
<1>2. Handed /\ ProbedAreShown /\ Counters /\ ScanSaw
  BY MonitorNumbers, MonitorAssumption
     DEF InferenceInit, Handed, ProbedAreShown, Counters, ScanSaw
<1>3. Leaves /\ FlatTicksCome /\ AlarmLasts
  BY MonitorNumbers
     DEF InferenceInit, Leaves, FlatTicksCome, AlarmLasts, SinceTick, SeenSo
<1>4. QED
  BY <1>1, <1>2, <1>3 DEF InferenceIInv

LEMMA ChangePreserves ==
  ASSUME InferenceIInv, NEW c \in Server, Change(c)
  PROVE  InferenceIInv'
<1> USE DEF InferenceIInv
<1>1. /\ UNCHANGED <<kernels, scanAge, handed, received, previous, wait, tickAge, states>>
      /\ stuck' = [stuck EXCEPT ![c] = 0]
  BY DEF Change, monitorVars
<1>2. PICK now \in {"gone", "empty", "busy", "ready"} :
        /\ now # container[c]
        /\ container' = [container EXCEPT ![c] = now]
        /\ standing' = IF now = "gone" THEN [standing EXCEPT ![c] = 0] ELSE standing
        /\ missing' = IF now = "gone" THEN missing ELSE [missing EXCEPT ![c] = 0]
  BY DEF Change
<1>3. InferenceTypes'
  BY <1>1, <1>2 DEF InferenceTypes
<1>4. \A s \in Server :
        /\ container'[s] = IF s = c THEN now ELSE container[s]
        /\ standing'[s] = IF s = c /\ now = "gone" THEN 0 ELSE standing[s]
        /\ missing'[s] = IF s = c /\ now # "gone" THEN 0 ELSE missing[s]
        /\ stuck'[s] = IF s = c THEN 0 ELSE stuck[s]
        /\ standing[s] \in Nat /\ missing[s] \in Nat /\ stuck[s] \in Nat
  BY <1>1, <1>2 DEF InferenceTypes
<1>5. Handed' /\ ProbedAreShown'
  BY <1>1, <1>4, AbsentIsNothing DEF Handed, ProbedAreShown, InferenceTypes
<1>6. Counters'
  BY <1>2, <1>4 DEF Counters
<1>7. ScanSaw'
  <2>1. Foreground \subseteq Server /\ scanAge \in Nat /\ LateScan \in Nat
    BY MonitorAssumption DEF InferenceTypes
  <2>2. QED
    BY <1>1, <1>4, <2>1 DEF ScanSaw
<1>8. Leaves'
  <2>1. /\ SinceScan' = SinceScan /\ SinceScan \in Nat
        /\ tickAge \in Nat /\ TickInterval \in Nat
    BY <1>1, MonitorNumbers DEF SinceScan, InferenceTypes
  <2>2. QED
    BY <1>1, <1>4, <2>1 DEF Leaves
<1>9. FlatTicksCome'
  <2>1. SinceTick' = SinceTick /\ SinceTick \in Nat
    BY <1>1, MonitorNumbers DEF SinceTick, InferenceTypes
  <2>2. \A s \in Server : SeenSo(s)' = SeenSo(s)
    BY <1>1 DEF SeenSo
  <2>3. QED
    BY <1>1, <1>4, <2>1, <2>2 DEF FlatTicksCome
<1>10. AlarmLasts'
  BY <1>1 DEF AlarmLasts
<1>11. QED
  BY <1>3, <1>5, <1>6, <1>7, <1>8, <1>9, <1>10

LEMMA ProgressPreserves ==
  ASSUME InferenceIInv, NEW c \in Server, Progress(c)
  PROVE  InferenceIInv'
<1> USE DEF InferenceIInv
<1>1. /\ UNCHANGED <<container, scanAge, handed, received, previous, wait, tickAge, states,
                    standing, missing>>
      /\ stuck' = [stuck EXCEPT ![c] = 0]
      /\ kernels' = [kernels EXCEPT ![c] = kernels[c] + 1] /\ kernels[c] < MaxKernels
  BY DEF Progress, monitorVars
<1>2. \A s \in Server :
        /\ kernels[s] \in Nat
        /\ kernels'[s] = IF s = c THEN kernels[s] + 1 ELSE kernels[s]
        /\ stuck'[s] = IF s = c THEN 0 ELSE stuck[s]
  BY <1>1, MonitorNumbers DEF InferenceTypes
<1>3. InferenceTypes'
  BY <1>1, MonitorNumbers DEF InferenceTypes
<1>4. Handed' /\ ProbedAreShown' /\ Counters' /\ ScanSaw'
  BY <1>1, <1>2 DEF Handed, ProbedAreShown, Counters, ScanSaw
<1>5. Leaves'
  BY <1>1 DEF Leaves, SinceScan
<1>6. \A s \in Server : states[s] # Absent => states[s].kernels \in Nat /\ states[s].kernels <= kernels[s]
  BY DEF InferenceTypes, ServerState, AlarmLasts
<1>7. AlarmLasts'
  <2> SUFFICES ASSUME NEW s \in Server, states[s] # Absent
               PROVE  /\ states[s].kernels <= kernels'[s]
                      /\ InAlarm(states[s]) => (states[s].flat + 1) * TickInterval >= AlarmAfter
    BY <1>1 DEF AlarmLasts
  <2>1. states[s].kernels <= kernels'[s]
    BY <1>2, <1>6
  <2>2. QED
    BY <2>1 DEF AlarmLasts
<1>9. \A s \in Server : s # c => SeenSo(s)' = SeenSo(s)
  BY <1>1, <1>2 DEF SeenSo
<1>10. FlatTicksCome'
  <2>1. SinceTick' = SinceTick /\ SinceTick \in Nat
    BY <1>1, MonitorNumbers DEF SinceTick, InferenceTypes
  <2>2. QED
    BY <1>1, <1>2, <1>9, <2>1 DEF FlatTicksCome
<1>11. QED
  BY <1>3, <1>4, <1>5, <1>7, <1>10

LEMMA SubmitPreserves ==
  ASSUME InferenceIInv, SubmitServers
  PROVE  InferenceIInv'
<1> USE DEF InferenceIInv
<1>1. /\ UNCHANGED <<container, kernels, received, previous, wait, tickAge, states,
                    stuck, standing, missing>>
      /\ scanAge >= ScanGap /\ scanAge' = 0 /\ handed' = Present \cap Foreground
  BY DEF SubmitServers, serverVars, monitorVars, storyVars
<1>2. handed' \subseteq Server /\ handed' # Absent /\ \A s \in handed' : container[s] # "gone"
  BY <1>1, AbsentIsNothing DEF Present
<1>3. /\ Foreground \subseteq Server /\ scanAge \in Nat /\ handed = Absent
      /\ \A s \in Server : standing[s] \in Nat /\ missing[s] \in Nat
  BY <1>1, MonitorNumbers, MonitorAssumption DEF InferenceTypes, Handed
<1>4. InferenceTypes'
  BY <1>1, <1>2, MonitorNumbers DEF InferenceTypes
<1>5. Handed'
  BY <1>1, <1>2, <1>3 DEF Handed, Counters
<1>6. ProbedAreShown' /\ Counters' /\ AlarmLasts'
  BY <1>1 DEF ProbedAreShown, Counters, AlarmLasts
<1>7. ScanSaw'
  <2> SUFFICES ASSUME NEW s \in Foreground, standing[s] > 0
               PROVE  s \in handed'
    BY <1>1, <1>2, <1>3 DEF ScanSaw
  <2>1. QED
    BY <1>1, <1>3 DEF Counters, Present
<1>8. Leaves'
  <2>1. SinceScan \in Nat /\ SinceScan' \in Nat /\ SinceScan <= SinceScan'
    BY <1>1, <1>2, <1>3, MonitorNumbers DEF SinceScan, InferenceTypes
  <2>2. tickAge \in Nat /\ TickInterval \in Nat
    BY MonitorNumbers DEF InferenceTypes
  <2>3. QED
    BY <1>1, <1>3, <2>1, <2>2 DEF Leaves
<1>9. \A s \in Server : SeenSo(s)' = SeenSo(s)
  BY <1>1 DEF SeenSo
<1>10. FlatTicksCome'
  BY <1>1, <1>9 DEF FlatTicksCome, SinceTick
<1>11. QED
  BY <1>4, <1>5, <1>6, <1>7, <1>8, <1>10

LEMMA SecondPreserves ==
  ASSUME InferenceIInv, SecondPasses
  PROVE  InferenceIInv'
<1> USE DEF InferenceIInv
<1>1. /\ UNCHANGED <<container, kernels, handed, received, previous, states>>
      /\ scanAge < LateScan /\ scanAge' = scanAge + 1
      /\ wait' = wait + 1 /\ tickAge' = UpTo(tickAge, TickInterval)
      /\ handed = Absent /\ wait # TickInterval
  BY DEF SecondPasses, MonitorWakes, serverVars
<1>2. \A s \in Server :
        /\ stuck'[s] = IF container[s] = "busy" THEN UpTo(stuck[s], AlarmTime) ELSE 0
        /\ standing'[s] = IF s \in Present THEN UpTo(standing[s], LateScan + 1) ELSE 0
        /\ missing'[s] = IF s \in Present THEN 0 ELSE UpTo(missing[s], ClearTime)
  BY DEF SecondPasses
<1>3. /\ scanAge \in Nat /\ tickAge \in Nat /\ wait \in Nat
      /\ tickAge <= TickInterval /\ wait < TickInterval
      /\ Foreground \subseteq Server /\ AlarmTime \in Nat /\ ClearTime \in Nat
  BY <1>1, MonitorNumbers, MonitorAssumption DEF InferenceTypes, AlarmTime, ClearTime
<1>4. \A s \in Server :
        /\ stuck[s] \in Nat /\ standing[s] \in Nat /\ missing[s] \in Nat
        /\ stuck'[s] \in Nat /\ stuck'[s] <= stuck[s] + 1
        /\ standing'[s] \in Nat /\ standing'[s] <= standing[s] + 1
        /\ missing'[s] \in Nat /\ missing'[s] <= missing[s] + 1
  BY <1>2, <1>3, MonitorNumbers DEF InferenceTypes, UpTo
<1>5. /\ tickAge' \in Nat /\ tickAge' <= TickInterval /\ tickAge' <= tickAge + 1
      /\ tickAge' = IF tickAge < TickInterval THEN tickAge + 1 ELSE TickInterval
  BY <1>1, <1>3, MonitorNumbers DEF UpTo
<1>6. InferenceTypes'
  <2>1. /\ scanAge' \in 0..LateScan /\ wait' \in 0..TickInterval /\ tickAge' \in 0..TickInterval
    BY <1>1, <1>3, <1>5, MonitorNumbers
  <2>2. /\ stuck' \in [Server -> Nat]
        /\ standing' \in [Server -> Nat] /\ missing' \in [Server -> Nat]
    <3>1. /\ stuck' = [s \in Server |-> stuck'[s]]
          /\ standing' = [s \in Server |-> standing'[s]]
          /\ missing' = [s \in Server |-> missing'[s]]
      BY DEF SecondPasses
    <3>2. QED
      BY <1>4, <3>1
  <2>3. QED
    BY <1>1, <2>1, <2>2 DEF InferenceTypes
<1>7. Handed'
  BY <1>1, <1>3 DEF Handed
<1>8. ProbedAreShown' /\ AlarmLasts'
  BY <1>1 DEF ProbedAreShown, AlarmLasts
<1>9. Counters'
  BY <1>1, <1>2 DEF Counters, Present
<1>10. ScanSaw'
  <2> SUFFICES ASSUME NEW s \in Foreground, standing'[s] > scanAge' \/ standing'[s] > LateScan
               PROVE  s \in received
    BY <1>1 DEF ScanSaw
  <2>1. s \in Server /\ standing[s] > scanAge
    BY <1>1, <1>3, <1>4, MonitorNumbers
  <2>2. QED
    BY <1>1, <2>1 DEF ScanSaw
<1>11. Leaves'
  <2>1. SinceScan = scanAge /\ SinceScan' = scanAge + 1
    BY <1>1 DEF SinceScan
  <2> SUFFICES ASSUME NEW s \in Server
               PROVE  IF s \in received THEN missing'[s] <= SinceScan'
                      ELSE states[s] # Absent =>
                             missing'[s] <= IF tickAge' < TickInterval THEN tickAge'
                                            ELSE TickInterval + SinceScan'
    BY <1>1 DEF Leaves
  <2>2. CASE s \in received
    BY <1>3, <1>4, <2>1, <2>2 DEF Leaves
  <2>3. CASE s \notin received /\ states[s] # Absent
    <3>1. missing[s] <= IF tickAge < TickInterval THEN tickAge ELSE TickInterval + scanAge
      BY <2>1, <2>3 DEF Leaves
    <3>2. QED
      BY <1>3, <1>4, <1>5, <2>1, <2>3, <3>1, MonitorNumbers
  <2>4. QED
    BY <2>2, <2>3
<1>12. \A s \in Server : SeenSo(s)' = SeenSo(s)
  BY <1>1 DEF SeenSo
<1>13. FlatTicksCome'
  <2>1. SinceTick \in Nat /\ SinceTick' \in Nat /\ SinceTick + 1 <= SinceTick'
    BY <1>1, <1>3, <1>5, MonitorNumbers DEF SinceTick
  <2> SUFFICES ASSUME NEW s \in Server, ~(stuck'[s] <= SinceTick')
               PROVE  /\ SeenSo(s)
                      /\ \/ InAlarm(states[s])
                         \/ /\ states[s].flat * TickInterval < AlarmAfter
                            /\ stuck'[s] <= 2 * (states[s].flat * TickInterval)
                                              + 2 * TickInterval + SinceTick'
    BY <1>1, <1>12 DEF FlatTicksCome
  <2>2. ~(stuck[s] <= SinceTick)
    BY <1>4, <2>1
  <2>3. SeenSo(s)
    BY <2>2 DEF FlatTicksCome
  <2>4. CASE InAlarm(states[s])
    BY <2>3, <2>4
  <2>5. CASE ~InAlarm(states[s])
    <3> DEFINE past == states[s].flat * TickInterval
    <3>1. past < AlarmAfter /\ stuck[s] <= 2 * past + 2 * TickInterval + SinceTick
      BY <2>2, <2>5 DEF FlatTicksCome
    <3>2. past \in Nat
      <4>1. states[s].flat \in Nat
        BY <2>3 DEF SeenSo, InferenceTypes, ServerState
      <4>2. QED
        BY <4>1, TickSeconds
    <3> HIDE DEF past
    <3>3. stuck'[s] <= 2 * past + 2 * TickInterval + SinceTick'
      BY <1>4, <2>1, <3>1, <3>2, MonitorNumbers
    <3>4. QED
      BY <2>3, <3>1, <3>3 DEF past
  <2>6. QED
    BY <2>4, <2>5
<1>14. QED
  BY <1>6, <1>7, <1>8, <1>9, <1>10, <1>11, <1>13

\* A wake that does not tick changes nothing that is counted.
LEMMA QuietWakePreserves ==
  ASSUME InferenceIInv, MonitorWake, tickAge < TickInterval, received' = received,
         UNCHANGED <<tickAge, states, stuck>>
  PROVE  InferenceIInv'
<1> USE DEF InferenceIInv
<1>1. /\ wait' = 0 /\ handed' = Absent /\ previous' = received'
      /\ received' = IF handed = Absent THEN received ELSE handed
      /\ UNCHANGED <<container, kernels, scanAge, standing, missing>>
  BY WakeCases
<1>2. /\ scanAge \in Nat /\ tickAge \in Nat /\ wait \in Nat
      /\ \A s \in Server : missing[s] \in Nat
  BY MonitorNumbers DEF InferenceTypes
<1>3. InferenceTypes' /\ Handed'
  BY <1>1, <1>2, MonitorNumbers DEF InferenceTypes, Handed
<1>4. ProbedAreShown' /\ Counters' /\ AlarmLasts' /\ ScanSaw'
  BY <1>1 DEF ProbedAreShown, Counters, AlarmLasts, ScanSaw
<1>5. Leaves'
  <2> SUFFICES ASSUME NEW s \in Server
               PROVE  IF s \in received THEN missing[s] <= scanAge
                      ELSE states[s] # Absent => missing[s] <= tickAge
    BY <1>1 DEF Leaves, SinceScan
  <2>1. CASE s \in received
    <3>1. CASE handed = Absent
      BY <2>1, <3>1 DEF Leaves, SinceScan
    <3>2. CASE handed # Absent
      BY <1>1, <1>2, <2>1, <3>2 DEF Handed
    <3>3. QED
      BY <3>1, <3>2
  <2>2. CASE s \notin received
    BY <2>2 DEF Leaves
  <2>3. QED
    BY <2>1, <2>2
<1>6. \A s \in Server : SeenSo(s)' = SeenSo(s)
  BY <1>1 DEF SeenSo
<1>7. FlatTicksCome'
  <2>1. SinceTick' = SinceTick
    BY DEF SinceTick
  <2>2. QED
    BY <1>6, <2>1 DEF FlatTicksCome
<1>8. QED
  BY <1>3, <1>4, <1>5, <1>7

\* A tick of the monitor keeps every part of the invariant.
LEMMA TickPreserves ==
  ASSUME InferenceIInv, MonitorWake, tickAge' = 0,
         received' # received \/ tickAge = TickInterval,
         states' \in [Server -> ServerState \cup {Absent}],
         stuck' \in [Server -> Nat],
         \A s \in Server : Ticks(s)
  PROVE  InferenceIInv'
<1> USE DEF InferenceIInv
<1>1. /\ wait' = 0 /\ handed' = Absent /\ previous' = received'
      /\ received' = IF handed = Absent THEN received ELSE handed
      /\ UNCHANGED <<container, kernels, scanAge, standing, missing>>
      /\ handed = Absent => wait = TickInterval
  BY WakeCases
<1>2. /\ scanAge \in Nat /\ tickAge \in Nat /\ wait \in Nat /\ scanAge <= LateScan
      /\ Foreground \subseteq Server /\ received' \subseteq Server
      /\ \A s \in Server : missing[s] \in Nat /\ stuck[s] \in Nat /\ standing[s] \in Nat
  BY <1>1, MonitorNumbers, MonitorAssumption DEF InferenceTypes
<1>3. \A s \in Server :
        /\ s \in received' => states'[s] # Absent
        /\ states'[s] # Absent /\ s \notin received' => container[s] # "gone"
        /\ stuck'[s] \in {stuck[s], 0}
        /\ states'[s] = Absent => stuck'[s] = 0
  BY DEF Ticks
<1>4. InferenceTypes' /\ Handed' /\ ProbedAreShown'
  BY <1>1, <1>2, <1>3, MonitorNumbers DEF InferenceTypes, Handed, ProbedAreShown
<1>5. Counters'
  BY <1>1, <1>2, <1>3 DEF Counters
<1>6. ScanSaw'
  <2> SUFFICES ASSUME NEW s \in Foreground, standing[s] > scanAge \/ standing[s] > LateScan
               PROVE  s \in received'
    BY <1>1 DEF ScanSaw
  <2>1. standing[s] > scanAge
    BY <1>2, MonitorNumbers
  <2>2. QED
    BY <1>1, <2>1 DEF ScanSaw
<1>7. Leaves'
  <2> SUFFICES ASSUME NEW s \in Server
               PROVE  IF s \in received' THEN missing[s] <= scanAge
                      ELSE states'[s] # Absent => missing[s] <= 0
    BY <1>1, MonitorNumbers DEF Leaves, SinceScan
  <2>1. CASE s \in received'
    <3>1. CASE handed = Absent
      BY <1>1, <2>1, <3>1 DEF Leaves, SinceScan
    <3>2. CASE handed # Absent
      BY <1>1, <1>2, <2>1, <3>2 DEF Handed
    <3>3. QED
      BY <3>1, <3>2
  <2>2. CASE s \notin received'
    BY <1>2, <1>3, <2>2 DEF Counters
  <2>3. QED
    BY <2>1, <2>2
<1>8. AlarmLasts'
  <2> SUFFICES ASSUME NEW s \in Server, states'[s] # Absent
               PROVE  /\ states'[s].kernels <= kernels[s]
                      /\ InAlarm(states'[s]) => (states'[s].flat + 1) * TickInterval >= AlarmAfter
    BY <1>1 DEF AlarmLasts, InAlarm
  <2>1. QED
    BY TickedState
<1>9. FlatTicksCome'
  <2>1. SinceTick' = 0 /\ SinceTick \in Nat /\ SinceTick <= 2 * TickInterval
    BY <1>1, <1>2, MonitorNumbers DEF SinceTick, InferenceTypes
  <2> SUFFICES ASSUME NEW s \in Server, ~(stuck'[s] <= SinceTick')
               PROVE  /\ SeenSo(s)'
                      /\ \/ InAlarm(states'[s])
                         \/ /\ states'[s].flat * TickInterval < AlarmAfter
                            /\ stuck'[s] <= 2 * (states'[s].flat * TickInterval)
                                              + 2 * TickInterval + SinceTick'
    BY DEF FlatTicksCome, InAlarm
  <2>0. stuck'[s] # 0
    BY <1>3, <2>1, <1>2
  <2>2. stuck'[s] = stuck[s] /\ states'[s] # Absent /\ container[s] = "busy"
    BY <1>2, <1>3, <2>0 DEF Counters
  <2> DEFINE count == IF SeenSo(s) THEN states[s].flat + 1 ELSE 0
  <2>3. /\ states'[s] \in ServerState
        /\ states'[s].kernels = kernels[s] /\ states'[s].rss = 1
        /\ InAlarm(states'[s]) <=> count * TickInterval >= AlarmAfter
        /\ states'[s].flat = IF SeenSo(s) /\ count * TickInterval > AlarmAfter
                             THEN states[s].flat ELSE count
        /\ count \in Nat
    BY <2>2, <2>0, WholeTick
  <2>4. SeenSo(s)'
    BY <1>1, <2>2, <2>3 DEF SeenSo
  <2>5. ASSUME ~InAlarm(states'[s])
        PROVE  /\ states'[s].flat * TickInterval < AlarmAfter
               /\ stuck[s] <= 2 * (states'[s].flat * TickInterval)
                                 + 2 * TickInterval + SinceTick'
    <3> HIDE DEF count
    <3>1. count * TickInterval < AlarmAfter /\ count * TickInterval \in Nat
      BY <2>3, <2>5, TickSeconds, MonitorNumbers
    <3>2. states'[s].flat = count
      BY <2>3, <3>1, MonitorNumbers
    <3>3. stuck[s] <= 2 * (count * TickInterval) + 2 * TickInterval + SinceTick'
      <4>1. CASE stuck[s] <= SinceTick
        BY <1>2, <2>1, <3>1, <4>1, MonitorNumbers
      <4>2. CASE ~(stuck[s] <= SinceTick)
        <5> DEFINE past == states[s].flat * TickInterval
        <5>1. SeenSo(s) /\ (InAlarm(states[s]) \/ stuck[s] <= 2 * past + 2 * TickInterval + SinceTick)
          BY <4>2 DEF FlatTicksCome
        <5>2. count = states[s].flat + 1 /\ states[s].flat \in Nat
          BY <5>1 DEF count, SeenSo, InferenceTypes, ServerState
        <5>3. ~InAlarm(states[s])
          BY <3>1, <5>1, <5>2, MonitorNumbers DEF AlarmLasts, SeenSo
        <5>4. count * TickInterval = past + TickInterval /\ past \in Nat
          BY <5>2, TickSeconds
        <5> HIDE DEF past
        <5>5. QED
          BY <1>2, <2>1, <5>1, <5>3, <5>4, MonitorNumbers
      <4>3. QED
        BY <4>1, <4>2
    <3>4. QED
      BY <3>1, <3>2, <3>3
  <2>6. QED
    BY <2>2, <2>4, <2>5
<1>10. QED
  BY <1>4, <1>5, <1>6, <1>7, <1>8, <1>9

LEMMA InferenceNextPreserves == InferenceIInv /\ [InferenceNext]_inferenceVars => InferenceIInv'
<1> SUFFICES ASSUME InferenceIInv, [InferenceNext]_inferenceVars
             PROVE  InferenceIInv'
  OBVIOUS
<1>1. CASE SubmitServers
  BY <1>1, SubmitPreserves
<1>2. CASE MonitorWake
  BY <1>2, WakeCases, QuietWakePreserves, TickPreserves
<1>3. CASE SecondPasses
  BY <1>3, SecondPreserves
<1>4. CASE \E s \in Server : Change(s) \/ Progress(s)
  BY <1>4, ChangePreserves, ProgressPreserves
<1>5. CASE UNCHANGED inferenceVars
  BY <1>5 DEF inferenceVars, serverVars, monitorVars, storyVars, InferenceIInv, InferenceTypes,
     Handed, ProbedAreShown, Counters, ScanSaw, Leaves, SinceScan, FlatTicksCome, SinceTick,
     SeenSo, AlarmLasts
<1>6. QED
  BY <1>1, <1>2, <1>3, <1>4, <1>5 DEF InferenceNext

LEMMA InferenceHolds == InferenceSpec => []InferenceIInv
  BY InferenceInitEstablishes, InferenceNextPreserves, PTL DEF InferenceSpec

\* The snapshot of InferenceServerMonitor follows the servers within ClearTime,
\* for any fleet and any cadence of scans and ticks.
THEOREM SnapshotFollowsFleet == InferenceSpec => []FleetIsShown
<1>1. ASSUME InferenceIInv
      PROVE  FleetIsShown
  <2> USE <1>1 DEF InferenceIInv
  <2>1. ASSUME NEW s \in Server, s \in Foreground, standing[s] > LateScan
        PROVE  states[s] # Absent
    BY <2>1 DEF ScanSaw, ProbedAreShown
  <2>2. ASSUME NEW s \in Server, missing[s] = ClearTime, states[s] # Absent
        PROVE  FALSE
    <3>1. /\ scanAge \in Nat /\ scanAge <= LateScan /\ tickAge \in Nat /\ tickAge <= TickInterval
          /\ missing[s] \in Nat
      BY MonitorNumbers DEF InferenceTypes
    <3>2. SinceScan \in Nat /\ SinceScan <= LateScan
      BY <3>1, MonitorNumbers DEF SinceScan
    <3>3. missing[s] <= TickInterval + LateScan
      BY <2>2, <3>1, <3>2, MonitorNumbers DEF Leaves
    <3>4. QED
      BY <2>2, <3>1, <3>3, MonitorNumbers DEF ClearTime
  <2>3. QED
    BY <2>1, <2>2 DEF FleetIsShown
<1>2. QED
  BY <1>1, InferenceHolds, PTL

\* A server that hangs while it loads raises the alarm of fold_tick within
\* AlarmTime, for any fleet and however its scans and ticks fall.
THEOREM HungServerIsAlarmed == InferenceSpec => []HungIsAlarmed
<1>1. ASSUME InferenceIInv
      PROVE  HungIsAlarmed
  <2> USE <1>1 DEF InferenceIInv
  <2> SUFFICES ASSUME NEW s \in Server, stuck[s] = AlarmTime, ~InAlarm(states[s])
               PROVE  FALSE
    BY DEF HungIsAlarmed
  <2>1. SinceTick \in Nat /\ SinceTick <= 2 * TickInterval
    BY MonitorNumbers DEF SinceTick, InferenceTypes
  <2>2. CASE stuck[s] <= SinceTick
    BY <2>1, <2>2, MonitorNumbers DEF AlarmTime
  <2>3. CASE ~(stuck[s] <= SinceTick)
    <3> DEFINE past == states[s].flat * TickInterval
    <3>1. /\ SeenSo(s) /\ past < AlarmAfter
          /\ stuck[s] <= 2 * past + 2 * TickInterval + SinceTick
      BY <2>3 DEF FlatTicksCome
    <3>2. states[s].flat \in Nat
      BY <3>1 DEF SeenSo, InferenceTypes, ServerState
    <3>3. past \in Nat /\ past + TickInterval <= AlarmAfter
      BY <3>1, <3>2, TickSeconds
    <3> HIDE DEF past
    <3>4. QED
      BY <2>1, <3>1, <3>3, MonitorNumbers DEF AlarmTime
  <2>4. QED
    BY <2>2, <2>3
<1>2. QED
  BY <1>1, InferenceHolds, PTL

-----------------------------------------------------------------------------
(***************************************************************************)
(* The liveness prober.                                                    *)
(***************************************************************************)
Entry == [active : BOOLEAN, age : 0..(MaxAge + 1)]

ProberTypes ==
  /\ health \in [Runtime -> {"absent", "loaded", "idle", "hung"}]
  /\ sinceScan \in 0..ScanLate
  /\ submitted \in Seq(SUBSET Runtime)
  /\ waited \in 0..ProbeInterval
  /\ sinceProbe \in (0..ProbeInterval) \cup {Never}
  /\ detected \in SUBSET Runtime
  /\ asking \in (SUBSET Runtime) \cup {Never}
  /\ found \in [Runtime -> Entry \cup {Never}]
  /\ cache \in [Runtime -> Entry \cup {Never}]
  /\ unloaded \in [Runtime -> Nat]
  /\ settled \in [Runtime -> Nat]

\* A submission ends the wait of the worker, which does not wait in a cycle.
Waits ==
  /\ waited <= ScanLate
  /\ submitted = <<>> => waited <= sinceScan
  /\ ~Waiting => waited = 0
  /\ \A r \in Runtime : settled[r] > 0 => health[r] = "loaded"

\* An entry says of its runtime what was so when it was asked.
EntriesAreTrue ==
  \A r \in Runtime :
    /\ health[r] = "loaded" => unloaded[r] = 0
    /\ cache[r] # Never /\ cache[r].active = TRUE => unloaded[r] <= cache[r].age
    /\ found[r] # Never /\ found[r].active = TRUE => unloaded[r] <= found[r].age

\* A runtime that is loaded for longer than the last scan is ago is in the set
\* the worker has, or will take next.
ScanKnows == \A r \in Runtime : settled[r] > sinceScan => r \in Latest(submitted)

\* Seconds since the last cycle, as far as they are bounded.
SinceCycle ==
  IF sinceProbe = Never THEN waited
  ELSE IF sinceProbe < ProbeInterval THEN sinceProbe ELSE ProbeInterval + waited

Runtimes == Cardinality(Runtime)
Unasked == Cardinality(asking)

Active(entry, oldest) == entry # Never /\ entry.active = TRUE /\ entry.age <= oldest

\* Asked in this cycle, which has taken a second at most for every other one.
AskedNow(r) == Active(found[r], Runtimes - 1 - Unasked)

\* The latest a cycle starts that asks a runtime loaded for so long.
CycleStarts == 2 * ScanLate + Runtimes + ProbeInterval

\* How long a runtime may be loaded and not be shown, by what is still to come:
\* the end of a cycle without it, the wait for the next one, its end.
Settles(r) ==
  IF Waiting THEN settled[r] <= ScanLate + Runtimes + SinceCycle
  ELSE IF r \in asking THEN settled[r] <= CycleStarts
  ELSE IF AskedNow(r) THEN settled[r] <= CycleStarts + (Runtimes - 1 - Unasked)
  ELSE settled[r] <= ScanLate + Runtimes - Unasked

\* How old what is shown of it may be, likewise.
Shown(r) ==
  IF Waiting THEN Active(cache[r], Runtimes - 1 + SinceCycle)
  ELSE IF r \in asking THEN Active(cache[r], Runtimes - 1 + 2 * ProbeInterval)
  ELSE /\ AskedNow(r)
       /\ Active(cache[r], 2 * (Runtimes - 1) + 2 * ProbeInterval - Unasked)

CyclesAreTimely ==
  \A r \in Runtime : settled[r] <= sinceScan \/ Settles(r) \/ Shown(r)

ProberIInv ==
  /\ ProberTypes
  /\ Waits
  /\ EntriesAreTrue
  /\ ScanKnows
  /\ CyclesAreTimely

-----------------------------------------------------------------------------
LEMMA ProberNumbers ==
  /\ ProbeInterval \in Nat /\ MaxAge \in Nat /\ ScanEvery \in Nat /\ ScanLate \in Nat
  /\ ScanEvery > 0 /\ ScanEvery <= ScanLate /\ ProbeInterval > 0
  /\ Runtimes \in Nat /\ 2 * ProbeInterval + 2 * (Runtimes - 1) <= MaxAge
  /\ \A r \in Runtime : Runtimes > 0
<1>1. IsFiniteSet(Runtime)
  BY ProberAssumption
<1>2. Runtimes \in Nat /\ (Runtimes = 0 <=> Runtime = {})
  BY <1>1, FS_CardinalityType, FS_EmptySet DEF Runtimes
<1>3. QED
  BY <1>2, ProberAssumption DEF Runtimes

LEMMA NeverIsNothing ==
  Never \notin Entry /\ Never \notin Nat /\ \A runtimes \in SUBSET Runtime : Never # runtimes
  BY ProberAssumption DEF Entry

\* How many a cycle has still to ask.
LEMMA Asking ==
  ASSUME ProberTypes, ~Waiting
  PROVE  /\ asking \in SUBSET Runtime /\ Unasked \in Nat /\ Unasked <= Runtimes
         /\ \A r \in Runtime : r \notin asking => Unasked <= Runtimes - 1
         /\ \A r \in asking : /\ Cardinality(asking \ {r}) = Unasked - 1
                              /\ Unasked > 0
         /\ asking = {} => Unasked = 0
<1>1. asking \in SUBSET Runtime /\ IsFiniteSet(Runtime)
  BY ProberAssumption DEF ProberTypes, Waiting
<1>2. IsFiniteSet(asking) /\ Unasked \in Nat /\ Unasked <= Runtimes
  BY <1>1, FS_Subset, FS_CardinalityType DEF Unasked, Runtimes
<1>3. ASSUME NEW r \in Runtime, r \notin asking
      PROVE  Unasked <= Runtimes - 1
  <2>1. asking \subseteq Runtime \ {r}
    BY <1>1, <1>3
  <2>2. /\ IsFiniteSet(Runtime \ {r})
        /\ Cardinality(Runtime \ {r}) = Cardinality(Runtime) - 1
    BY <1>1, FS_RemoveElement
  <2>3. QED
    BY <2>1, <2>2, FS_Subset DEF Unasked, Runtimes
<1>4. ASSUME NEW r \in asking
      PROVE  Cardinality(asking \ {r}) = Unasked - 1 /\ Unasked > 0
  <2>1. Cardinality(asking \ {r}) = Unasked - 1
    BY <1>2, FS_RemoveElement DEF Unasked
  <2>2. Cardinality(asking \ {r}) \in Nat
    BY <1>2, FS_RemoveElement, FS_CardinalityType
  <2>3. QED
    BY <1>2, <2>1, <2>2
<1>5. asking = {} => Unasked = 0
  BY FS_EmptySet DEF Unasked
<1>6. QED
  BY <1>1, <1>2, <1>3, <1>4, <1>5

LEMMA ProberInitEstablishes == ProberInit => ProberIInv
<1> SUFFICES ASSUME ProberInit
             PROVE  ProberIInv
  OBVIOUS
<1> USE DEF ProberInit
<1>1. ProberTypes
  <2>1. submitted \in Seq(SUBSET Runtime)
    BY EmptySeq
  <2>2. \A r \in Runtime : unloaded[r] \in Nat
    BY ProberNumbers
  <2>3. QED
    BY <2>1, <2>2, ProberNumbers DEF ProberTypes, NoVerdict
<1>2. Waits /\ EntriesAreTrue /\ ScanKnows /\ CyclesAreTimely
  BY ProberNumbers DEF Waits, EntriesAreTrue, ScanKnows, CyclesAreTimely, NoVerdict
<1>3. QED
  BY <1>1, <1>2 DEF ProberIInv

\* What the invariant says of a runtime depends on nothing a change of another
\* runtime touches.
LEMMA TurnPreserves ==
  ASSUME ProberIInv, NEW q \in Runtime, Turn(q)
  PROVE  ProberIInv'
<1> USE DEF ProberIInv
<1>1. UNCHANGED <<sinceScan, submitted, waited, sinceProbe, detected, asking, found, cache>>
  BY DEF Turn, loopVars, workerVars
<1>2. PICK h \in {"absent", "loaded", "idle", "hung"} :
        /\ health' = [health EXCEPT ![q] = h]
        /\ settled' = [settled EXCEPT ![q] = 0]
        /\ unloaded' = IF h = "loaded" THEN [unloaded EXCEPT ![q] = 0] ELSE unloaded
  BY DEF Turn
<1>3. ProberTypes'
  BY <1>1, <1>2 DEF ProberTypes
<1>4. \A r \in Runtime :
        /\ settled'[r] = IF r = q THEN 0 ELSE settled[r]
        /\ unloaded'[r] = 0 \/ unloaded'[r] = unloaded[r]
        /\ r # q => health'[r] = health[r]
  BY <1>2 DEF ProberTypes
<1>5. Waits'
  BY <1>1, <1>4 DEF Waits, Waiting
<1>6. EntriesAreTrue'
  <2>3. \A r \in Runtime : health'[r] = "loaded" =>
          unloaded'[r] = 0 \/ (health[r] = "loaded" /\ unloaded'[r] = unloaded[r])
    BY <1>2 DEF ProberTypes
  <2>1. \A r \in Runtime : /\ cache[r] # Never => cache[r].age \in Nat
                           /\ found[r] # Never => found[r].age \in Nat
    BY ProberNumbers DEF ProberTypes, Entry
  <2>2. QED
    BY <1>1, <1>4, <2>1, <2>3 DEF EntriesAreTrue
<1>7. sinceScan \in Nat
  BY ProberNumbers DEF ProberTypes
<1>8. ScanKnows'
  BY <1>1, <1>4, <1>7 DEF ScanKnows, Latest
<1>9. CyclesAreTimely'
  <2> SUFFICES ASSUME NEW r \in Runtime, r # q
               PROVE  (settled[r] <= sinceScan \/ Settles(r) \/ Shown(r))'
    BY <1>1, <1>4, <1>7 DEF CyclesAreTimely
  <2>1. Settles(r)' = Settles(r) /\ Shown(r)' = Shown(r)
    BY <1>1, <1>4 DEF Settles, Shown, Waiting, SinceCycle, AskedNow, Unasked
  <2>2. QED
    BY <1>1, <1>4, <2>1 DEF CyclesAreTimely
<1>10. QED
  BY <1>3, <1>5, <1>6, <1>8, <1>9

LEMMA ScanPreserves ==
  ASSUME ProberIInv, Scan
  PROVE  ProberIInv'
<1> USE DEF ProberIInv
<1> DEFINE seen == {r \in Runtime : health[r] # "absent"}
<1>1. /\ UNCHANGED <<health, waited, sinceProbe, detected, asking, found, cache, unloaded, settled>>
      /\ sinceScan' = 0 /\ submitted' = Append(submitted, seen)
  BY DEF Scan, workerVars
<1>2. seen \in SUBSET Runtime /\ submitted \in Seq(SUBSET Runtime)
  BY DEF ProberTypes
<1> HIDE DEF seen
<1>3. /\ submitted' \in Seq(SUBSET Runtime) /\ submitted' # <<>>
      /\ submitted'[Len(submitted')] = seen
  BY <1>1, <1>2, AppendProperties
<1>4. Latest(submitted)' = seen
  BY <1>3 DEF Latest
<1>5. ProberTypes'
  BY <1>1, <1>3, ProberNumbers DEF ProberTypes
<1>6. Waits' /\ EntriesAreTrue'
  BY <1>1, <1>3, ProberNumbers DEF Waits, Waiting, EntriesAreTrue, ProberTypes
<1>7. \A r \in Runtime : settled[r] \in Nat /\ (settled[r] > 0 => r \in seen)
  BY DEF ProberTypes, Waits, seen
<1>8. ScanKnows'
  BY <1>1, <1>4, <1>7 DEF ScanKnows
<1>9. CyclesAreTimely'
  <2> SUFFICES ASSUME NEW r \in Runtime
               PROVE  Settles(r)' \/ Shown(r)'
    BY DEF CyclesAreTimely
  <2>1. Settles(r)' = Settles(r) /\ Shown(r)' = Shown(r)
    BY <1>1 DEF Settles, Shown, Waiting, SinceCycle, AskedNow, Unasked
  <2>2. CASE settled[r] <= sinceScan
    <3>1. settled[r] <= ScanLate
      <4>1. sinceScan \in Nat /\ sinceScan <= ScanLate /\ ScanLate \in Nat
        BY ProberNumbers DEF ProberTypes
      <4>2. QED
        BY <1>7, <2>2, <4>1
    <3>2. SinceCycle \in Nat
      BY ProberNumbers DEF SinceCycle, ProberTypes
    <3>3. CASE Waiting
      BY <1>7, <2>1, <3>1, <3>2, <3>3, ProberNumbers DEF Settles
    <3>4. CASE ~Waiting
      <4>1. /\ Unasked \in Nat /\ Unasked <= Runtimes
            /\ r \notin asking => Unasked <= Runtimes - 1
        BY <3>4, Asking
      <4>2. QED
        BY <1>7, <2>1, <3>1, <3>4, <4>1, ProberNumbers DEF Settles, CycleStarts
    <3>5. QED
      BY <3>3, <3>4
  <2>3. CASE ~(settled[r] <= sinceScan)
    BY <2>1, <2>3 DEF CyclesAreTimely
  <2>4. QED
    BY <2>2, <2>3
<1>10. QED
  BY <1>5, <1>6, <1>8, <1>9

LEMMA WakePreserves ==
  ASSUME ProberIInv, Wake
  PROVE  ProberIInv'
<1> USE DEF ProberIInv
<1>1. /\ UNCHANGED <<health, sinceScan, sinceProbe, cache, unloaded, settled>>
      /\ detected' = Latest(submitted) /\ submitted' = <<>> /\ waited' = 0
      /\ found' = NoVerdict /\ asking = Never
      /\ asking' = IF detected' # {} /\ Due THEN detected' ELSE Never
  BY DEF Wake, Wakes, Waiting
<1>2. Latest(submitted) \in SUBSET Runtime
  BY LenProperties DEF Latest, ProberTypes
<1>3. Latest(submitted)' = Latest(submitted)
  BY <1>1 DEF Latest
<1>4. submitted' \in Seq(SUBSET Runtime)
  BY <1>1, EmptySeq
<1>5. ProberTypes'
  BY <1>1, <1>2, <1>4, ProberNumbers DEF ProberTypes, NoVerdict
<1>6. Waits'
  BY <1>1, ProberNumbers DEF Waits, ProberTypes
<1>7. EntriesAreTrue'
  BY <1>1 DEF EntriesAreTrue, NoVerdict
<1>8. ScanKnows'
  BY <1>1, <1>3 DEF ScanKnows
<1>9. CyclesAreTimely'
  <2> SUFFICES ASSUME NEW r \in Runtime, ~(settled[r] <= sinceScan)
               PROVE  Settles(r)' \/ Shown(r)'
    BY <1>1 DEF CyclesAreTimely
  <2>1. settled[r] \in Nat /\ sinceScan \in Nat /\ waited \in Nat
        /\ waited <= ScanLate /\ waited <= ProbeInterval
    BY ProberNumbers DEF ProberTypes, Waits
  <2>2. r \in detected'
    BY <1>1, <2>1 DEF ScanKnows
  <2>3. \/ settled[r] <= ScanLate + Runtimes + SinceCycle
        \/ Active(cache[r], Runtimes - 1 + SinceCycle)
    BY <1>1 DEF CyclesAreTimely, Settles, Shown, Waiting
  <2>4. SinceCycle \in Nat /\ SinceCycle <= ProbeInterval + waited
    BY <2>1, ProberNumbers DEF SinceCycle, ProberTypes
  <2>5. cache[r] # Never => cache[r].age \in Nat
    BY ProberNumbers DEF ProberTypes, Entry
  <2>6. CASE Due
    <3>1. asking' = detected' /\ ~Waiting'
      BY <1>1, <1>2, <2>2, <2>6, NeverIsNothing DEF Waiting
    <3>2. settled[r] <= ScanLate + Runtimes + SinceCycle => settled'[r] <= CycleStarts
      BY <1>1, <2>1, <2>4, ProberNumbers DEF CycleStarts
    <3>3. Active(cache[r], Runtimes - 1 + SinceCycle)
            => Active(cache[r], Runtimes - 1 + 2 * ProbeInterval)'
      BY <1>1, <2>1, <2>4, <2>5, ProberNumbers DEF Active
    <3>4. QED
      BY <2>2, <2>3, <3>1, <3>2, <3>3 DEF Settles, Shown
  <2>7. CASE ~Due
    <3>1. Waiting' /\ SinceCycle' = SinceCycle
      BY <1>1, <2>7, ProberNumbers DEF Waiting, SinceCycle, Due, ProberTypes
    <3>2. QED
      BY <1>1, <2>3, <3>1 DEF Settles, Shown, Active
  <2>8. QED
    BY <2>6, <2>7
<1>10. QED
  BY <1>5, <1>6, <1>7, <1>8, <1>9

\* A runtime that is not the one asked is as timely after the question.
LEMMA OthersStayTimely ==
  ASSUME ProberIInv, ~Waiting, NEW q \in asking, NEW r \in Runtime, r # q,
         asking' = asking \ {q}, UNCHANGED <<sinceScan, cache, settled>>,
         found'[r] = found[r], ~(settled[r] <= sinceScan)
  PROVE  Settles(r)' \/ Shown(r)'
<1> USE DEF ProberIInv
<1>1. /\ asking \in SUBSET Runtime /\ Unasked \in Nat /\ Unasked <= Runtimes
      /\ r \notin asking => Unasked <= Runtimes - 1
      /\ Unasked' = Unasked - 1
  BY Asking DEF Unasked
<1>2. ~Waiting' /\ (r \in asking' <=> r \in asking)
  BY <1>1, NeverIsNothing DEF Waiting
<1>3. settled[r] \in Nat /\ settled'[r] = settled[r] /\ cache'[r] = cache[r]
  BY DEF ProberTypes
<1>4. /\ cache[r] # Never => cache[r].age \in Nat
      /\ found[r] # Never => found[r].age \in Nat
  BY ProberNumbers DEF ProberTypes, Entry
<1>5. Settles(r) \/ Shown(r)
  BY DEF CyclesAreTimely
<1>6. CASE r \in asking
  BY <1>2, <1>3, <1>5, <1>6 DEF Settles, Shown, Active
<1>7. CASE r \notin asking
  <2>1. AskedNow(r) => AskedNow(r)'
    BY <1>1, <1>4, ProberNumbers DEF AskedNow, Active
  <2>2. CASE AskedNow(r)
    <3>1. \/ settled[r] <= CycleStarts + (Runtimes - 1 - Unasked)
          \/ Active(cache[r], 2 * (Runtimes - 1) + 2 * ProbeInterval - Unasked)
      BY <1>5, <1>7, <2>2 DEF Settles, Shown
    <3>2. settled[r] <= CycleStarts + (Runtimes - 1 - Unasked)
            => settled'[r] <= CycleStarts + (Runtimes - 1 - Unasked')
      BY <1>1, <1>3, ProberNumbers DEF CycleStarts
    <3>3. Active(cache[r], 2 * (Runtimes - 1) + 2 * ProbeInterval - Unasked)
            => Active(cache'[r], 2 * (Runtimes - 1) + 2 * ProbeInterval - Unasked')
      BY <1>1, <1>3, <1>4, ProberNumbers DEF Active
    <3>4. QED
      BY <1>2, <1>7, <2>1, <2>2, <3>1, <3>2, <3>3 DEF Settles, Shown, CycleStarts
  <2>3. CASE ~AskedNow(r)
    <3>1. settled[r] <= ScanLate + Runtimes - Unasked
      BY <1>5, <1>7, <2>3 DEF Settles, Shown
    <3>2. /\ settled'[r] <= ScanLate + Runtimes - Unasked'
          /\ settled'[r] <= CycleStarts + (Runtimes - 1 - Unasked')
      BY <1>1, <1>3, <1>7, <3>1, ProberNumbers DEF CycleStarts
    <3>3. QED
      BY <1>2, <1>7, <3>2 DEF Settles, CycleStarts
  <2>4. QED
    BY <2>2, <2>3
<1>8. QED
  BY <1>6, <1>7

LEMMA AnsweredPreserves ==
  ASSUME ProberIInv, NEW q \in Runtime, Answered(q)
  PROVE  ProberIInv'
<1> USE DEF ProberIInv
<1> DEFINE judged == Judged(health[q] = "loaded")
<1>1. /\ UNCHANGED <<health, sinceScan, submitted, waited, sinceProbe, detected, cache,
                     unloaded, settled>>
      /\ ~Waiting /\ q \in asking /\ asking' = asking \ {q}
      /\ found' = IF health[q] = "absent" THEN found ELSE [found EXCEPT ![q] = judged]
  BY DEF Answered, loopVars
<1>2. judged \in Entry /\ judged.age = 0 /\ judged.active = (health[q] = "loaded")
  BY ProberNumbers DEF Entry, Judged
<1> HIDE DEF judged
<1>3. asking' \in SUBSET Runtime
  BY <1>1 DEF ProberTypes, Waiting
<1>4. ~Waiting'
  BY <1>3, NeverIsNothing DEF Waiting
<1>5. found' \in [Runtime -> Entry \cup {Never}]
  BY <1>1, <1>2 DEF ProberTypes
<1>6. ProberTypes'
  BY <1>1, <1>3, <1>5 DEF ProberTypes
<1>7. Waits' /\ ScanKnows'
  BY <1>1, <1>4 DEF Waits, ScanKnows, Latest
<1>8. /\ \A r \in Runtime \ {q} : found'[r] = found[r]
      /\ health[q] # "absent" => found'[q] = judged
      /\ health[q] = "absent" => found' = found
  BY <1>1 DEF ProberTypes
<1>9. EntriesAreTrue'
  <2> SUFFICES ASSUME NEW r \in Runtime, found'[r] # Never, found'[r].active = TRUE
               PROVE  unloaded[r] <= found'[r].age
    BY <1>1 DEF EntriesAreTrue
  <2>1. CASE r # q \/ health[q] = "absent"
    BY <1>8, <2>1 DEF EntriesAreTrue
  <2>2. CASE r = q /\ health[q] # "absent"
    <3>1. found'[r] = judged
      BY <1>8, <2>2
    <3>2. judged.active = TRUE
      BY <3>1
    <3>3. health[q] = "loaded"
      BY <1>2, <3>2
    <3>4. unloaded[q] = 0 /\ found'[r].age = 0
      BY <1>2, <3>1, <3>3 DEF EntriesAreTrue
    <3>5. QED
      BY <2>2, <3>4
  <2>3. QED
    BY <2>1, <2>2
<1>10. CyclesAreTimely'
  <2> SUFFICES ASSUME NEW r \in Runtime, ~(settled[r] <= sinceScan)
               PROVE  Settles(r)' \/ Shown(r)'
    BY <1>1 DEF CyclesAreTimely
  <2>1. CASE r # q
    <3>1. found'[r] = found[r]
      BY <1>8, <2>1
    <3>2. QED
      BY <1>1, <2>1, <3>1, OthersStayTimely
  <2>2. CASE r = q
    <3>1. settled[r] \in Nat /\ sinceScan \in Nat
      BY ProberNumbers DEF ProberTypes
    <3>2. health[q] = "loaded"
      BY <2>2, <3>1 DEF Waits
    <3>3. /\ Unasked \in Nat /\ Unasked > 0 /\ Unasked <= Runtimes
          /\ Unasked' = Unasked - 1
      BY <1>1, Asking DEF Unasked
    <3>4. judged # Never
      BY <1>2, NeverIsNothing
    <3>5. AskedNow(r)' /\ r \notin asking'
      <4>1. found'[r] = judged /\ r \notin asking'
        BY <1>1, <1>8, <2>2, <3>2
      <4>2. judged.active = TRUE
        BY <1>2, <3>2
      <4>3. judged.age <= Runtimes - 1 - Unasked'
        BY <1>2, <3>3, ProberNumbers
      <4>4. Active(found'[r], Runtimes - 1 - Unasked')
        BY <3>4, <4>1, <4>2, <4>3 DEF Active
      <4>5. QED
        BY <4>1, <4>4 DEF AskedNow
    <3>6. settled[r] <= CycleStarts \/ Active(cache[r], Runtimes - 1 + 2 * ProbeInterval)
      BY <1>1, <2>2 DEF CyclesAreTimely, Settles, Shown
    <3>7. settled[r] <= CycleStarts
            => settled'[r] <= CycleStarts + (Runtimes - 1 - Unasked')
      BY <1>1, <3>1, <3>3, ProberNumbers DEF CycleStarts
    <3>8. cache[r] # Never => cache[r].age \in Nat
      BY ProberNumbers DEF ProberTypes, Entry
    <3>9. Active(cache[r], Runtimes - 1 + 2 * ProbeInterval)
            => Active(cache'[r], 2 * (Runtimes - 1) + 2 * ProbeInterval - Unasked')
      BY <1>1, <3>3, <3>8, ProberNumbers DEF Active
    <3>10. QED
      BY <1>4, <3>5, <3>6, <3>7, <3>9 DEF Settles, Shown, CycleStarts
  <2>3. QED
    BY <2>1, <2>2
<1>11. QED
  BY <1>6, <1>7, <1>9, <1>10

\* What a cycle gives up says nothing of a model, and nothing of another runtime.
NothingActive(map, new, q) ==
  /\ new \in [Runtime -> Entry \cup {Never}]
  /\ \A r \in Runtime \ {q} : new[r] = map[r]
  /\ \A r \in Runtime : new[r] # Never /\ new[r].active = TRUE => new[r] = map[r]

LEMMA GivenUpFacts ==
  ASSUME NEW map \in [Runtime -> Entry \cup {Never}], NEW q \in Runtime,
         NEW new \in GivenUp(map, q)
  PROVE  NothingActive(map, new, q)
<1>1. Judged(FALSE) \in Entry /\ Judged(FALSE).active = FALSE
  BY ProberNumbers DEF Judged, Entry
<1>2. new = map \/ new = [map EXCEPT ![q] = Judged(FALSE)]
  BY DEF GivenUp
<1>3. new[q] = map[q] \/ new[q] = Judged(FALSE)
  BY <1>2
<1>4. /\ new \in [Runtime -> Entry \cup {Never}]
      /\ \A r \in Runtime \ {q} : new[r] = map[r]
  BY <1>1, <1>2
<1>5. QED
  BY <1>1, <1>3, <1>4 DEF NothingActive

LEMMA TimedOutPreserves ==
  ASSUME ProberIInv, NEW q \in Runtime, TimedOut(q)
  PROVE  ProberIInv'
<1> USE DEF ProberIInv
<1>1. /\ UNCHANGED <<health, sinceScan, submitted, waited, sinceProbe, detected, cache,
                     unloaded, settled>>
      /\ ~Waiting /\ q \in asking /\ asking' = asking \ {q} /\ health[q] = "hung"
      /\ found' \in GivenUp(found, q)
  BY DEF TimedOut, loopVars
<1>2. asking' \in SUBSET Runtime
  BY <1>1 DEF ProberTypes, Waiting
<1>3. ~Waiting'
  BY <1>2, NeverIsNothing DEF Waiting
<1>4. NothingActive(found, found', q)
  <2>1. found \in [Runtime -> Entry \cup {Never}]
    BY DEF ProberTypes
  <2>2. found' \in GivenUp(found, q)
    BY <1>1
  <2>3. QED
    BY ONLY <2>1, <2>2, q \in Runtime, GivenUpFacts
<1>5. ProberTypes'
  BY <1>1, <1>2, <1>4 DEF ProberTypes, NothingActive
<1>6. Waits' /\ ScanKnows' /\ EntriesAreTrue'
  <2>1. Waits' /\ ScanKnows'
    BY <1>1, <1>3 DEF Waits, ScanKnows, Latest
  <2>2. EntriesAreTrue'
    BY <1>1, <1>4 DEF EntriesAreTrue, NothingActive
  <2>3. QED
    BY <2>1, <2>2
<1>7. settled[q] <= sinceScan
  <2>1. settled[q] \in Nat /\ sinceScan \in Nat
    BY ProberNumbers DEF ProberTypes
  <2>2. ~(settled[q] > 0)
    BY <1>1 DEF Waits
  <2>3. QED
    BY <2>1, <2>2
<1>8. CyclesAreTimely'
  <2> SUFFICES ASSUME NEW r \in Runtime, ~(settled[r] <= sinceScan)
               PROVE  Settles(r)' \/ Shown(r)'
    BY <1>1 DEF CyclesAreTimely
  <2>1. r # q /\ found'[r] = found[r]
    BY <1>4, <1>7 DEF NothingActive
  <2>2. QED
    BY <1>1, <2>1, OthersStayTimely
<1>9. QED
  BY <1>5, <1>6, <1>8

LEMMA StorePreserves ==
  ASSUME ProberIInv, Store
  PROVE  ProberIInv'
<1> USE DEF ProberIInv
<1>1. /\ UNCHANGED <<health, sinceScan, submitted, waited, detected, unloaded, settled>>
      /\ found' = NoVerdict
      /\ asking = {} /\ cache' = found /\ sinceProbe' = 0 /\ asking' = Never
  BY DEF Store, loopVars
<1>2. ~Waiting /\ Waiting'
  BY <1>1, NeverIsNothing DEF Waiting
<1>3. ProberTypes'
  BY <1>1, ProberNumbers DEF ProberTypes, NoVerdict
<1>4. waited = 0 /\ Waits'
  BY <1>1, <1>2 DEF Waits
<1>5. ScanKnows' /\ EntriesAreTrue'
  BY <1>1 DEF ScanKnows, Latest, EntriesAreTrue, NoVerdict
<1>6. CyclesAreTimely'
  <2> SUFFICES ASSUME NEW r \in Runtime, ~(settled[r] <= sinceScan)
               PROVE  Settles(r)' \/ Shown(r)'
    BY <1>1 DEF CyclesAreTimely
  <2>1. Unasked = 0
    BY <1>1, <1>2, Asking
  <2>2. SinceCycle' = 0
    BY <1>1, ProberNumbers, NeverIsNothing DEF SinceCycle
  <2>3. settled[r] \in Nat
    BY DEF ProberTypes
  <2>4. Settles(r) \/ Shown(r)
    BY DEF CyclesAreTimely
  <2>5. CASE AskedNow(r)
    <3>1. Active(cache'[r], Runtimes - 1 + SinceCycle')
      BY <1>1, <2>1, <2>2, <2>5, ProberNumbers DEF AskedNow, Active
    <3>2. QED
      BY <1>2, <3>1 DEF Shown
  <2>6. CASE ~AskedNow(r)
    <3>1. settled[r] <= ScanLate + Runtimes - Unasked
      BY <1>1, <1>2, <2>4, <2>6 DEF Settles, Shown
    <3>2. settled'[r] <= ScanLate + Runtimes + SinceCycle'
      BY <1>1, <2>1, <2>2, <2>3, <3>1, ProberNumbers
    <3>3. QED
      BY <1>2, <3>2 DEF Settles
  <2>7. QED
    BY <2>5, <2>6
<1>7. QED
  BY <1>3, <1>4, <1>5, <1>6

\* Time runs in the worker's wait, or in a question that is not answered: the
\* second that makes what is shown older brings the end of the cycle nearer.
LEMMA ProberSecondPreserves ==
  ASSUME ProberIInv, Second
  PROVE  ProberIInv'
<1> USE DEF ProberIInv
<1>1. /\ UNCHANGED <<health, submitted, detected>>
      /\ sinceScan < ScanLate /\ ~Wakes
      /\ sinceScan' = sinceScan + 1
      /\ waited' = IF Waiting THEN waited + 1 ELSE waited
      /\ sinceProbe' = IF sinceProbe = Never THEN Never ELSE Capped(sinceProbe, ProbeInterval)
      /\ cache' = Older(cache)
  BY DEF Second
<1>2. \A r \in Runtime :
        /\ unloaded'[r] = IF health[r] = "loaded" THEN 0
                          ELSE Capped(unloaded[r], MaxAge + 1)
        /\ settled'[r] = IF health[r] = "loaded" THEN Capped(settled[r], SettleTime) ELSE 0
  BY DEF Second
<1>3. /\ Waiting => asking' = asking /\ found' = Older(found)
      /\ ~Waiting => /\ asking # {} /\ \A r \in asking : health[r] = "hung"
                     /\ \E r \in asking : /\ asking' = asking \ {r}
                                          /\ found' \in GivenUp(Older(found), r)
  BY DEF Second
<1>4. sinceScan \in Nat /\ sinceScan' \in 0..ScanLate /\ waited \in Nat
  BY <1>1, ProberNumbers DEF ProberTypes
<1>5. SettleTime \in Nat
  BY ProberNumbers DEF SettleTime, Runtimes
<1>6. \A r \in Runtime :
        /\ settled[r] \in Nat /\ settled'[r] \in Nat
        /\ settled'[r] <= settled[r] + 1
        /\ health[r] # "loaded" => settled'[r] = 0
  BY <1>2, <1>5 DEF Capped, ProberTypes
<1>7. /\ Waiting' <=> Waiting
      /\ ~Waiting => asking' \in SUBSET Runtime
      /\ Waiting => asking' = Never
  <2>1. CASE Waiting
    BY <1>3, <2>1 DEF Waiting
  <2>2. CASE ~Waiting
    <3>1. asking' \in SUBSET Runtime
      BY <1>3, <2>2 DEF ProberTypes, Waiting
    <3>2. QED
      BY <2>2, <3>1, NeverIsNothing DEF Waiting
  <2>3. QED
    BY <2>1, <2>2
<1>8. waited' \in 0..ProbeInterval
  <2>1. Waiting => waited # ProbeInterval
    BY <1>1 DEF Wakes
  <2>2. QED
    BY <1>1, <1>4, <2>1, ProberNumbers DEF ProberTypes
<1>9. sinceProbe' \in (0..ProbeInterval) \cup {Never}
  BY <1>1, ProberNumbers DEF ProberTypes, Capped
<1>10. ASSUME NEW map \in [Runtime -> Entry \cup {Never}], NEW r \in Runtime
       PROVE  /\ (Older(map)[r] # Never) = (map[r] # Never)
              /\ map[r] # Never =>
                   /\ map[r].age \in 0..(MaxAge + 1)
                   /\ Older(map)[r].active = map[r].active
                   /\ Older(map)[r].age = Capped(map[r].age, MaxAge + 1)
                   /\ Older(map)[r] \in Entry
  <2>1. CASE map[r] = Never
    BY <2>1 DEF Older
  <2>2. CASE map[r] # Never
    <3> DEFINE age == Capped(map[r].age, MaxAge + 1)
    <3>1. map[r] \in Entry
      BY <2>2
    <3>2. map[r].age \in 0..(MaxAge + 1) /\ map[r].active \in BOOLEAN
      BY <3>1 DEF Entry
    <3>3. age \in 0..(MaxAge + 1)
      BY <3>2, ProberNumbers DEF Capped
    <3> HIDE DEF age
    <3>4. [map[r] EXCEPT !.age = age] = [active |-> map[r].active, age |-> age]
      BY <3>1 DEF Entry
    <3>5. Older(map)[r] = [active |-> map[r].active, age |-> age]
      BY <2>2, <3>4 DEF Older, age
    <3>6. /\ [active |-> map[r].active, age |-> age] \in Entry
          /\ [active |-> map[r].active, age |-> age].age = age
          /\ [active |-> map[r].active, age |-> age].active = map[r].active
      BY <3>2, <3>3 DEF Entry
    <3>7. Older(map)[r] # Never
      BY <3>5, <3>6, NeverIsNothing
    <3>8. QED
      BY <2>2, <3>2, <3>5, <3>6, <3>7 DEF age
  <2>3. QED
    BY <2>1, <2>2
<1>11. /\ Older(found) \in [Runtime -> Entry \cup {Never}]
       /\ cache' \in [Runtime -> Entry \cup {Never}]
  <2> SUFFICES ASSUME NEW map \in [Runtime -> Entry \cup {Never}]
               PROVE  Older(map) \in [Runtime -> Entry \cup {Never}]
    BY <1>1 DEF ProberTypes
  <2>1. Older(map) = [r \in Runtime |-> Older(map)[r]]
    BY DEF Older
  <2>2. \A r \in Runtime : Older(map)[r] \in Entry \cup {Never}
    BY <1>10
  <2>3. QED
    BY <2>1, <2>2
<1>12. /\ found' \in [Runtime -> Entry \cup {Never}]
       /\ \A r \in Runtime :
            /\ health[r] = "loaded" => found'[r] = Older(found)[r]
            /\ found'[r] # Never /\ found'[r].active = TRUE => found'[r] = Older(found)[r]
  <2>1. CASE Waiting
    BY <1>3, <1>11, <2>1
  <2>2. CASE ~Waiting
    <3>1. PICK p \in asking : found' \in GivenUp(Older(found), p)
      BY <1>3, <2>2
    <3>2. p \in Runtime /\ health[p] = "hung"
      BY <1>3, <2>2 DEF ProberTypes, Waiting
    <3>3. NothingActive(Older(found), found', p)
      BY ONLY <1>11, <3>1, <3>2, GivenUpFacts
    <3>4. QED
      BY <3>2, <3>3 DEF NothingActive
  <2>3. QED
    BY <2>1, <2>2
<1>13. ProberTypes'
  <2>1. found' \in [Runtime -> Entry \cup {Never}] /\ cache' \in [Runtime -> Entry \cup {Never}]
    BY <1>11, <1>12
  <2>2. unloaded' \in [Runtime -> Nat]
    <3>1. \A r \in Runtime : unloaded'[r] \in Nat
      <4> SUFFICES ASSUME NEW r \in Runtime
                   PROVE  unloaded'[r] \in Nat
        OBVIOUS
      <4>1. unloaded[r] \in Nat /\ MaxAge + 1 \in Nat
        BY ProberNumbers DEF ProberTypes
      <4>2. Capped(unloaded[r], MaxAge + 1) \in Nat
        BY <4>1 DEF Capped
      <4>3. QED
        BY <1>2, <4>2
    <3>2. unloaded' = [r \in Runtime |-> unloaded'[r]]
      BY DEF Second
    <3>3. QED
      BY <3>1, <3>2
  <2>3. settled' \in [Runtime -> Nat]
    <3>1. settled' = [r \in Runtime |-> settled'[r]]
      BY DEF Second
    <3>2. QED
      BY <1>6, <3>1
  <2>4. asking' \in (SUBSET Runtime) \cup {Never}
    BY <1>7
  <2>5. QED
    BY <1>1, <1>4, <1>8, <1>9, <2>1, <2>2, <2>3, <2>4 DEF ProberTypes
<1>14. Waits'
  <2>1. waited' <= ScanLate
    BY <1>1, <1>4, ProberNumbers DEF Waits, Wakes
  <2>2. submitted' = <<>> => waited' <= sinceScan'
    BY <1>1, <1>4 DEF Waits
  <2>3. ~Waiting' => waited' = 0
    BY <1>1, <1>7 DEF Waits
  <2>4. \A r \in Runtime : settled'[r] > 0 => health'[r] = "loaded"
    BY <1>1, <1>6
  <2>5. QED
    BY <2>1, <2>2, <2>3, <2>4 DEF Waits
<1>15. EntriesAreTrue'
  <2> SUFFICES ASSUME NEW r \in Runtime
               PROVE  /\ health[r] = "loaded" => unloaded'[r] = 0
                      /\ cache'[r] # Never /\ cache'[r].active = TRUE
                           => unloaded'[r] <= cache'[r].age
                      /\ found'[r] # Never /\ found'[r].active = TRUE
                           => unloaded'[r] <= found'[r].age
    BY <1>1 DEF EntriesAreTrue
  <2>1. unloaded[r] \in Nat
    BY DEF ProberTypes
  <2>2. \A n \in 0..(MaxAge + 1) : unloaded[r] <= n => unloaded'[r] <= Capped(n, MaxAge + 1)
    BY <1>2, <2>1, ProberNumbers DEF Capped
  <2>3. health[r] = "loaded" => unloaded'[r] = 0
    BY <1>2
  <2>4. ASSUME cache'[r] # Never, cache'[r].active = TRUE
        PROVE  unloaded'[r] <= cache'[r].age
    <3>1. cache[r] # Never
      BY <1>1, <1>10, <2>4 DEF ProberTypes
    <3>2. cache[r].active = TRUE /\ cache[r].age \in 0..(MaxAge + 1)
          /\ cache'[r].age = Capped(cache[r].age, MaxAge + 1)
      BY <1>1, <1>10, <2>4, <3>1 DEF ProberTypes
    <3>3. unloaded[r] <= cache[r].age
      BY <3>1, <3>2 DEF EntriesAreTrue
    <3>4. QED
      BY <2>2, <3>2, <3>3
  <2>5. ASSUME found'[r] # Never, found'[r].active = TRUE
        PROVE  unloaded'[r] <= found'[r].age
    <3>0. found'[r] = Older(found)[r] /\ found \in [Runtime -> Entry \cup {Never}]
      BY <1>12, <2>5 DEF ProberTypes
    <3>1. found[r] # Never
      BY <1>10, <2>5, <3>0
    <3>2. found[r].active = TRUE /\ found[r].age \in 0..(MaxAge + 1)
          /\ found'[r].age = Capped(found[r].age, MaxAge + 1)
      BY <1>10, <2>5, <3>0, <3>1
    <3>3. unloaded[r] <= found[r].age
      BY <3>1, <3>2 DEF EntriesAreTrue
    <3>4. QED
      BY <2>2, <3>2, <3>3
  <2>6. QED
    BY <2>3, <2>4, <2>5
<1>16. ScanKnows'
  <2>1. Latest(submitted)' = Latest(submitted)
    BY <1>1 DEF Latest
  <2>2. \A r \in Runtime : settled'[r] > sinceScan' => settled[r] > sinceScan
    BY <1>1, <1>4, <1>6
  <2>3. QED
    BY <2>1, <2>2 DEF ScanKnows
<1>17. CyclesAreTimely'
  <2> SUFFICES ASSUME NEW r \in Runtime, ~(settled'[r] <= sinceScan')
               PROVE  Settles(r)' \/ Shown(r)'
    BY DEF CyclesAreTimely
  <2>1. settled[r] \in Nat /\ settled'[r] \in Nat /\ settled'[r] <= settled[r] + 1
        /\ health[r] = "loaded" /\ ~(settled[r] <= sinceScan)
    BY <1>1, <1>4, <1>6
  <2>2. Settles(r) \/ Shown(r)
    BY <2>1 DEF CyclesAreTimely
  <2>3. ASSUME NEW n \in Int, Active(cache[r], n)
        PROVE  Active(cache'[r], n + 1)
    <3>1. cache[r] # Never /\ cache[r].active = TRUE /\ cache[r].age <= n
      BY <2>3 DEF Active
    <3>2. cache'[r] # Never /\ cache'[r].active = TRUE
      BY <1>1, <1>10, <3>1 DEF ProberTypes
    <3>3. cache[r].age \in 0..(MaxAge + 1)
          /\ cache'[r].age = Capped(cache[r].age, MaxAge + 1)
      BY <1>1, <1>10, <3>1 DEF ProberTypes
    <3>4. cache'[r].age <= n + 1
      BY <2>3, <3>1, <3>3, ProberNumbers DEF Capped
    <3>5. QED
      BY <3>2, <3>4 DEF Active
  <2>4. ASSUME NEW n \in Int, Active(found[r], n)
        PROVE  Active(found'[r], n + 1)
    <3>1. found[r] # Never /\ found[r].active = TRUE /\ found[r].age <= n
      BY <2>4 DEF Active
    <3>0. found'[r] = Older(found)[r] /\ found \in [Runtime -> Entry \cup {Never}]
      BY <1>12, <2>1 DEF ProberTypes
    <3>2. found'[r] # Never /\ found'[r].active = TRUE
      BY <1>10, <3>0, <3>1
    <3>3. found[r].age \in 0..(MaxAge + 1)
          /\ found'[r].age = Capped(found[r].age, MaxAge + 1)
      BY <1>10, <3>0, <3>1
    <3>4. found'[r].age <= n + 1
      BY <2>4, <3>1, <3>3, ProberNumbers DEF Capped
    <3>5. QED
      BY <3>2, <3>4 DEF Active
  <2>5. CASE Waiting
    <3>1. SinceCycle \in Nat /\ SinceCycle' \in Nat /\ SinceCycle + 1 <= SinceCycle'
      <4>1. waited' = waited + 1
        BY <1>1, <2>5
      <4>2. CASE sinceProbe = Never
        BY <1>1, <1>4, <4>1, <4>2 DEF SinceCycle
      <4>3. CASE sinceProbe # Never
        <5>1. sinceProbe \in Nat /\ sinceProbe <= ProbeInterval
          BY <4>3, ProberNumbers DEF ProberTypes
        <5>2. sinceProbe' = IF sinceProbe < ProbeInterval THEN sinceProbe + 1
                            ELSE ProbeInterval
          BY <1>1, <4>3 DEF Capped
        <5>3. sinceProbe' # Never
          BY <5>1, <5>2, ProberNumbers, NeverIsNothing
        <5>4. QED
          BY <1>4, <4>1, <4>3, <5>1, <5>2, <5>3, ProberNumbers DEF SinceCycle
      <4>4. QED
        BY <4>2, <4>3
    <3>2. settled[r] <= ScanLate + Runtimes + SinceCycle
            => settled'[r] <= ScanLate + Runtimes + SinceCycle'
      BY <2>1, <3>1, ProberNumbers
    <3>3. Active(cache[r], Runtimes - 1 + SinceCycle)
            => Active(cache'[r], Runtimes - 1 + SinceCycle + 1)
      BY <2>3, <3>1, ProberNumbers
    <3>4. cache'[r] # Never => cache'[r].age \in Nat
      <4>1. cache'[r] # Never => cache'[r] \in Entry
        BY <1>11
      <4>2. QED
        BY <4>1, ProberNumbers DEF Entry
    <3>5. Active(cache'[r], Runtimes - 1 + SinceCycle + 1)
            => Active(cache'[r], Runtimes - 1 + SinceCycle')
      BY <3>1, <3>4, ProberNumbers DEF Active
    <3>6. QED
      BY <1>7, <2>2, <2>5, <3>2, <3>3, <3>5 DEF Settles, Shown
  <2>6. CASE ~Waiting
    <3>1. r \notin asking
      BY <1>3, <2>1, <2>6
    <3>2. PICK p \in asking : asking' = asking \ {p}
      BY <1>3, <2>6
    <3>3. /\ Unasked \in Nat /\ Unasked <= Runtimes - 1
          /\ Unasked' = Unasked - 1
      BY <2>6, <3>1, <3>2, Asking DEF Unasked
    <3>4. r \notin asking' /\ ~Waiting'
      BY <1>7, <2>6, <3>1, <3>2
    <3>5. AskedNow(r) => AskedNow(r)'
      <4>1. (Runtimes - 1 - Unasked) \in Int
            /\ Runtimes - 1 - Unasked' = (Runtimes - 1 - Unasked) + 1
        BY <3>3, ProberNumbers
      <4>2. Active(found[r], Runtimes - 1 - Unasked)
              => Active(found'[r], (Runtimes - 1 - Unasked) + 1)
        BY <2>4, <4>1
      <4>3. QED
        BY <4>1, <4>2 DEF AskedNow
    <3>6. CASE AskedNow(r)
      <4> DEFINE n == 2 * (Runtimes - 1) + 2 * ProbeInterval - Unasked
      <4>1. settled[r] <= CycleStarts + (Runtimes - 1 - Unasked) \/ Active(cache[r], n)
        BY <2>2, <2>6, <3>1, <3>6 DEF Settles, Shown
      <4>2. settled[r] <= CycleStarts + (Runtimes - 1 - Unasked)
              => settled'[r] <= CycleStarts + (Runtimes - 1 - Unasked')
        BY <2>1, <3>3, ProberNumbers DEF CycleStarts
      <4>3. n \in Int /\ 2 * (Runtimes - 1) + 2 * ProbeInterval - Unasked' = n + 1
        BY <3>3, ProberNumbers
      <4> HIDE DEF n
      <4>4. Active(cache[r], n)
              => Active(cache'[r], 2 * (Runtimes - 1) + 2 * ProbeInterval - Unasked')
        BY <2>3, <4>3
      <4>5. QED
        BY <3>4, <3>5, <3>6, <4>1, <4>2, <4>4 DEF Settles, Shown, CycleStarts
    <3>7. CASE ~AskedNow(r)
      <4>1. settled[r] <= ScanLate + Runtimes - Unasked
        BY <2>2, <2>6, <3>1, <3>7 DEF Settles, Shown
      <4>2. /\ settled'[r] <= ScanLate + Runtimes - Unasked'
            /\ settled'[r] <= CycleStarts + (Runtimes - 1 - Unasked')
        BY <2>1, <3>3, <4>1, ProberNumbers DEF CycleStarts
      <4>3. QED
        BY <3>4, <4>2 DEF Settles, CycleStarts
    <3>8. QED
      BY <3>6, <3>7
  <2>7. QED
    BY <2>5, <2>6
<1>18. QED
  BY <1>13, <1>14, <1>15, <1>16, <1>17

LEMMA ProberNextPreserves == ProberIInv /\ [ProberNext]_proberVars => ProberIInv'
<1> SUFFICES ASSUME ProberIInv, [ProberNext]_proberVars
             PROVE  ProberIInv'
  OBVIOUS
<1>1. CASE Scan
  BY <1>1, ScanPreserves
<1>2. CASE Wake
  BY <1>2, WakePreserves
<1>3. CASE Store
  BY <1>3, StorePreserves
<1>4. ASSUME NEW r \in Runtime, Answered(r)
      PROVE  ProberIInv'
  BY <1>4, AnsweredPreserves
<1>5. ASSUME NEW r \in Runtime, TimedOut(r)
      PROVE  ProberIInv'
  BY <1>5, TimedOutPreserves
<1>6. CASE Second
  BY <1>6, ProberSecondPreserves
<1>7. ASSUME NEW r \in Runtime, Turn(r)
      PROVE  ProberIInv'
  BY <1>7, TurnPreserves
<1>8. CASE UNCHANGED proberVars
  BY <1>8 DEF proberVars, loopVars, workerVars, ProberIInv, ProberTypes, Waits, Waiting,
     EntriesAreTrue, ScanKnows, Latest, CyclesAreTimely, Settles, Shown, SinceCycle,
     AskedNow, Unasked
<1>9. QED
  BY <1>1, <1>2, <1>3, <1>4, <1>5, <1>6, <1>7, <1>8 DEF ProberNext, Worker

\* However many runtimes there are, as long as they can all time out in what
\* MaxAge leaves over two intervals: a runtime is given as active only if it had
\* a model loaded at most MaxAge seconds ago, and one that has been loaded for
\* SettleTime is given as active, whatever happens to the others.
THEOREM VerdictsHoldTime == ProberSpec => []VerdictsAreTimely
<1>1. ProberSpec => []ProberIInv
  BY ProberInitEstablishes, ProberNextPreserves, PTL DEF ProberSpec
<1>2. ProberIInv => VerdictsAreTimely
  <2> SUFFICES ASSUME ProberIInv, NEW r \in Runtime
               PROVE  /\ Verdict(r) = "active" => unloaded[r] <= MaxAge
                      /\ settled[r] = SettleTime => Verdict(r) = "active"
    BY DEF VerdictsAreTimely
  <2> USE DEF ProberIInv
  <2>1. cache[r] # Never => cache[r].age \in Nat /\ cache[r].active \in BOOLEAN
    BY ProberNumbers DEF ProberTypes, Entry
  <2>2. ASSUME Verdict(r) = "active"
        PROVE  unloaded[r] <= MaxAge
    <3>1. cache[r] # Never /\ cache[r].age <= MaxAge /\ cache[r].active
      BY <2>2 DEF Verdict, Fresh
    <3>2. unloaded[r] <= cache[r].age
      BY <2>1, <3>1 DEF EntriesAreTrue
    <3>3. QED
      BY <2>1, <3>1, <3>2, ProberNumbers DEF ProberTypes
  <2>3. ASSUME settled[r] = SettleTime
        PROVE  Verdict(r) = "active"
    <3>1. /\ sinceScan \in Nat /\ sinceScan <= ScanLate /\ waited \in Nat
          /\ waited <= ScanLate /\ waited <= ProbeInterval
      BY ProberNumbers DEF ProberTypes, Waits
    <3>2. settled[r] = ProbeInterval + 2 * ScanLate + 2 * Runtimes /\ Runtimes > 0
      BY <2>3, ProberNumbers DEF SettleTime, Runtimes
    <3>3. Settles(r) \/ Shown(r)
      BY <3>1, <3>2, ProberNumbers DEF CyclesAreTimely
    <3>4. CASE Waiting
      <4>1. SinceCycle \in Nat /\ SinceCycle <= ProbeInterval + waited
        BY <3>1, ProberNumbers DEF SinceCycle, ProberTypes
      <4>2. ~(settled[r] <= ScanLate + Runtimes + SinceCycle)
        BY <3>1, <3>2, <4>1, ProberNumbers
      <4>3. Active(cache[r], Runtimes - 1 + SinceCycle)
        BY <3>3, <3>4, <4>2 DEF Settles, Shown
      <4>4. cache[r] # Never /\ cache[r].active = TRUE /\ cache[r].age <= MaxAge
        BY <2>1, <3>1, <3>2, <4>1, <4>3, ProberNumbers DEF Active
      <4>5. QED
        BY <4>4 DEF Verdict, Fresh
    <3>5. CASE ~Waiting
      <4>1. Unasked \in Nat /\ Unasked <= Runtimes
        BY <3>5, Asking
      <4>2. /\ ~(settled[r] <= CycleStarts)
            /\ ~(settled[r] <= CycleStarts + (Runtimes - 1 - Unasked))
            /\ ~(settled[r] <= ScanLate + Runtimes - Unasked)
        BY <3>2, <4>1, ProberNumbers DEF CycleStarts
      <4>3. \/ Active(cache[r], Runtimes - 1 + 2 * ProbeInterval)
            \/ Active(cache[r], 2 * (Runtimes - 1) + 2 * ProbeInterval - Unasked)
        BY <3>3, <3>5, <4>2 DEF Settles, Shown
      <4>4. cache[r] # Never /\ cache[r].active = TRUE /\ cache[r].age <= MaxAge
        BY <2>1, <3>2, <4>1, <4>3, ProberNumbers DEF Active
      <4>5. QED
        BY <4>4 DEF Verdict, Fresh
    <3>6. QED
      BY <3>4, <3>5
  <2>4. QED
    BY <2>2, <2>3
<1>3. QED
  BY <1>1, <1>2, PTL

-----------------------------------------------------------------------------
(***************************************************************************)
(* The collector engine.                                                   *)
(***************************************************************************)
HivemindTypes ==
  /\ stage \in {"off", "on", "stopping"}
  /\ handles \in Seq(Collector)
  /\ spent \in Nat
  /\ thread \in [Collector -> {"none", "loop", "cleanup", "ended"}]
  /\ shutdown \in [Collector -> BOOLEAN]
  /\ nap \in [Collector -> Nat]
  /\ child \in [Piped -> {"none", "up", "gone"}]
  /\ heir \in [Wraps -> BOOLEAN]
  /\ reader \in [Piped -> {"none", "reading", "ended"}]

Distinct(seq) == \A i, j \in 1..Len(seq) : seq[i] = seq[j] => i = j

\* The longest a collector does not look at its flag.
Interval(c) ==
  IF c \in Pollers THEN PollTime
  ELSE IF c \in Tails THEN TailTime + ScanTime ELSE WrapTime

Cost(S) == Cardinality(S \cap Pollers) * PollTime
             + Cardinality(S \cap Tails) * (TailTime + ScanTime)
             + Cardinality(S \cap Wraps) * WrapTime

\* A thread that runs has a handle, and only one.
Spawned ==
  /\ Distinct(handles)
  /\ stage = "off" <=> handles = <<>>
  /\ \A c \in Collector :
       /\ thread[c] \in {"loop", "cleanup"} => c \in ToSet(handles)
       /\ c \in ToSet(handles) => thread[c] # "none"
       /\ nap[c] <= Interval(c)

\* Who is out of the loop has killed the child, who has ended has joined the reader.
Reaped ==
  /\ \A c \in Collector : thread[c] = "cleanup" => c \in Piped
  /\ \A c \in Piped :
       /\ thread[c] # "loop" => child[c] # "up"
       /\ thread[c] \in {"none", "ended"} => reader[c] # "reading"
       /\ child[c] = "none" => reader[c] = "none"

\* What stop() has spent and what it may still spend: the nap of the collector
\* it joins, and an interval for each of the others.
OnTime ==
  stage = "stopping" =>
    /\ shutdown[Head(handles)] = TRUE
    /\ ~HeirsStay =>
         spent + (IF thread[Head(handles)] = "loop" THEN nap[Head(handles)] ELSE 0)
           + Cost(ToSet(handles) \ {Head(handles)}) <= StopTime

HivemindIInv ==
  /\ HivemindTypes
  /\ Spawned
  /\ Reaped
  /\ OnTime

-----------------------------------------------------------------------------
LEMMA HivemindNumbers ==
  /\ PollTime \in Nat /\ TailTime \in Nat /\ ScanTime \in Nat /\ WrapTime \in Nat
  /\ IsFiniteSet(Collector) /\ Automatic # {} /\ Automatic \subseteq Collector
  /\ Piped \subseteq Collector /\ Wraps \subseteq Piped /\ Tails \subseteq Piped
  /\ Pollers \subseteq Collector
  /\ Pollers \cap Tails = {} /\ Pollers \cap Wraps = {} /\ Tails \cap Wraps = {}
  BY HivemindAssumption DEF Automatic, Collector, Piped

LEMMA Products ==
  /\ \A n, t \in Nat : n * t \in Nat /\ (n - 1) * t = n * t - t
  /\ \A m, n, t \in Nat : m <= n => m * t <= n * t
<1>1. \A n, t \in Nat : n * t \in Nat /\ (n - 1) * t = n * t - t
  OBVIOUS
<1>2. ASSUME NEW m \in Nat, NEW n \in Nat, NEW t \in Nat, m <= n
      PROVE  m * t <= n * t
  <2>1. (n - m) * t = n * t - m * t /\ (n - m) * t >= 0
    BY <1>2
  <2>2. m * t \in Nat /\ n * t \in Nat
    BY <1>1
  <2>3. QED
    BY <2>1, <2>2
<1>3. QED
  BY <1>1, <1>2

LEMMA IntervalType == \A c \in Collector : Interval(c) \in Nat
  BY HivemindNumbers DEF Interval

LEMMA CostOfOne ==
  ASSUME NEW S \in SUBSET Collector
  PROVE  /\ Cost(S) \in Nat /\ Cost(S) <= StopTime
         /\ \A c \in S : Cost(S \ {c}) + Interval(c) = Cost(S)
<1> DEFINE P == Cardinality(S \cap Pollers)
           T == Cardinality(S \cap Tails)
           W == Cardinality(S \cap Wraps)
<1>1. ASSUME NEW K \in SUBSET Collector
      PROVE  /\ IsFiniteSet(S \cap K) /\ Cardinality(S \cap K) \in Nat
             /\ Cardinality(K) \in Nat /\ Cardinality(S \cap K) <= Cardinality(K)
             /\ \A c \in S : Cardinality((S \ {c}) \cap K)
                               = IF c \in K THEN Cardinality(S \cap K) - 1 ELSE Cardinality(S \cap K)
  <2>1. IsFiniteSet(K)
    BY HivemindNumbers, FS_Subset
  <2>2. S \cap K \in SUBSET K
    OBVIOUS
  <2>3. IsFiniteSet(S \cap K) /\ Cardinality(S \cap K) <= Cardinality(K)
    BY <2>1, <2>2, FS_Subset
  <2>4. Cardinality(S \cap K) \in Nat /\ Cardinality(K) \in Nat
    BY <2>1, <2>3, FS_CardinalityType
  <2>5. ASSUME NEW c \in S
        PROVE  Cardinality((S \ {c}) \cap K)
                 = IF c \in K THEN Cardinality(S \cap K) - 1 ELSE Cardinality(S \cap K)
    <3>1. (S \ {c}) \cap K = (S \cap K) \ {c} /\ (c \in S \cap K <=> c \in K)
      OBVIOUS
    <3>2. Cardinality((S \cap K) \ {c})
            = IF c \in S \cap K THEN Cardinality(S \cap K) - 1 ELSE Cardinality(S \cap K)
      BY <2>3, FS_RemoveElement
    <3>3. QED
      BY <3>1, <3>2
  <2>6. QED
    BY <2>3, <2>4, <2>5
<1>2. /\ P \in Nat /\ Cardinality(Pollers) \in Nat /\ P <= Cardinality(Pollers)
      /\ \A c \in S : Cardinality((S \ {c}) \cap Pollers) = IF c \in Pollers THEN P - 1 ELSE P
  BY <1>1, HivemindNumbers
<1>3. /\ T \in Nat /\ Cardinality(Tails) \in Nat /\ T <= Cardinality(Tails)
      /\ \A c \in S : Cardinality((S \ {c}) \cap Tails) = IF c \in Tails THEN T - 1 ELSE T
  BY <1>1, HivemindNumbers
<1>4. /\ W \in Nat /\ Cardinality(Wraps) \in Nat /\ W <= Cardinality(Wraps)
      /\ \A c \in S : Cardinality((S \ {c}) \cap Wraps) = IF c \in Wraps THEN W - 1 ELSE W
  BY <1>1, HivemindNumbers
<1> DEFINE tail == TailTime + ScanTime
<1>5. tail \in Nat /\ PollTime \in Nat /\ WrapTime \in Nat
  BY HivemindNumbers
<1>6. Cost(S) = P * PollTime + T * tail + W * WrapTime
  BY DEF Cost
<1>7. StopTime = Cardinality(Pollers) * PollTime + Cardinality(Tails) * tail
                   + Cardinality(Wraps) * WrapTime
  BY DEF StopTime
<1>8. \A c \in S :
        Cost(S \ {c}) = (IF c \in Pollers THEN P - 1 ELSE P) * PollTime
                          + (IF c \in Tails THEN T - 1 ELSE T) * tail
                          + (IF c \in Wraps THEN W - 1 ELSE W) * WrapTime
  BY <1>2, <1>3, <1>4 DEF Cost
<1>9. \A c \in S : Interval(c) = IF c \in Pollers THEN PollTime
                                 ELSE IF c \in Tails THEN tail ELSE WrapTime
  BY DEF Interval
<1> HIDE DEF P, T, W, tail
<1>10. Cost(S) \in Nat /\ Cost(S) <= StopTime
  <2>1. /\ P * PollTime \in Nat /\ T * tail \in Nat /\ W * WrapTime \in Nat
        /\ Cardinality(Pollers) * PollTime \in Nat /\ Cardinality(Tails) * tail \in Nat
        /\ Cardinality(Wraps) * WrapTime \in Nat
    BY <1>2, <1>3, <1>4, <1>5, Products
  <2>2. /\ P * PollTime <= Cardinality(Pollers) * PollTime
        /\ T * tail <= Cardinality(Tails) * tail
        /\ W * WrapTime <= Cardinality(Wraps) * WrapTime
    BY <1>2, <1>3, <1>4, <1>5, Products
  <2>3. QED
    BY <1>6, <1>7, <2>1, <2>2
<1>11. ASSUME NEW c \in S
       PROVE  Cost(S \ {c}) + Interval(c) = Cost(S)
  <2>1. /\ P * PollTime \in Nat /\ (P - 1) * PollTime = P * PollTime - PollTime
        /\ T * tail \in Nat /\ (T - 1) * tail = T * tail - tail
        /\ W * WrapTime \in Nat /\ (W - 1) * WrapTime = W * WrapTime - WrapTime
    BY <1>2, <1>3, <1>4, <1>5, Products
  <2>2. CASE c \in Pollers
    <3>1. c \notin Tails /\ c \notin Wraps
      BY <2>2, HivemindNumbers
    <3>2. /\ Cost(S \ {c}) = (P - 1) * PollTime + T * tail + W * WrapTime
          /\ Interval(c) = PollTime
      BY <1>8, <1>9, <2>2, <3>1
    <3>3. QED
      BY <1>5, <1>6, <2>1, <3>2
  <2>3. CASE c \in Tails
    <3>1. c \notin Pollers /\ c \notin Wraps
      BY <2>3, HivemindNumbers
    <3>2. /\ Cost(S \ {c}) = P * PollTime + (T - 1) * tail + W * WrapTime
          /\ Interval(c) = tail
      BY <1>8, <1>9, <2>3, <3>1
    <3>3. QED
      BY <1>5, <1>6, <2>1, <3>2
  <2>4. CASE c \in Wraps
    <3>1. c \notin Pollers /\ c \notin Tails
      BY <2>4, HivemindNumbers
    <3>2. /\ Cost(S \ {c}) = P * PollTime + T * tail + (W - 1) * WrapTime
          /\ Interval(c) = WrapTime
      BY <1>8, <1>9, <2>4, <3>1
    <3>3. QED
      BY <1>5, <1>6, <2>1, <3>2
  <2>5. QED
    BY <2>2, <2>3, <2>4 DEF Collector, Automatic
<1>12. QED
  BY <1>10, <1>11

LEMMA StopTimeType == StopTime \in Nat
<1>1. Cost(Collector) \in Nat
  BY CostOfOne
<1>2. Collector \cap Pollers = Pollers /\ Collector \cap Tails = Tails
      /\ Collector \cap Wraps = Wraps
  BY DEF Collector, Automatic
<1>3. QED
  BY <1>1, <1>2 DEF Cost, StopTime

LEMMA AutomaticInOrder ==
  /\ SetToSeq(Automatic) \in Seq(Collector)
  /\ ToSet(SetToSeq(Automatic)) = Automatic
  /\ Distinct(SetToSeq(Automatic))
<1> DEFINE n == Cardinality(Automatic)
           seq == SetToSeq(Automatic)
<1>1. IsFiniteSet(Automatic)
  BY HivemindNumbers, FS_Subset
<1>2. n \in Nat /\ ExistsBijection(1..n, Automatic)
  BY <1>1, FS_CardinalityType
<1>3. PICK f : f \in Bijection(1..n, Automatic)
  BY <1>2 DEF ExistsBijection
<1>4. f \in [1..n -> Automatic] /\ IsInjective(f)
  BY <1>3 DEF Bijection, Injection
<1>5. seq \in [1..n -> Automatic] /\ IsInjective(seq)
  BY <1>4 DEF SetToSeq
<1> HIDE DEF seq
<1>6. seq \in Injection(1..n, Automatic)
  BY <1>5 DEF Injection
<1>7. IsFiniteSet(1..n) /\ Cardinality(1..n) = n
  BY <1>2, FS_Interval
<1>8. seq \in Surjection(1..n, Automatic)
  BY <1>1, <1>6, <1>7, FS_Injection
<1>9. \A c \in Automatic : \E i \in 1..n : seq[i] = c
  BY <1>8 DEF Surjection
<1>10. DOMAIN seq = 1..n
  BY <1>5
<1>11. seq \in Seq(Collector) /\ Len(seq) = n
  <2>1. seq \in [1..n -> Collector]
    BY <1>5, HivemindNumbers
  <2>2. seq \in Seq(Collector)
    BY <1>2, <2>1, SeqDef
  <2>3. QED
    BY <1>2, <1>10, <2>2, LenProperties
<1>12. ToSet(seq) = Automatic
  BY <1>5, <1>9, <1>10 DEF ToSet
<1>13. Distinct(seq)
  BY <1>5, <1>10, <1>11 DEF Distinct, IsInjective
<1>14. QED
  BY <1>11, <1>12, <1>13 DEF seq

LEMMA FirstLeaves ==
  ASSUME NEW seq \in Seq(Collector), seq # <<>>, Distinct(seq)
  PROVE  /\ Head(seq) \in ToSet(seq) /\ ToSet(seq) \in SUBSET Collector
         /\ Tail(seq) \in Seq(Collector) /\ Distinct(Tail(seq))
         /\ ToSet(Tail(seq)) = ToSet(seq) \ {Head(seq)}
<1>1. /\ Len(seq) \in Nat /\ Len(seq) > 0 /\ DOMAIN seq = 1..Len(seq)
      /\ \A i \in 1..Len(seq) : seq[i] \in Collector
  BY LenProperties, EmptySeq, ElementOfSeq
<1>2. /\ Tail(seq) \in Seq(Collector) /\ Len(Tail(seq)) = Len(seq) - 1
      /\ \A i \in 1..Len(seq) - 1 : Tail(seq)[i] = seq[i + 1]
  BY HeadTailProperties
<1>3. Head(seq) = seq[1]
  OBVIOUS
<1>4. DOMAIN Tail(seq) = 1..Len(seq) - 1
  BY <1>2, LenProperties
<1>5. ToSet(Tail(seq)) = {seq[i + 1] : i \in 1..Len(seq) - 1}
  BY <1>2, <1>4 DEF ToSet
<1>6. ToSet(seq) = {seq[i] : i \in 1..Len(seq)}
  BY <1>1 DEF ToSet
<1>7. Distinct(Tail(seq))
  BY <1>1, <1>2 DEF Distinct
<1>8. ToSet(Tail(seq)) = ToSet(seq) \ {Head(seq)}
  <2>1. ASSUME NEW c \in ToSet(Tail(seq))
        PROVE  c \in ToSet(seq) \ {Head(seq)}
    <3>1. PICK i \in 1..Len(seq) - 1 : c = seq[i + 1]
      BY <1>5
    <3>2. i + 1 \in 1..Len(seq) /\ 1 \in 1..Len(seq) /\ i + 1 # 1
      BY <1>1, <3>1
    <3>3. QED
      BY <1>3, <1>6, <3>1, <3>2 DEF Distinct
  <2>2. ASSUME NEW c \in ToSet(seq) \ {Head(seq)}
        PROVE  c \in ToSet(Tail(seq))
    <3>1. PICK i \in 1..Len(seq) : c = seq[i] /\ i # 1
      BY <1>3, <1>6
    <3>2. i - 1 \in 1..Len(seq) - 1 /\ (i - 1) + 1 = i
      BY <1>1, <3>1
    <3>3. QED
      BY <1>5, <3>1, <3>2
  <2>3. QED
    BY <2>1, <2>2
<1>9. QED
  BY <1>1, <1>2, <1>3, <1>6, <1>7, <1>8

LEMMA LastJoins ==
  ASSUME NEW seq \in Seq(Collector), Distinct(seq), NEW w \in Collector, w \notin ToSet(seq)
  PROVE  /\ Append(seq, w) \in Seq(Collector) /\ Append(seq, w) # <<>>
         /\ Distinct(Append(seq, w)) /\ ToSet(Append(seq, w)) = ToSet(seq) \cup {w}
<1> DEFINE longer == Append(seq, w)
<1>1. Len(seq) \in Nat /\ DOMAIN seq = 1..Len(seq)
  BY LenProperties
<1>2. /\ longer \in Seq(Collector) /\ longer # <<>> /\ Len(longer) = Len(seq) + 1
      /\ \A i \in 1..Len(seq) : longer[i] = seq[i]
      /\ longer[Len(seq) + 1] = w
  BY AppendProperties
<1> HIDE DEF longer
<1>3. DOMAIN longer = 1..Len(seq) + 1
  BY <1>2, LenProperties
<1>4. 1..Len(seq) + 1 = (1..Len(seq)) \cup {Len(seq) + 1}
  BY <1>1
<1>5. \A i \in 1..Len(seq) : seq[i] \in ToSet(seq)
  BY <1>1 DEF ToSet
<1>6. ToSet(longer) = ToSet(seq) \cup {w}
  BY <1>1, <1>2, <1>3, <1>4 DEF ToSet
<1>7. Distinct(longer)
  <2> SUFFICES ASSUME NEW i \in 1..Len(seq) + 1, NEW j \in 1..Len(seq) + 1,
                      longer[i] = longer[j]
               PROVE  i = j
    BY <1>2 DEF Distinct
  <2>1. CASE i \in 1..Len(seq) /\ j \in 1..Len(seq)
    BY <1>2, <2>1 DEF Distinct
  <2>2. CASE i = Len(seq) + 1 \/ j = Len(seq) + 1
    BY <1>2, <1>4, <1>5, <2>2
  <2>3. QED
    BY <1>4, <2>1, <2>2
<1>8. QED
  BY <1>2, <1>6, <1>7 DEF longer

LEMMA HivemindInitEstablishes == HivemindInit => HivemindIInv
<1> SUFFICES ASSUME HivemindInit
             PROVE  HivemindIInv
  OBVIOUS
<1> USE DEF HivemindInit
<1>1. handles \in Seq(Collector) /\ Len(handles) = 0 /\ DOMAIN handles = {}
  <2>1. handles \in Seq(Collector) /\ Len(handles) = 0
    BY EmptySeq
  <2>2. QED
    BY <2>1, LenProperties
<1>2. HivemindTypes
  BY <1>1 DEF HivemindTypes
<1>3. Spawned
  BY <1>1, IntervalType DEF Spawned, Distinct, ToSet
<1>4. Reaped /\ OnTime
  BY HivemindNumbers DEF Reaped, OnTime
<1>5. QED
  BY <1>2, <1>3, <1>4 DEF HivemindIInv

\* What a spawn leaves: the new collectors in their loops, the others as they were.
LEMMA SpawnFacts ==
  ASSUME HivemindTypes, NEW cs \in SUBSET Collector, Spawn(cs)
  PROVE  /\ thread' \in [Collector -> {"none", "loop", "cleanup", "ended"}]
         /\ shutdown' \in [Collector -> BOOLEAN]
         /\ nap' \in [Collector -> Nat]
         /\ child' \in [Piped -> {"none", "up", "gone"}]
         /\ heir' \in [Wraps -> BOOLEAN]
         /\ reader' \in [Piped -> {"none", "reading", "ended"}]
         /\ \A c \in Collector :
              IF c \in cs
              THEN /\ thread'[c] = "loop" /\ nap'[c] = 0
                   /\ c \in Piped => child'[c] = "none" /\ reader'[c] = "none"
              ELSE /\ thread'[c] = thread[c] /\ nap'[c] = nap[c]
                   /\ c \in Piped => child'[c] = child[c] /\ reader'[c] = reader[c]
<1>1. /\ thread' \in [Collector -> {"none", "loop", "cleanup", "ended"}]
      /\ nap' \in [Collector -> Nat]
  BY HivemindNumbers DEF Spawn, HivemindTypes
<1>2. shutdown' \in [Collector -> BOOLEAN]
  <2>1. \A c \in Collector : (c \notin cs /\ shutdown[c]) \in BOOLEAN
    OBVIOUS
  <2>2. QED
    BY <2>1 DEF Spawn
<1>3. heir' \in [Wraps -> BOOLEAN]
  <2>1. \A c \in Wraps : (c \notin cs /\ heir[c]) \in BOOLEAN
    OBVIOUS
  <2>2. QED
    BY <2>1 DEF Spawn
<1>4. /\ child' \in [Piped -> {"none", "up", "gone"}]
      /\ reader' \in [Piped -> {"none", "reading", "ended"}]
  BY DEF Spawn, HivemindTypes
<1>5. \A c \in Collector :
        IF c \in cs
        THEN /\ thread'[c] = "loop" /\ nap'[c] = 0
             /\ c \in Piped => child'[c] = "none" /\ reader'[c] = "none"
        ELSE /\ thread'[c] = thread[c] /\ nap'[c] = nap[c]
             /\ c \in Piped => child'[c] = child[c] /\ reader'[c] = reader[c]
  BY DEF Spawn
<1>6. QED
  BY <1>1, <1>2, <1>3, <1>4, <1>5

\* The engine grows by the collectors that are spawned, when it is not stopping.
LEMMA Grows ==
  ASSUME HivemindIInv, NEW cs \in SUBSET Collector, Spawn(cs),
         stage # "stopping", stage' = "on", spent' = spent,
         handles' \in Seq(Collector), handles' # <<>>, Distinct(handles'),
         ToSet(handles') = ToSet(handles) \cup cs
  PROVE  HivemindIInv'
<1> USE DEF HivemindIInv
<1>1. HivemindTypes'
  BY SpawnFacts DEF HivemindTypes
<1>2. \A c \in Collector :
        /\ thread'[c] \in {"loop", "cleanup"} => c \in ToSet(handles')
        /\ c \in ToSet(handles') => thread'[c] # "none"
        /\ nap'[c] <= Interval(c)
  <2> SUFFICES ASSUME NEW c \in Collector
               PROVE  /\ thread'[c] \in {"loop", "cleanup"} => c \in ToSet(handles')
                      /\ c \in ToSet(handles') => thread'[c] # "none"
                      /\ nap'[c] <= Interval(c)
    OBVIOUS
  <2>1. CASE c \in cs
    <3>1. thread'[c] = "loop" /\ nap'[c] = 0
      BY <2>1, SpawnFacts
    <3>2. QED
      BY <2>1, <3>1, IntervalType
  <2>2. CASE c \notin cs
    <3>1. thread'[c] = thread[c] /\ nap'[c] = nap[c]
      BY <2>2, SpawnFacts
    <3>2. QED
      BY <2>2, <3>1 DEF Spawned
  <2>3. QED
    BY <2>1, <2>2
<1>3. Spawned'
  BY <1>2 DEF Spawned, Distinct
<1>4. Reaped'
  <2>1. \A c \in Collector : thread'[c] = "cleanup" => c \in Piped
    <3> SUFFICES ASSUME NEW c \in Collector, thread'[c] = "cleanup"
                 PROVE  c \in Piped
      OBVIOUS
    <3>1. thread'[c] = thread[c]
      BY SpawnFacts
    <3>2. QED
      BY <3>1 DEF Reaped
  <2>2. \A c \in Piped :
          /\ thread'[c] # "loop" => child'[c] # "up"
          /\ thread'[c] \in {"none", "ended"} => reader'[c] # "reading"
          /\ child'[c] = "none" => reader'[c] = "none"
    <3> SUFFICES ASSUME NEW c \in Piped
                 PROVE  /\ thread'[c] # "loop" => child'[c] # "up"
                        /\ thread'[c] \in {"none", "ended"} => reader'[c] # "reading"
                        /\ child'[c] = "none" => reader'[c] = "none"
      OBVIOUS
    <3>1. c \in Collector
      BY HivemindNumbers
    <3>2. CASE c \in cs
      BY <3>1, <3>2, SpawnFacts
    <3>3. CASE c \notin cs
      <4>1. thread'[c] = thread[c] /\ child'[c] = child[c] /\ reader'[c] = reader[c]
        BY <3>1, <3>3, SpawnFacts
      <4>2. QED
        BY <4>1 DEF Reaped
    <3>4. QED
      BY <3>2, <3>3
  <2>3. QED
    BY <2>1, <2>2 DEF Reaped
<1>5. OnTime'
  BY DEF OnTime
<1>6. QED
  BY <1>1, <1>3, <1>4, <1>5

LEMMA NoHandle == HivemindIInv /\ stage = "off" => ToSet(handles) = {}
<1> SUFFICES ASSUME HivemindIInv, stage = "off"
             PROVE  ToSet(handles) = {}
  OBVIOUS
<1>1. handles = <<>>
  BY DEF HivemindIInv, Spawned
<1>2. handles \in Seq(Collector) /\ Len(handles) = 0
  BY <1>1, EmptySeq
<1>3. DOMAIN handles = {}
  BY <1>2, LenProperties
<1>4. QED
  BY <1>3 DEF ToSet

LEMMA StartPreserves ==
  ASSUME HivemindIInv, Start
  PROVE  HivemindIInv'
<1>1. /\ stage = "off" /\ stage' = "on" /\ handles' = SetToSeq(Automatic)
      /\ Spawn(Automatic) /\ spent' = spent
  BY DEF Start
<1>2. ToSet(handles) = {} /\ Automatic \in SUBSET Collector /\ Automatic # {}
  BY <1>1, NoHandle, HivemindNumbers
<1>3. handles' \in Seq(Collector) /\ ToSet(handles') = Automatic /\ Distinct(handles')
  BY <1>1, AutomaticInOrder
<1>4. handles' # <<>>
  <2>1. PICK c : c \in ToSet(handles')
    BY <1>2, <1>3
  <2>2. DOMAIN handles' # {}
    BY <2>1 DEF ToSet
  <2>3. QED
    BY <2>2
<1>5. QED
  BY <1>1, <1>2, <1>3, <1>4, Grows

LEMMA AddWrapPreserves ==
  ASSUME HivemindIInv, NEW w \in Wraps, AddWrap(w)
  PROVE  HivemindIInv'
<1> DEFINE before == IF stage = "off" THEN SetToSeq(Automatic) ELSE handles
           cs == IF stage = "off" THEN Automatic \cup {w} ELSE {w}
<1>1. /\ stage # "stopping" /\ w \notin ToSet(handles) /\ stage' = "on"
      /\ handles' = Append(before, w) /\ Spawn(cs) /\ spent' = spent
  BY DEF AddWrap
<1>2. w \in Collector /\ w \notin Automatic /\ cs \in SUBSET Collector
  BY HivemindAssumption DEF Collector
<1>3. /\ before \in Seq(Collector) /\ Distinct(before) /\ w \notin ToSet(before)
      /\ ToSet(before) = IF stage = "off" THEN Automatic ELSE ToSet(handles)
  <2>1. CASE stage = "off"
    BY <1>2, <2>1, AutomaticInOrder
  <2>2. CASE stage # "off"
    BY <1>1, <2>2 DEF HivemindIInv, HivemindTypes, Spawned
  <2>3. QED
    BY <2>1, <2>2
<1>4. stage = "off" => ToSet(handles) = {}
  BY NoHandle
<1>5. ToSet(before) \cup {w} = ToSet(handles) \cup cs
  BY <1>3, <1>4
<1> HIDE DEF before, cs
<1>6. /\ handles' \in Seq(Collector) /\ handles' # <<>> /\ Distinct(handles')
      /\ ToSet(handles') = ToSet(handles) \cup cs
  BY <1>1, <1>2, <1>3, <1>5, LastJoins
<1>7. QED
  BY <1>1, <1>2, <1>6, Grows

LEMMA BeginStopPreserves ==
  ASSUME HivemindIInv, BeginStop
  PROVE  HivemindIInv'
<1> USE DEF HivemindIInv
<1> DEFINE first == Head(handles)
<1>1. /\ stage = "on" /\ stage' = "stopping" /\ spent' = 0
      /\ shutdown' = [shutdown EXCEPT ![first] = TRUE]
      /\ UNCHANGED <<handles, thread, nap, child, heir, reader>>
  BY DEF BeginStop, childVars
<1>2. handles \in Seq(Collector) /\ handles # <<>> /\ Distinct(handles)
  BY <1>1 DEF HivemindTypes, Spawned
<1>3. first \in ToSet(handles) /\ ToSet(handles) \in SUBSET Collector
  BY <1>2, FirstLeaves
<1> HIDE DEF first
<1>4. HivemindTypes'
  BY <1>1 DEF HivemindTypes
<1>5. Spawned' /\ Reaped'
  BY <1>1 DEF Spawned, Reaped, Distinct, ToSet
<1>6. OnTime'
  <2>1. shutdown'[first] = TRUE
    BY <1>1, <1>3 DEF HivemindTypes
  <2>2. /\ Cost(ToSet(handles) \ {first}) + Interval(first) = Cost(ToSet(handles))
        /\ Cost(ToSet(handles)) <= StopTime
    BY <1>3, CostOfOne
  <2>3. Cost(ToSet(handles) \ {first}) \in Nat /\ Cost(ToSet(handles)) \in Nat
        /\ Interval(first) \in Nat
    BY <1>3, CostOfOne, IntervalType
  <2>4. nap[first] \in Nat /\ nap[first] <= Interval(first)
    BY <1>3 DEF HivemindTypes, Spawned
  <2>5. StopTime \in Nat
    BY StopTimeType
  <2>6. 0 + (IF thread[first] = "loop" THEN nap[first] ELSE 0)
          + Cost(ToSet(handles) \ {first}) <= StopTime
    BY <2>2, <2>3, <2>4, <2>5
  <2>7. first = Head(handles)'
    BY <1>1 DEF first
  <2>8. QED
    BY <1>1, <2>1, <2>6, <2>7 DEF OnTime
<1>7. QED
  BY <1>4, <1>5, <1>6

LEMMA JoinNextPreserves ==
  ASSUME HivemindIInv, JoinNext
  PROVE  HivemindIInv'
<1> USE DEF HivemindIInv
<1> DEFINE first == Head(handles)
           second == Head(handles')
<1>1. /\ stage = "stopping" /\ thread[first] = "ended" /\ handles' = Tail(handles)
      /\ IF handles' = <<>>
         THEN stage' = "off" /\ spent' = 0 /\ shutdown' = shutdown
         ELSE /\ stage' = stage /\ spent' = spent
              /\ shutdown' = [shutdown EXCEPT ![second] = TRUE]
      /\ UNCHANGED <<thread, nap, child, heir, reader>>
  BY DEF JoinNext, Joining, childVars
<1>2. handles \in Seq(Collector) /\ handles # <<>> /\ Distinct(handles)
  BY <1>1 DEF HivemindTypes, Spawned
<1>3. /\ first \in ToSet(handles) /\ ToSet(handles) \in SUBSET Collector
      /\ handles' \in Seq(Collector) /\ Distinct(handles')
      /\ ToSet(handles') = ToSet(handles) \ {first}
  BY <1>1, <1>2, FirstLeaves
<1>4. handles' # <<>> => /\ second \in ToSet(handles')
                         /\ ToSet(handles') \in SUBSET Collector
  BY <1>3, FirstLeaves
<1> HIDE DEF first, second
<1>5. HivemindTypes'
  <2>1. shutdown' \in [Collector -> BOOLEAN]
    <3>1. shutdown \in [Collector -> BOOLEAN]
      BY DEF HivemindTypes
    <3>2. [shutdown EXCEPT ![second] = TRUE] \in [Collector -> BOOLEAN]
      BY <3>1
    <3>3. QED
      BY <1>1, <3>1, <3>2
  <2>2. stage' \in {"off", "on", "stopping"} /\ spent' \in Nat
    BY <1>1 DEF HivemindTypes
  <2>3. QED
    BY <1>1, <1>3, <2>1, <2>2 DEF HivemindTypes
<1>6. Spawned'
  <2>1. stage' = "off" <=> handles' = <<>>
    BY <1>1
  <2>2. \A c \in Collector :
          /\ thread'[c] \in {"loop", "cleanup"} => c \in ToSet(handles')
          /\ c \in ToSet(handles') => thread'[c] # "none"
          /\ nap'[c] <= Interval(c)
    BY <1>1, <1>3 DEF Spawned
  <2>3. Distinct(handles)'
    BY <1>3 DEF Distinct
  <2>4. QED
    BY <2>1, <2>2, <2>3 DEF Spawned
<1>7. Reaped'
  BY <1>1 DEF Reaped
<1>8. OnTime'
  <2>1. CASE handles' = <<>>
    BY <1>1, <2>1 DEF OnTime
  <2>2. CASE handles' # <<>>
    <3>1. shutdown'[second] = TRUE
      BY <1>1, <1>3, <1>4, <2>2 DEF HivemindTypes
    <3>2. Cost(ToSet(handles') \ {second}) + Interval(second) = Cost(ToSet(handles'))
      BY <1>4, <2>2, CostOfOne
    <3>3. /\ Cost(ToSet(handles') \ {second}) \in Nat /\ Cost(ToSet(handles')) \in Nat
          /\ Interval(second) \in Nat
      BY <1>4, <2>2, CostOfOne, IntervalType
    <3>4. nap'[second] \in Nat /\ nap'[second] <= Interval(second)
      BY <1>1, <1>4, <2>2 DEF HivemindTypes, Spawned
    <3>5. spent \in Nat /\ StopTime \in Nat
      BY StopTimeType DEF HivemindTypes
    <3>6. ~HeirsStay => spent + Cost(ToSet(handles')) <= StopTime
      <4>1. ~HeirsStay => spent + 0 + Cost(ToSet(handles) \ {first}) <= StopTime
        BY <1>1 DEF OnTime, first
      <4>2. QED
        BY <1>3, <3>3, <3>5, <4>1
    <3>7. ~HeirsStay => spent' + (IF thread'[second] = "loop" THEN nap'[second] ELSE 0)
                          + Cost(ToSet(handles') \ {second}) <= StopTime
      BY <1>1, <2>2, <3>2, <3>3, <3>4, <3>5, <3>6
    <3>8. second = Head(handles)'
      BY DEF second
    <3>9. QED
      BY <3>1, <3>7, <3>8 DEF OnTime
  <2>3. QED
    BY <2>1, <2>2
<1>9. QED
  BY <1>5, <1>6, <1>7, <1>8

\* A step of a collector or of a pipe: it does not lengthen the nap of a
\* collector whose flag is up.
LEMMA QuietStep ==
  ASSUME HivemindIInv, UNCHANGED <<stage, handles, spent, shutdown>>, HivemindTypes', Reaped',
         \A c \in Collector :
           /\ thread'[c] # thread[c] => thread[c] \in {"loop", "cleanup"}
                                          /\ thread'[c] \in {"cleanup", "ended"}
           /\ nap'[c] # nap[c] => nap'[c] <= Interval(c) /\ shutdown[c] # TRUE
  PROVE  HivemindIInv'
<1> USE DEF HivemindIInv
<1>1. Spawned'
  <2>1. Distinct(handles)' /\ (stage' = "off" <=> handles' = <<>>)
        /\ ToSet(handles') = ToSet(handles)
    BY DEF Spawned, Distinct
  <2>2. \A c \in Collector :
          /\ thread'[c] \in {"loop", "cleanup"} => c \in ToSet(handles)
          /\ c \in ToSet(handles) => thread'[c] # "none"
    <3> SUFFICES ASSUME NEW c \in Collector
                 PROVE  /\ thread'[c] \in {"loop", "cleanup"} => c \in ToSet(handles)
                        /\ c \in ToSet(handles) => thread'[c] # "none"
      OBVIOUS
    <3>1. CASE thread'[c] = thread[c]
      BY <3>1 DEF Spawned
    <3>2. CASE thread'[c] # thread[c]
      BY <3>2 DEF Spawned
    <3>3. QED
      BY <3>1, <3>2
  <2>3. \A c \in Collector : nap'[c] <= Interval(c)
    <3> SUFFICES ASSUME NEW c \in Collector
                 PROVE  nap'[c] <= Interval(c)
      OBVIOUS
    <3>1. CASE nap'[c] = nap[c]
      BY <3>1 DEF Spawned
    <3>2. CASE nap'[c] # nap[c]
      BY <3>2
    <3>3. QED
      BY <3>1, <3>2
  <2>4. QED
    BY <2>1, <2>2, <2>3 DEF Spawned
<1>2. OnTime'
  <2> SUFFICES ASSUME stage = "stopping"
               PROVE  OnTime'
    BY DEF OnTime
  <2> DEFINE first == Head(handles)
             rest == Cost(ToSet(handles) \ {first})
  <2>1. handles \in Seq(Collector) /\ handles # <<>> /\ Distinct(handles)
    BY DEF HivemindTypes, Spawned
  <2>2. first \in Collector
    BY <2>1, FirstLeaves
  <2>3. rest \in Nat
    BY <2>1, FirstLeaves, CostOfOne
  <2>4. shutdown[first] = TRUE /\ shutdown'[first] = TRUE
    BY DEF OnTime
  <2>5. nap'[first] = nap[first] /\ nap[first] \in Nat
    BY <2>2, <2>4 DEF HivemindTypes
  <2>6. thread'[first] = "loop" => thread[first] = "loop"
    BY <2>2
  <2>7. ~HeirsStay =>
          spent + (IF thread[first] = "loop" THEN nap[first] ELSE 0) + rest <= StopTime
    BY DEF OnTime
  <2> HIDE DEF rest
  <2>8. ~HeirsStay =>
          spent + (IF thread'[first] = "loop" THEN nap'[first] ELSE 0) + rest <= StopTime
    BY <2>3, <2>5, <2>6, <2>7, StopTimeType DEF HivemindTypes
  <2>9. first = Head(handles)' /\ rest = Cost(ToSet(handles) \ {Head(handles)})'
    BY DEF rest, ToSet, Cost
  <2>10. QED
    BY <2>4, <2>8, <2>9 DEF OnTime
<1>3. QED
  BY <1>1, <1>2

LEMMA PollPreserves ==
  ASSUME HivemindIInv, Poll
  PROVE  HivemindIInv'
<1>1. UNCHANGED <<stage, handles, spent, thread, shutdown, nap, child, heir, reader>>
  BY DEF Poll, engineVars, collectorVars, childVars
<1>2. HivemindTypes' /\ Reaped'
  BY <1>1 DEF HivemindIInv, HivemindTypes, Reaped
<1>3. QED
  BY <1>1, <1>2, QuietStep

LEMMA PollerTurnPreserves ==
  ASSUME HivemindIInv, NEW q \in Pollers, PollerTurn(q)
  PROVE  HivemindIInv'
<1> USE DEF HivemindIInv
<1>1. /\ UNCHANGED <<stage, handles, spent, shutdown, child, heir, reader>>
      /\ thread[q] = "loop"
      /\ \/ /\ ~shutdown[q] /\ thread' = thread
            /\ \E t \in {0, PollTime} : nap' = [nap EXCEPT ![q] = t]
         \/ thread' = [thread EXCEPT ![q] = "ended"] /\ nap' = nap
  BY DEF PollerTurn, Awake, Sleeps, Ends, engineVars, childVars
<1>2. q \in Collector /\ q \notin Piped /\ PollTime \in Nat
  BY HivemindNumbers DEF Piped
<1>3. HivemindTypes'
  <2>1. nap' \in [Collector -> Nat]
    <3>1. nap \in [Collector -> Nat]
      BY DEF HivemindTypes
    <3>2. \A t \in {0, PollTime} : [nap EXCEPT ![q] = t] \in [Collector -> Nat]
      BY <1>2, <3>1
    <3>3. QED
      BY <1>1, <3>1, <3>2
  <2>2. thread' \in [Collector -> {"none", "loop", "cleanup", "ended"}]
    BY <1>1, <1>2 DEF HivemindTypes
  <2>3. QED
    BY <1>1, <2>1, <2>2 DEF HivemindTypes
<1>4. \A c \in Collector : /\ thread'[c] = thread[c] \/ (c = q /\ thread'[c] = "ended")
                           /\ nap'[c] # nap[c] => /\ c = q /\ nap'[c] <= PollTime
                                                  /\ ~shutdown[c]
  BY <1>1, <1>2 DEF HivemindTypes
<1>5. Reaped'
  <2>1. Piped \subseteq Collector
    BY HivemindNumbers
  <2>2. QED
    BY <1>1, <1>2, <1>4, <2>1 DEF Reaped
<1>6. QED
  BY <1>1, <1>2, <1>3, <1>4, <1>5, QuietStep DEF Interval

LEMMA TailTurnPreserves ==
  ASSUME HivemindIInv, NEW q \in Tails, TailTurn(q)
  PROVE  HivemindIInv'
<1> USE DEF HivemindIInv
<1>1. /\ UNCHANGED <<stage, handles, spent, shutdown, heir, thread>>
      /\ thread[q] = "loop" /\ ~shutdown[q]
      /\ \E t \in {TailTime, TailTime + ScanTime} : nap' = [nap EXCEPT ![q] = t]
      /\ \/ UNCHANGED <<child, reader>>
         \/ child' = [child EXCEPT ![q] = "up"] /\ reader' = [reader EXCEPT ![q] = "reading"]
  BY DEF TailTurn, Awake, Sleeps, Follow, engineVars
<1>2. /\ q \in Collector /\ q \in Piped /\ q \notin Pollers
      /\ TailTime \in Nat /\ ScanTime \in Nat /\ Piped \subseteq Collector
  BY HivemindNumbers
<1>3. HivemindTypes'
  <2>1. nap' \in [Collector -> Nat]
    BY <1>1, <1>2 DEF HivemindTypes
  <2>2. /\ child' \in [Piped -> {"none", "up", "gone"}]
        /\ reader' \in [Piped -> {"none", "reading", "ended"}]
    BY <1>1, <1>2 DEF HivemindTypes
  <2>3. QED
    BY <1>1, <2>1, <2>2 DEF HivemindTypes
<1>4. \A c \in Collector : nap'[c] # nap[c] => /\ c = q /\ nap'[c] <= TailTime + ScanTime
                                               /\ ~shutdown[c]
  BY <1>1, <1>2 DEF HivemindTypes
<1>5. \A c \in Piped : \/ child'[c] = child[c] /\ reader'[c] = reader[c]
                       \/ c = q /\ child'[c] = "up" /\ reader'[c] = "reading"
  BY <1>1, <1>2 DEF HivemindTypes
<1>6. Reaped'
  BY <1>1, <1>5 DEF Reaped
<1>7. QED
  BY <1>1, <1>2, <1>3, <1>4, <1>6, QuietStep DEF Interval

LEMMA WrapStartsPreserves ==
  ASSUME HivemindIInv, NEW q \in Wraps, WrapStarts(q)
  PROVE  HivemindIInv'
<1> USE DEF HivemindIInv
<1>1. /\ UNCHANGED <<stage, handles, spent, shutdown, heir, nap>>
      /\ thread[q] = "loop" /\ child[q] = "none"
      /\ \/ /\ child' = [child EXCEPT ![q] = "up"] /\ reader' = [reader EXCEPT ![q] = "reading"]
            /\ thread' = thread
         \/ thread' = [thread EXCEPT ![q] = "ended"] /\ UNCHANGED <<child, reader>>
  BY DEF WrapStarts, Awake, Ends, engineVars
<1>2. q \in Collector /\ q \in Piped /\ Piped \subseteq Collector
  BY HivemindNumbers
<1>3. HivemindTypes'
  BY <1>1, <1>2 DEF HivemindTypes
<1>4. \/ /\ \A c \in Collector : thread'[c] = thread[c]
         /\ \A c \in Piped : \/ child'[c] = child[c] /\ reader'[c] = reader[c]
                             \/ c = q /\ child'[c] = "up" /\ reader'[c] = "reading"
      \/ /\ \A c \in Collector : thread'[c] = thread[c] \/ (c = q /\ thread'[c] = "ended")
         /\ child' = child /\ reader' = reader
  BY <1>1, <1>2 DEF HivemindTypes
<1>5. reader[q] # "reading"
  BY <1>1, <1>2 DEF Reaped
<1>6. Reaped'
  BY <1>1, <1>2, <1>4, <1>5 DEF Reaped
<1>7. QED
  BY <1>1, <1>3, <1>4, <1>6, QuietStep

LEMMA WrapWaitsPreserves ==
  ASSUME HivemindIInv, NEW q \in Wraps, WrapWaits(q)
  PROVE  HivemindIInv'
<1> USE DEF HivemindIInv
<1>1. /\ UNCHANGED <<stage, handles, spent, shutdown, thread, child, heir, reader>>
      /\ ~shutdown[q] /\ nap' = [nap EXCEPT ![q] = WrapTime]
  BY DEF WrapWaits, Sleeps, engineVars, childVars
<1>2. /\ q \in Collector /\ q \notin Pollers /\ q \notin Tails /\ WrapTime \in Nat
  BY HivemindNumbers
<1>3. HivemindTypes' /\ Reaped'
  BY <1>1, <1>2 DEF HivemindTypes, Reaped
<1>4. \A c \in Collector : nap'[c] # nap[c] => c = q /\ nap'[c] <= WrapTime /\ ~shutdown[c]
  BY <1>1, <1>2 DEF HivemindTypes
<1>5. QED
  BY <1>1, <1>2, <1>3, <1>4, QuietStep DEF Interval

LEMMA LeavesLoopPreserves ==
  ASSUME HivemindIInv, NEW q \in Piped, LeavesLoop(q)
  PROVE  HivemindIInv'
<1> USE DEF HivemindIInv
<1>1. /\ UNCHANGED <<stage, handles, spent, shutdown, nap, heir, reader>>
      /\ thread[q] = "loop" /\ thread' = [thread EXCEPT ![q] = "cleanup"]
      /\ child' = [child EXCEPT ![q] = IF @ = "up" THEN "gone" ELSE @]
  BY DEF LeavesLoop, KillChild, Awake, engineVars
<1>2. q \in Collector /\ Piped \subseteq Collector
  BY HivemindNumbers
<1>3. HivemindTypes'
  BY <1>1, <1>2 DEF HivemindTypes
<1>4. /\ \A c \in Collector : thread'[c] = IF c = q THEN "cleanup" ELSE thread[c]
      /\ \A c \in Piped : child'[c] = IF c = q /\ child[c] = "up" THEN "gone" ELSE child[c]
  BY <1>1, <1>2 DEF HivemindTypes
<1>5. Reaped'
  BY <1>1, <1>2, <1>4 DEF Reaped
<1>6. QED
  BY <1>1, <1>3, <1>4, <1>5, QuietStep

LEMMA JoinReaderPreserves ==
  ASSUME HivemindIInv, NEW q \in Piped, JoinReader(q)
  PROVE  HivemindIInv'
<1> USE DEF HivemindIInv
<1>1. /\ UNCHANGED <<stage, handles, spent, shutdown, nap, child, heir, reader>>
      /\ thread[q] = "cleanup" /\ reader[q] # "reading"
      /\ thread' = [thread EXCEPT ![q] = "ended"]
  BY DEF JoinReader, Ends, engineVars, childVars
<1>2. q \in Collector /\ Piped \subseteq Collector
  BY HivemindNumbers
<1>3. HivemindTypes'
  BY <1>1, <1>2 DEF HivemindTypes
<1>4. \A c \in Collector : thread'[c] = IF c = q THEN "ended" ELSE thread[c]
  BY <1>1, <1>2 DEF HivemindTypes
<1>5. Reaped'
  BY <1>1, <1>2, <1>4 DEF Reaped
<1>6. QED
  BY <1>1, <1>3, <1>4, <1>5, QuietStep

\* A reader may end, a child may end, an heir may come or go at any time.
LEMMA PipeStep ==
  ASSUME HivemindIInv, UNCHANGED <<stage, handles, spent, thread, shutdown, nap>>,
         HivemindTypes',
         \A c \in Piped : /\ child'[c] = child[c] \/ child'[c] = "gone"
                          /\ reader'[c] = reader[c] \/ reader'[c] = "ended"
                          /\ reader'[c] # reader[c] => reader[c] = "reading"
  PROVE  HivemindIInv'
<1>1. Reaped'
  BY DEF HivemindIInv, Reaped
<1>2. QED
  BY <1>1, QuietStep

LEMMA PipesPreserve ==
  ASSUME HivemindIInv, NEW q \in Piped, ReadLine(q) \/ EndOfPipe(q)
  PROVE  HivemindIInv'
<1>1. /\ UNCHANGED <<stage, handles, spent, thread, shutdown, nap, child, heir>>
      /\ reader[q] = "reading"
      /\ reader' = reader \/ reader' = [reader EXCEPT ![q] = "ended"]
  <2>1. reader \in [Piped -> {"none", "reading", "ended"}]
    BY DEF HivemindIInv, HivemindTypes
  <2>2. [reader EXCEPT ![q] = reader[q]] = reader
    BY <2>1
  <2>3. CASE ReadLine(q)
    BY <2>2, <2>3 DEF ReadLine, engineVars, collectorVars
  <2>4. CASE EndOfPipe(q)
    BY <2>4 DEF EndOfPipe, engineVars, collectorVars
  <2>5. QED
    BY <2>3, <2>4
<1>2. HivemindTypes'
  BY <1>1 DEF HivemindIInv, HivemindTypes
<1>3. \A c \in Piped : reader'[c] = reader[c] \/ (c = q /\ reader'[c] = "ended")
  BY <1>1 DEF HivemindIInv, HivemindTypes
<1>4. QED
  BY <1>1, <1>2, <1>3, PipeStep

LEMMA ChildrenPreserve ==
  ASSUME HivemindIInv, NEW q \in Piped,
         \/ q \in Tails /\ ContainerTurns(q)
         \/ q \in Wraps /\ (CommandEnds(q) \/ Forks(q) \/ HeirEnds(q))
  PROVE  HivemindIInv'
<1> USE DEF HivemindIInv
<1>1. /\ UNCHANGED <<stage, handles, spent, thread, shutdown, nap, reader>>
      /\ \/ child' = child
         \/ child' = [child EXCEPT ![q] = "gone"]
         \/ child' = [child EXCEPT ![q] = IF @ = "up" THEN "gone" ELSE @]
      /\ heir' = heir \/ \E b \in BOOLEAN : heir' = [heir EXCEPT ![q] = b]
  BY DEF ContainerTurns, CommandEnds, Forks, HeirEnds, engineVars, collectorVars
<1>2. HivemindTypes'
  BY <1>1 DEF HivemindTypes
<1>3. \A c \in Piped : child'[c] = child[c] \/ child'[c] = "gone"
  BY <1>1 DEF HivemindTypes
<1>4. QED
  BY <1>1, <1>2, <1>3, PipeStep

\* Time passes for stop() only while the collector it joins is in its loop, and
\* asleep: out of its loop it can move until it has ended.
LEMMA TenthPreserves ==
  ASSUME HivemindIInv, TenthPasses
  PROVE  HivemindIInv'
<1> USE DEF HivemindIInv
<1>1. /\ UNCHANGED <<stage, handles, thread, shutdown, child, heir, reader>>
      /\ ~HeirsStay => \A c \in Wraps : heir[c] => child[c] = "up"
      /\ \A c \in Collector : ~CanMove(c)
      /\ stage = "stopping" => thread[Head(handles)] # "ended"
      /\ nap' = [c \in Collector |-> IF nap[c] = 0 THEN 0 ELSE nap[c] - 1]
      /\ spent' = IF stage = "stopping" /\ spent <= StopTime THEN spent + 1 ELSE spent
  BY DEF TenthPasses, Joining, childVars
<1>2. spent \in Nat /\ spent' \in Nat /\ spent' <= spent + 1 /\ StopTime \in Nat
  BY <1>1, StopTimeType DEF HivemindTypes
<1>3. \A c \in Collector : /\ nap[c] \in Nat /\ nap'[c] \in Nat /\ nap'[c] <= nap[c]
                           /\ nap[c] # 0 => nap'[c] = nap[c] - 1
  BY <1>1 DEF HivemindTypes
<1>4. HivemindTypes'
  BY <1>1, <1>2, <1>3 DEF HivemindTypes
<1>5. Spawned'
  <2>1. \A c \in Collector : nap'[c] <= Interval(c)
    <3> SUFFICES ASSUME NEW c \in Collector
                 PROVE  nap'[c] <= Interval(c)
      OBVIOUS
    <3>1. nap[c] <= Interval(c) /\ Interval(c) \in Nat
      BY IntervalType DEF Spawned
    <3>2. QED
      BY <1>3, <3>1
  <2>2. QED
    BY <1>1, <2>1 DEF Spawned, Distinct, ToSet
<1>6. Reaped'
  BY <1>1 DEF Reaped
<1>7. OnTime'
  <2> SUFFICES ASSUME stage = "stopping"
               PROVE  OnTime'
    BY <1>1 DEF OnTime
  <2> DEFINE first == Head(handles)
             rest == Cost(ToSet(handles) \ {first})
  <2>1. handles \in Seq(Collector) /\ handles # <<>> /\ Distinct(handles)
    BY DEF HivemindTypes, Spawned
  <2>2. first \in Collector /\ first \in ToSet(handles)
    BY <2>1, FirstLeaves
  <2>3. rest \in Nat
    BY <2>1, FirstLeaves, CostOfOne
  <2>4. shutdown'[first] = TRUE
    BY <1>1 DEF OnTime
  <2>5. ~CanMove(first) /\ thread[first] # "ended" /\ thread[first] # "none"
    BY <1>1, <2>2 DEF Spawned
  <2>6. ASSUME ~HeirsStay
        PROVE  thread[first] = "loop" /\ nap[first] # 0
    <3>1. thread[first] # "cleanup"
      <4> SUFFICES ASSUME thread[first] = "cleanup"
                   PROVE  FALSE
        OBVIOUS
      <4>1. first \in Piped
        BY <2>2 DEF Reaped
      <4>2. child[first] # "up"
        BY <4>1 DEF Reaped
      <4>3. ~PipeOpen(first)
        BY <1>1, <2>6, <4>2 DEF PipeOpen
      <4>4. QED
        BY <2>5, <4>1, <4>3 DEF CanMove
    <3>2. thread[first] = "loop"
      BY <2>2, <2>5, <3>1 DEF HivemindTypes
    <3>3. nap[first] # 0
      BY <2>5, <3>2 DEF CanMove, Awake, SendReturns
    <3>4. QED
      BY <3>2, <3>3
  <2>7. ~HeirsStay =>
          spent + (IF thread[first] = "loop" THEN nap[first] ELSE 0) + rest <= StopTime
    BY DEF OnTime
  <2> HIDE DEF rest
  <2>8. ~HeirsStay =>
          spent' + (IF thread[first] = "loop" THEN nap'[first] ELSE 0) + rest <= StopTime
    <3> SUFFICES ASSUME ~HeirsStay
                 PROVE  spent' + nap'[first] + rest <= StopTime
      BY <2>6
    <3>1. spent + nap[first] + rest <= StopTime
      BY <2>6, <2>7
    <3>2. nap'[first] = nap[first] - 1 /\ nap[first] \in Nat
      BY <1>3, <2>2, <2>6
    <3>3. QED
      BY <1>2, <2>3, <3>1, <3>2
  <2>9. /\ first = Head(handles)' /\ thread' = thread
        /\ rest = Cost(ToSet(handles) \ {Head(handles)})'
    BY <1>1 DEF rest, ToSet, Cost
  <2>10. QED
    BY <2>4, <2>8, <2>9 DEF OnTime
<1>8. QED
  BY <1>4, <1>5, <1>6, <1>7

LEMMA HivemindNextPreserves == HivemindIInv /\ [HivemindNext]_hivemindVars => HivemindIInv'
<1> SUFFICES ASSUME HivemindIInv, [HivemindNext]_hivemindVars
             PROVE  HivemindIInv'
  OBVIOUS
<1>1. CASE Start
  BY <1>1, StartPreserves
<1>2. CASE Poll
  BY <1>2, PollPreserves
<1>3. CASE BeginStop
  BY <1>3, BeginStopPreserves
<1>4. CASE JoinNext
  BY <1>4, JoinNextPreserves
<1>5. CASE TenthPasses
  BY <1>5, TenthPreserves
<1>6. ASSUME NEW c \in Pollers, PollerTurn(c)
      PROVE  HivemindIInv'
  BY <1>6, PollerTurnPreserves
<1>7. ASSUME NEW c \in Tails, TailTurn(c) \/ ContainerTurns(c)
      PROVE  HivemindIInv'
  <2>1. c \in Piped
    BY DEF Piped
  <2>2. QED
    BY <1>7, <2>1, TailTurnPreserves, ChildrenPreserve
<1>8. ASSUME NEW c \in Wraps, AddWrap(c) \/ WrapStarts(c) \/ WrapWaits(c)
      PROVE  HivemindIInv'
  BY <1>8, AddWrapPreserves, WrapStartsPreserves, WrapWaitsPreserves
<1>9. ASSUME NEW c \in Wraps, CommandEnds(c) \/ Forks(c) \/ HeirEnds(c)
      PROVE  HivemindIInv'
  <2>1. c \in Piped
    BY DEF Piped
  <2>2. QED
    BY <1>9, <2>1, ChildrenPreserve
<1>10. ASSUME NEW c \in Piped, LeavesLoop(c) \/ JoinReader(c) \/ ReadLine(c) \/ EndOfPipe(c)
       PROVE  HivemindIInv'
  BY <1>10, LeavesLoopPreserves, JoinReaderPreserves, PipesPreserve
<1>11. CASE UNCHANGED hivemindVars
  <2>1. UNCHANGED <<stage, handles, spent, thread, shutdown, nap, child, heir, reader>>
    BY <1>11 DEF hivemindVars, engineVars, collectorVars, childVars
  <2>2. HivemindTypes' /\ Reaped'
    BY <2>1 DEF HivemindIInv, HivemindTypes, Reaped
  <2>3. QED
    BY <2>1, <2>2, QuietStep
<1>12. QED
  BY <1>1, <1>2, <1>3, <1>4, <1>5, <1>6, <1>7, <1>8, <1>9, <1>10, <1>11 DEF HivemindNext

LEMMA HivemindHolds == HivemindSpec => []HivemindIInv
  BY HivemindInitEstablishes, HivemindNextPreserves, PTL DEF HivemindSpec

\* When stop() has returned no thread of the engine runs, no child process is up
\* and no pipe is read, whatever collectors there are, however full the channel
\* is and whatever processes a command has left behind.
NothingIsLeft ==
  stage = "off" =>
    /\ \A c \in Collector : thread[c] \in {"none", "ended"}
    /\ \A c \in Piped : child[c] # "up" /\ reader[c] # "reading"

LEMMA NoneRunsWhenOff == HivemindIInv => NothingIsLeft
<1> SUFFICES ASSUME HivemindIInv, stage = "off"
             PROVE  /\ \A c \in Collector : thread[c] \in {"none", "ended"}
                    /\ \A c \in Piped : child[c] # "up" /\ reader[c] # "reading"
  BY DEF NothingIsLeft
<1> USE DEF HivemindIInv
<1>1. \A c \in Collector : thread[c] \in {"none", "ended"}
  BY NoHandle DEF Spawned, HivemindTypes
<1>2. QED
  BY <1>1, HivemindNumbers DEF Reaped

\* Nothing outlives HivemindEngine::stop(), heirs or not.
THEOREM StopLeavesNothing == HivemindSpec => []NothingIsLeft
  BY NoneRunsWhenOff, HivemindHolds, PTL

\* And as long as what a command starts does not outlive it, stop() holds the
\* render thread no longer than the sum of the collectors' intervals, for any
\* number of collectors and a channel of any size.
THEOREM StopHoldsUpNobody == HivemindSpec => [](~HeirsStay => StopIsBrief)
<1>1. HivemindIInv => (~HeirsStay => StopIsBrief)
  <2> SUFFICES ASSUME HivemindIInv, ~HeirsStay
               PROVE  StopIsBrief
    OBVIOUS
  <2> USE DEF HivemindIInv
  <2>1. ASSUME stage = "stopping"
        PROVE  spent <= StopTime
    <3> DEFINE first == Head(handles)
               rest == Cost(ToSet(handles) \ {first})
    <3>1. handles \in Seq(Collector) /\ handles # <<>> /\ Distinct(handles)
      BY <2>1 DEF HivemindTypes, Spawned
    <3>2. first \in Collector /\ ToSet(handles) \in SUBSET Collector
      BY <3>1, FirstLeaves
    <3>3. rest \in Nat
      BY <3>2, CostOfOne
    <3>4. nap[first] \in Nat /\ spent \in Nat /\ StopTime \in Nat
      BY <3>2, StopTimeType DEF HivemindTypes
    <3>5. spent + (IF thread[first] = "loop" THEN nap[first] ELSE 0) + rest <= StopTime
      BY <2>1 DEF OnTime
    <3> HIDE DEF rest, first
    <3>6. QED
      BY <3>3, <3>4, <3>5
  <2>2. QED
    BY <2>1, NoneRunsWhenOff DEF StopIsBrief, NothingIsLeft
<1>2. QED
  BY <1>1, HivemindHolds, PTL

-----------------------------------------------------------------------------
(***************************************************************************)
(* The phases of the memory view's chip.                                   *)
(***************************************************************************)
\* A set of numbers that is not empty has a least element.
LEMMA LeastElement ==
  ASSUME NEW T, T \subseteq Nat, T # {}
  PROVE  \E x \in T : \A y \in T : x <= y
<1> DEFINE R == {p \in Nat \X Nat : p[1] < p[2]}
<1>1. R = OpToRel(<, Nat)
  BY DEF OpToRel
<1>2. IsWellFoundedOn(R, Nat)
  BY <1>1, NatLessThanWellFounded
<1> HIDE DEF R
<1>3. \E x \in T : \A y \in T : ~ (<<y, x>> \in R)
  BY <1>2, WFMin
<1>4. ASSUME NEW x \in Nat, NEW y \in Nat, y < x
      PROVE  <<y, x>> \in R
  BY <1>4 DEF R
<1>5. \A x, y \in Nat : ~(y < x) => x <= y
  OBVIOUS
<1>6. QED
  BY <1>3, <1>4, <1>5

\* What a chip draws, at rest or at work.
Powers == RestPower \cup WorkPower

\* The dwell and the time to settle are at least a frame.
LEMMA Limits ==
  /\ EvictDwell \in Nat /\ EvictDwell > 0
  /\ Settled \in Nat /\ Settled > 0
<1>1. EvictDwell \in {EvictDwell, Settled} /\ Settled \in {EvictDwell, Settled}
  OBVIOUS
<1>2. EvictDwell \in Nat \ {0} /\ Settled \in Nat \ {0}
  BY <1>1, DefragAssumption
<1> QED BY <1>2

\* There is a function that halves a distance: for no number of frames is it
\* the first without one.
LEMMA HalvingsExist ==
  ASSUME NEW gap \in Nat
  PROVE  \A n \in Nat : \E h : h = [k \in 0..n |-> IF k = 0 THEN gap ELSE h[k - 1] \div 2]
<1> DEFINE Has(n) == \E h : h = [k \in 0..n |-> IF k = 0 THEN gap ELSE h[k - 1] \div 2]
<1> DEFINE T == {n \in Nat : ~ Has(n)}
<1> SUFFICES ASSUME T # {} PROVE FALSE
  OBVIOUS
<1>1. PICK n \in T : \A m \in T : n <= m
  <2> HIDE DEF T
  <2>1. T \subseteq Nat
    BY DEF T
  <2> QED BY <2>1, LeastElement
<1>2. CASE n = 0
  <2> DEFINE h == [k \in 0..0 |-> gap]
  <2>1. h = [k \in 0..0 |-> IF k = 0 THEN gap ELSE h[k - 1] \div 2]
    OBVIOUS
  <2>2. Has(0)
    BY <2>1
  <2> QED BY <2>2, <1>2
<1>3. CASE n > 0
  <2>1. n \in Nat /\ n - 1 \in Nat /\ ~ (n <= n - 1)
    BY <1>3
  <2>2. n - 1 \notin T
    BY <2>1, <1>1
  <2>3. Has(n - 1)
    BY <2>1, <2>2
  <2>4. PICK h : h = [k \in 0..(n - 1) |-> IF k = 0 THEN gap ELSE h[k - 1] \div 2]
    BY <2>3
  <2> DEFINE e == [k \in 0..n |-> IF k < n THEN h[k] ELSE h[n - 1] \div 2]
  <2>5. ASSUME NEW k \in 0..n
        PROVE  e[k] = IF k = 0 THEN gap ELSE e[k - 1] \div 2
    <3>1. CASE k = 0
      BY <3>1, <2>1, <2>4, <1>3
    <3>2. CASE k > 0 /\ k < n
      <4>1. k \in 0..(n - 1) /\ k - 1 \in 0..n /\ k - 1 < n
        BY <3>2, <2>1
      <4>2. h[k] = h[k - 1] \div 2
        BY <4>1, <3>2, <2>4
      <4> QED BY <4>1, <4>2, <3>2
    <3>3. CASE k = n
      BY <3>3, <2>1, <1>3
    <3> QED BY <3>1, <3>2, <3>3, <2>1
  <2>6. e = [k \in 0..n |-> IF k = 0 THEN gap ELSE e[k - 1] \div 2]
    <3> HIDE DEF e
    <3>1. e = [k \in 0..n |-> e[k]]
      BY DEF e
    <3> QED BY <3>1, <2>5
  <2>7. Has(n)
    BY <2>6
  <2> QED BY <2>7
<1> QED BY <1>2, <1>3

\* What Halvings computes.
LEMMA HalvingsFacts ==
  ASSUME NEW gap \in Nat
  PROVE  /\ Halvings(gap)[0] = gap
         /\ \A n \in 1..Settled : Halvings(gap)[n] = Halvings(gap)[n - 1] \div 2
         /\ Halvings(gap) \in [0..Settled -> Nat]
<1> USE DefragAssumption
<1> DEFINE h == Halvings(gap)
<1>1. h = [k \in 0..Settled |-> IF k = 0 THEN gap ELSE h[k - 1] \div 2]
  BY HalvingsExist DEF Halvings
<1> HIDE DEF h
<1>2. DOMAIN h = 0..Settled /\ h[0] = gap /\ \A n \in 1..Settled : h[n] = h[n - 1] \div 2
  BY <1>1
<1> DEFINE T == {n \in 0..Settled : h[n] \notin Nat}
<1>3. T = {}
  <2> SUFFICES ASSUME T # {} PROVE FALSE
    OBVIOUS
  <2>1. PICK n \in T : \A m \in T : n <= m
    <3>1. T \subseteq Nat
      OBVIOUS
    <3> HIDE DEF T
    <3> QED BY <3>1, LeastElement
  <2>2. n # 0
    BY <1>2
  <2>3. n - 1 \in 0..Settled /\ n \in 1..Settled /\ ~ (n <= n - 1)
    BY <2>2
  <2>4. h[n - 1] \in Nat
    BY <2>1, <2>3
  <2>5. h[n] \in Nat
    BY <2>4, <2>3, <1>2
  <2> QED BY <2>5
<1>4. h = [k \in 0..Settled |-> h[k]]
  BY <1>1
<1>5. h \in [0..Settled -> Nat]
  BY <1>3, <1>4
<1> QED BY <1>2, <1>5 DEF h

\* One frame makes good half of the distance.
LEMMA FirstHalving ==
  ASSUME NEW gap \in Nat
  PROVE  Halvings(gap)[1] = gap \div 2
<1>1. 1 \in 1..Settled /\ 1 - 1 = 0
  BY Limits
<1> QED BY <1>1, HalvingsFacts

DefragTypeOK ==
  /\ chip_phase \in {"Init", "Idle", "Dma", "Running", "Deconstructing"}
  /\ power_ema \in Nat /\ idle_power \in Nat
  /\ ran \in 0..EvictDwell /\ saw_load \in BOOLEAN
  /\ channels \in [Channel -> {"trained", "untrained", "off"}]
  /\ fill \in [Channel -> {"empty", "part", "full"}]
  /\ rested \in 0..Settled /\ worked \in 0..Settled
  /\ rest_seen \in BOOLEAN

\* Before the first power it is given the average is zero, and then between powers.
AverageIsBelow == power_ema > 0 => \E p \in Powers : power_ema <= p
AverageIsAbove == power_ema > 0 => \E q \in Powers : q <= power_ema

\* The baseline is an average there was.
BaselineIsLearned == idle_power > 0 => power_ema > 0
BaselineIsAmong == idle_power > 0 => \E q \in Powers : q <= idle_power

\* After so many frames at rest the average is above what the chip draws at rest
\* by no more than what is left of some power.
RestIsNear ==
  rested > 0 => /\ power_ema > 0
                /\ \E r \in RestPower, p \in Powers : power_ema <= r + Halvings(p)[rested]

\* After so many frames at work it is no farther below what it draws at work.
WorkIsNear ==
  worked > 0 => /\ power_ema > 0
                /\ \E w \in WorkPower, p \in Powers : w <= power_ema + Halvings(p)[worked]

\* Once a rest was seen the baseline is not above what the chip draws at rest.
BaselineIsRest == rest_seen => idle_power > 0 /\ \E r \in RestPower : idle_power <= r

\* What holds whether telemetry goes missing or not, and what does not hold when
\* a missing reading can pull the average below every power.
WorkIInv ==
  /\ DefragTypeOK
  /\ AverageIsBelow
  /\ BaselineIsLearned
  /\ RestIsNear
  /\ WorkIsNear
  /\ BaselineIsRest
  /\ WorkReadsRunning

RestIInv ==
  /\ AverageIsAbove
  /\ BaselineIsAmong
  /\ RestReadsIdle

DefragIInv == WorkIInv /\ RestIInv

\* The lesser and the greater of two numbers.
LEMMA MinOfTwo ==
  ASSUME NEW a \in Nat, NEW b \in Nat
  PROVE  Min({a, b}) = IF a <= b THEN a ELSE b
BY DEF Min

LEMMA MaxOfTwo ==
  ASSUME NEW a \in Nat, NEW b \in Nat
  PROVE  Max({a, b}) = IF a >= b THEN a ELSE b
BY DEF Max

\* No power is as low as what counts as no power (POWER_IDLE_W).
LEMMA PowersArePowers ==
  /\ Powers \subseteq {w \in Nat : w > 8}
  /\ RestPower \subseteq Powers /\ WorkPower \subseteq Powers
BY DefragAssumption DEF Powers, POWER_IDLE_W

LEMMA PowerIsAbove ==
  ASSUME NEW x \in Powers PROVE x \in Nat /\ x > 8 /\ x # 0
BY PowersArePowers

\* The average stays among the powers, above zero, between the old one and the
\* power of the frame, and the distance to it is at least halved.
LEMMA SmoothedFacts ==
  ASSUME DefragTypeOK, NEW p \in Powers, NEW ema, ema = Smoothed(p)
  PROVE  /\ ema \in Nat /\ ema > 0
         /\ power_ema = 0 => ema = p
         /\ p < power_ema => p <= ema /\ ema <= power_ema /\ 2 * ema <= p + power_ema
         /\ p >= power_ema => power_ema <= ema /\ ema <= p /\ p + power_ema <= 2 * ema
<1>1. p \in Nat /\ p > 8 /\ power_ema \in Nat
  BY PowersArePowers DEF DefragTypeOK
<1>2. CASE power_ema = 0
  BY <1>1, <1>2 DEF Smoothed
<1>3. CASE power_ema # 0 /\ p >= power_ema
  <2>1. ema = (power_ema + p + 1) \div 2
    BY <1>1, <1>3 DEF Smoothed
  <2> QED BY <2>1, <1>1, <1>3
<1>4. CASE power_ema # 0 /\ p < power_ema
  <2> DEFINE half == (power_ema + p) \div 2
  <2>1. half \in Nat /\ half > 8 /\ p <= half /\ half <= power_ema /\ 2 * half <= p + power_ema
    BY <1>1, <1>4
  <2>2. ema = Max({1, half})
    BY <1>1, <1>4 DEF Smoothed
  <2> HIDE DEF half
  <2>3. ema = half
    BY <2>1, <2>2, MaxOfTwo
  <2> QED BY <2>1, <2>3, <1>1, <1>4
<1> QED BY <1>1, <1>2, <1>3, <1>4

\* A view that has drawn no frame has learned nothing.
LEMMA DefragInitInv == DefragInit => DefragIInv
<1> SUFFICES ASSUME DefragInit PROVE DefragIInv
  OBVIOUS
<1> USE DefragAssumption DEF DefragInit
<1>1. 0 \in 0..Settled /\ 0 \in 0..EvictDwell /\ Settled > 0
  BY Limits
<1>2. DefragTypeOK
  BY <1>1 DEF DefragTypeOK
<1>3. WorkIInv
  BY <1>1, <1>2 DEF WorkIInv, AverageIsBelow, BaselineIsLearned, RestIsNear, WorkIsNear,
     BaselineIsRest, WorkReadsRunning
<1>4. RestIInv
  BY <1>1 DEF RestIInv, AverageIsAbove, BaselineIsAmong, RestReadsIdle
<1> QED
  BY <1>3, <1>4 DEF DefragIInv

\* The inference monitor's word disturbs no average and ends both counts.
LEMMA TriggerPreserves ==
  ASSUME TriggerEvict
  PROVE  (WorkIInv => WorkIInv') /\ (RestIInv => RestIInv')
<1> USE DefragAssumption DEF TriggerEvict
<1>1. ASSUME DefragTypeOK PROVE DefragTypeOK'
  <2>1. 0 \in 0..Settled /\ 0 \in 0..EvictDwell
    BY Limits
  <2>2. fill' \in [Channel -> {"empty", "part", "full"}]
    BY <1>1 DEF DefragTypeOK
  <2> QED BY <1>1, <2>1, <2>2 DEF DefragTypeOK
<1>2. /\ AverageIsBelow => AverageIsBelow'
      /\ AverageIsAbove => AverageIsAbove'
      /\ BaselineIsLearned => BaselineIsLearned'
      /\ BaselineIsAmong => BaselineIsAmong'
      /\ BaselineIsRest => BaselineIsRest'
  BY DEF AverageIsBelow, AverageIsAbove, BaselineIsLearned, BaselineIsAmong, BaselineIsRest
<1>3. Settled > 0 /\ rested' = 0 /\ worked' = 0
  BY Limits
<1>4. RestIsNear' /\ WorkIsNear' /\ RestReadsIdle' /\ WorkReadsRunning'
  BY <1>3 DEF RestIsNear, WorkIsNear, RestReadsIdle, WorkReadsRunning
<1> QED BY <1>1, <1>2, <1>4 DEF WorkIInv, RestIInv

\* What a frame without power makes of the average.
LEMMA GapFacts ==
  ASSUME DefragTypeOK, NEW ema, ema = Smoothed(0)
  PROVE  /\ ema \in Nat /\ ema <= power_ema
         /\ power_ema > 0 => ema > 0
<1>1. power_ema \in Nat
  BY DEF DefragTypeOK
<1>2. CASE power_ema = 0
  BY <1>2 DEF Smoothed
<1>3. CASE power_ema # 0
  <2> DEFINE half == (power_ema + 0) \div 2
  <2>1. half \in Nat /\ half <= power_ema
    BY <1>1, <1>3
  <2>2. ema = Max({1, half})
    BY <1>1, <1>3 DEF Smoothed
  <2> HIDE DEF half
  <2>3. ema = IF 1 >= half THEN 1 ELSE half
    BY <2>1, <2>2, MaxOfTwo
  <2> QED BY <2>1, <2>3, <1>1, <1>3
<1> QED BY <1>2, <1>3

\* A frame halves the distance from the average to the power it follows, whichever
\* side it is on, and a count that is complete has used the distance up.
LEMMA UpdateKeepsWork ==
  ASSUME WorkIInv, NEW f \in Frame, Update(f)
  PROVE  WorkIInv'
<1> USE DefragAssumption
<1> DEFINE ema == Smoothed(f.power)
           new == NewPhase(f, ema)
           steady == f.clocked /\ Trained(f.channels) # {} /\ "Deconstructing" \notin {chip_phase, new}
<1>1. /\ chip_phase' = new
      /\ power_ema' = ema
      /\ idle_power' = Baseline(ema, new)
      /\ ran' = IF new = "Running" /\ chip_phase = "Running" THEN CountTo(ran, EvictDwell) ELSE 0
      /\ saw_load' = (new = "Running" /\ ((chip_phase = "Running" /\ saw_load) \/ Surges(ema, idle_power')))
      /\ channels' = f.channels
      /\ fill' \in [Channel -> {"empty", "part", "full"}]
      /\ rested' = IF steady /\ f.power \in RestPower THEN CountTo(rested, Settled) ELSE 0
      /\ worked' = IF steady /\ f.power \in WorkPower THEN CountTo(worked, Settled) ELSE 0
      /\ rest_seen' = (new # "Dma" /\ (rest_seen \/ rested' = Settled))
  BY DEF Update
<1>2. /\ f.power \in Powers \/ (f.power = 0 /\ ~ f.clocked)
      /\ f.clocked \in BOOLEAN
      /\ f.channels \in [Channel -> {"trained", "untrained", "off"}]
  <2>1. CASE f \in [power : RestPower \cup WorkPower, clocked : BOOLEAN,
                    channels : [Channel -> {"trained", "untrained", "off"}]]
    BY <2>1 DEF Powers
  <2>2. CASE f \in [power : IF Gaps THEN {0} ELSE {}, clocked : {FALSE},
                    channels : [Channel -> {"trained"}]]
    <3>1. f.power = 0 /\ f.clocked = FALSE /\ f.channels \in [Channel -> {"trained"}]
      BY <2>2
    <3>2. f.channels \in [Channel -> {"trained", "untrained", "off"}]
      BY <3>1
    <3> QED BY <3>1, <3>2
  <2> QED BY <2>1, <2>2 DEF Frame
<1>3. DefragTypeOK
  BY DEF WorkIInv
<1>20. f.power \in Powers =>
         /\ ema > 0
         /\ power_ema = 0 => ema = f.power
         /\ f.power < power_ema => f.power <= ema /\ ema <= power_ema /\ 2 * ema <= f.power + power_ema
         /\ f.power >= power_ema => power_ema <= ema /\ ema <= f.power /\ f.power + power_ema <= 2 * ema
  BY <1>3, SmoothedFacts
<1>4. ema \in Nat /\ (power_ema > 0 => ema > 0) /\ (f.power = 0 => ema <= power_ema)
  <2>1. CASE f.power \in Powers
    <3>1. f.power # 0
      BY <2>1, PowerIsAbove
    <3>2. ema \in Nat /\ ema > 0
      BY <1>3, <2>1, SmoothedFacts
    <3> QED BY <3>1, <3>2
  <2>2. CASE f.power = 0
    BY <1>3, <2>2, GapFacts
  <2> QED BY <1>2, <2>1, <2>2
<1>5. new \in {"Init", "Idle", "Dma", "Running", "Deconstructing"}
  BY DEF NewPhase
<1>6. /\ f.power \in Nat /\ (f.power \in Powers => f.power > 8) /\ power_ema \in Nat /\ idle_power \in Nat
      /\ Settled \in Nat /\ Settled > 0 /\ EvictDwell \in Nat /\ EvictDwell > 0
      /\ rested \in 0..Settled /\ worked \in 0..Settled /\ ran \in 0..EvictDwell
  <2>1. f.power \in Nat /\ (f.power \in Powers => f.power > 8)
    BY <1>2, PowerIsAbove
  <2>2. /\ power_ema \in Nat /\ idle_power \in Nat
        /\ rested \in 0..Settled /\ worked \in 0..Settled /\ ran \in 0..EvictDwell
    BY <1>3 DEF DefragTypeOK
  <2> QED BY <2>1, <2>2, Limits
<1> HIDE DEF ema, new
<1>7. /\ Baseline(ema, new) \in {ema, idle_power}
      /\ new = "Idle" => (ema > 0 => Baseline(ema, new) > 0) /\ Baseline(ema, new) <= ema
      /\ new = "Running" /\ idle_power > 0 => Baseline(ema, new) = idle_power
      /\ new # "Dma" /\ idle_power > 0 /\ ema > 0 => Baseline(ema, new) > 0 /\ Baseline(ema, new) <= idle_power
  <2>1. Min({idle_power, ema}) = IF idle_power <= ema THEN idle_power ELSE ema
    BY <1>4, <1>6, MinOfTwo
  <2>2. CASE new = "Idle"
    BY <2>1, <2>2, <1>4, <1>6 DEF Baseline
  <2>3. CASE new = "Dma"
    BY <2>3, <1>4, <1>6 DEF Baseline
  <2>4. CASE new = "Running"
    BY <2>4, <1>4, <1>6 DEF Baseline
  <2>5. CASE new \in {"Init", "Deconstructing"}
    BY <2>5, <1>4, <1>6 DEF Baseline
  <2> QED BY <1>5, <2>2, <2>3, <2>4, <2>5
<1>8. DefragTypeOK'
  <2>1. rested' \in 0..Settled /\ worked' \in 0..Settled /\ ran' \in 0..EvictDwell
    BY <1>1, <1>6 DEF CountTo
  <2>2. saw_load' \in BOOLEAN /\ rest_seen' \in BOOLEAN
    BY <1>1
  <2>3. idle_power' \in Nat
    BY <1>1, <1>7, <1>4, <1>6
  <2> QED BY <2>1, <2>2, <2>3, <1>1, <1>2, <1>4, <1>5 DEF DefragTypeOK
<1>9. AverageIsBelow'
  <2> SUFFICES ASSUME ema > 0 PROVE \E p \in Powers : ema <= p
    BY <1>1 DEF AverageIsBelow
  <2>1. ema <= power_ema \/ (f.power \in Powers /\ ema <= f.power)
    BY <1>2, <1>4, <1>6, <1>20
  <2>2. CASE ema <= power_ema
    <3>1. PICK p \in Powers : power_ema <= p
      BY <1>4, <1>6, <2>2 DEF WorkIInv, AverageIsBelow
    <3>2. p \in Nat
      BY PowersArePowers
    <3> QED BY <1>4, <1>6, <2>2, <3>1, <3>2
  <2> QED BY <2>1, <2>2
<1>10. BaselineIsLearned'
  <2>1. BaselineIsLearned
    BY DEF WorkIInv
  <2> QED BY <2>1, <1>1, <1>4, <1>7 DEF BaselineIsLearned
<1>11. RestIsNear'
  <2> SUFFICES ASSUME rested' > 0
               PROVE  \E r \in RestPower, p \in Powers : ema <= r + Halvings(p)[rested']
    <3>1. rested' > 0 => f.power \in RestPower
      BY <1>1
    <3>2. rested' > 0 => f.power \in Powers
      BY <3>1 DEF Powers
    <3> QED BY <3>2, <1>1, <1>20 DEF RestIsNear
  <2>1. f.power \in RestPower /\ rested' = CountTo(rested, Settled)
    BY <1>1
  <2>4. f.power \in Powers
    BY <2>1, PowersArePowers
  <2>2. CASE rested = 0
    <3>1. rested' = 1
      BY <2>1, <2>2, <1>6 DEF CountTo
    <3>2. \E p \in Powers : power_ema <= p
      <4>1. CASE power_ema = 0
        BY <4>1, <2>4, <1>6
      <4>2. CASE power_ema > 0
        BY <4>2 DEF WorkIInv, AverageIsBelow
      <4> QED BY <4>1, <4>2, <1>6
    <3>3. PICK p \in Powers : power_ema <= p
      BY <3>2
    <3>4. p \in Nat
      BY PowersArePowers
    <3>5. Halvings(p)[1] = p \div 2
      BY <3>4, FirstHalving
    <3>6. ema <= f.power + (p \div 2)
      BY <3>3, <3>4, <2>4, <1>4, <1>6, <1>20
    <3> QED BY <3>1, <3>5, <3>6, <2>1
  <2>3. CASE rested > 0
    <3>1. PICK r \in RestPower, p \in Powers : power_ema <= r + Halvings(p)[rested]
      BY <2>3 DEF WorkIInv, RestIsNear
    <3>2. p \in Nat /\ r \in Nat /\ Halvings(p)[rested] \in Nat /\ Halvings(p)[Settled] = 0
      BY PowersArePowers, HalvingsFacts, <1>6 DEF Powers
    <3>3. Halvings(p)[rested'] = Halvings(p)[rested] \div 2
      <4>1. CASE rested = Settled
        BY <4>1, <2>1, <1>6, <3>2 DEF CountTo
      <4>2. CASE rested < Settled
        <5>1. rested' = rested + 1 /\ rested' \in 1..Settled /\ rested' - 1 = rested
          BY <4>2, <2>1, <1>6 DEF CountTo
        <5> QED BY <5>1, <3>2, HalvingsFacts
      <4> QED BY <4>1, <4>2, <1>6
    <3> DEFINE g == Halvings(p)[rested]
    <3>4. g \in Nat /\ power_ema <= r + g
      BY <3>1, <3>2
    <3> HIDE DEF g
    <3>5. ema <= r + (g \div 2) \/ ema <= f.power + (g \div 2)
      BY <3>2, <3>4, <2>4, <1>4, <1>6, <1>20
    <3> QED BY <3>3, <3>5, <2>1 DEF g
  <2> QED BY <2>2, <2>3, <1>6
<1>12. WorkIsNear'
  <2> SUFFICES ASSUME worked' > 0
               PROVE  \E w \in WorkPower, p \in Powers : w <= ema + Halvings(p)[worked']
    <3>1. worked' > 0 => f.power \in WorkPower
      BY <1>1
    <3>2. worked' > 0 => f.power \in Powers
      BY <3>1 DEF Powers
    <3> QED BY <3>2, <1>1, <1>20 DEF WorkIsNear
  <2>1. f.power \in WorkPower /\ worked' = CountTo(worked, Settled)
    BY <1>1
  <2>4. f.power \in Powers
    BY <2>1, PowersArePowers
  <2>2. CASE worked = 0
    <3>1. worked' = 1
      BY <2>1, <2>2, <1>6 DEF CountTo
    <3>2. Halvings(f.power)[1] = f.power \div 2
      BY <1>6, FirstHalving
    <3>3. f.power <= ema + (f.power \div 2)
      BY <2>4, <1>4, <1>6, <1>20
    <3> QED BY <3>1, <3>2, <3>3, <2>1, <2>4
  <2>3. CASE worked > 0
    <3>1. PICK w \in WorkPower, p \in Powers : w <= power_ema + Halvings(p)[worked]
      BY <2>3 DEF WorkIInv, WorkIsNear
    <3>2. p \in Nat /\ w \in Nat /\ Halvings(p)[worked] \in Nat /\ Halvings(p)[Settled] = 0
      BY PowersArePowers, HalvingsFacts, <1>6 DEF Powers
    <3>3. Halvings(p)[worked'] = Halvings(p)[worked] \div 2
      <4>1. CASE worked = Settled
        BY <4>1, <2>1, <1>6, <3>2 DEF CountTo
      <4>2. CASE worked < Settled
        <5>1. worked' = worked + 1 /\ worked' \in 1..Settled /\ worked' - 1 = worked
          BY <4>2, <2>1, <1>6 DEF CountTo
        <5> QED BY <5>1, <3>2, HalvingsFacts
      <4> QED BY <4>1, <4>2, <1>6
    <3> DEFINE g == Halvings(p)[worked]
    <3>4. g \in Nat /\ w <= power_ema + g
      BY <3>1, <3>2
    <3> HIDE DEF g
    <3>5. w <= ema + (g \div 2) \/ f.power <= ema + (g \div 2)
      BY <3>2, <3>4, <2>4, <1>4, <1>6, <1>20
    <3> QED BY <3>3, <3>5, <2>1 DEF g
  <2> QED BY <2>2, <2>3, <1>6
\* A chip in step is not brought to a start by a frame it is counted in.
<1>13. ASSUME steady
       PROVE  new \in {"Idle", "Running"} /\ (chip_phase = "Running" => ~ EvictEligible(ema))
  <2>1. f.clocked /\ Trained(f.channels) # {} /\ chip_phase # "Deconstructing" /\ new # "Deconstructing"
    BY <1>13
  <2> QED BY <2>1, <1>5 DEF NewPhase, new
\* When the rest was seen the baseline is not above it: an idle chip's is the
\* least there was, and a chip that seems to run must have surged over its own.
<1>14. ASSUME rested' = Settled
       PROVE  idle_power' > 0 /\ \E r \in RestPower : idle_power' <= r
  <2>1. steady /\ f.power \in RestPower
    BY <1>14, <1>1, <1>6
  <2>2. PICK r \in RestPower, p \in Powers : ema <= r + Halvings(p)[Settled]
    BY <1>11, <1>14, <1>1, <1>6 DEF RestIsNear
  <2>3. r \in Nat /\ Halvings(p)[Settled] = 0
    BY PowersArePowers DEF Powers
  <2>4. ema <= r /\ ema > 0
    <3>1. f.power \in Powers
      BY <2>1 DEF Powers
    <3> QED BY <2>2, <2>3, <3>1, <1>4, <1>20
  <2>5. idle_power' \in Nat
    BY <1>8 DEF DefragTypeOK
  <2>6. CASE new = "Idle"
    <3>1. idle_power' > 0 /\ idle_power' <= ema
      BY <1>1, <1>7, <2>4, <2>6
    <3> QED BY <1>4, <2>3, <2>4, <2>5, <3>1
  <2>7. CASE new = "Running"
    <3>1. ~ (10 * ema > 3 * TdpLimit /\ TdpLimit > 0)
      BY <2>3, <2>4, <1>4
    <3>2. ShowsLoad(ema) \/ new # "Running"
      BY DEF NewPhase, new
    <3>3. idle_power > 0 /\ 2 * ema > 3 * idle_power
      BY <2>7, <3>1, <3>2 DEF ShowsLoad, Surges
    <3>4. idle_power' = idle_power
      BY <1>1, <1>7, <2>7, <3>3
    <3>5. idle_power <= r
      BY <1>4, <1>6, <2>3, <2>4, <3>3
    <3> QED BY <3>3, <3>4, <3>5
  <2> QED BY <1>13, <2>1, <2>6, <2>7
<1>15. BaselineIsRest'
  <2> SUFFICES ASSUME rest_seen' PROVE idle_power' > 0 /\ \E r \in RestPower : idle_power' <= r
    BY DEF BaselineIsRest
  <2>1. new # "Dma" /\ (rest_seen \/ rested' = Settled)
    BY <1>1
  <2>2. CASE rest_seen
    <3>1. PICK r \in RestPower : idle_power > 0 /\ idle_power <= r
      BY <2>2 DEF WorkIInv, BaselineIsRest
    <3>2. r \in Nat /\ idle_power' \in Nat
      BY PowersArePowers, <1>8 DEF DefragTypeOK
    <3>3. ema > 0
      BY <3>1, <1>4 DEF WorkIInv, BaselineIsLearned
    <3> QED BY <2>1, <3>1, <3>2, <3>3, <1>1, <1>6, <1>7
  <2>3. CASE rested' = Settled
    BY <2>3, <1>14
  <2> QED BY <2>1, <2>2, <2>3
<1>17. WorkReadsRunning'
  <2> SUFFICES ASSUME worked' = Settled, rest_seen' PROVE new = "Running"
    BY <1>1 DEF WorkReadsRunning
  <2>1. steady /\ f.power \in WorkPower
    BY <1>1, <1>6
  <2>2. f.power \notin RestPower
    <3> SUFFICES ASSUME f.power \in RestPower PROVE FALSE
      OBVIOUS
    <3>1. 2 * f.power > 3 * f.power
      BY <2>1
    <3> QED BY <3>1, <1>6
  <2>3. rested' # Settled
    BY <2>2, <1>1, <1>6
  <2>14. f.power \in Powers
    BY <2>1, PowersArePowers
  <2>4. rest_seen
    BY <2>3, <1>1
  <2>5. PICK r \in RestPower : idle_power > 0 /\ idle_power <= r
    BY <2>4 DEF WorkIInv, BaselineIsRest
  <2>6. PICK w \in WorkPower, p \in Powers : w <= ema + Halvings(p)[Settled]
    BY <1>12, <1>1, <1>6 DEF WorkIsNear
  <2>7. r \in Nat /\ w \in Nat /\ w > 8 /\ Halvings(p)[Settled] = 0 /\ 2 * w > 3 * r
    BY PowersArePowers DEF Powers
  <2>8. w <= ema
    BY <2>6, <2>7, <1>4
  <2>9. idle_power > 0 /\ 2 * ema > 3 * idle_power /\ ema > 8
    BY <2>5, <2>7, <2>8, <1>4, <1>6
  <2>10. ShowsLoad(ema)
    BY <2>9 DEF ShowsLoad, Surges
  <2>11. ~ (5 * ema <= 6 * idle_power) /\ ~ (ema <= POWER_IDLE_W)
    BY <2>9, <1>4, <1>6 DEF POWER_IDLE_W
  <2>12. ~ EvictEligible(ema)
    BY <2>11 DEF EvictEligible
  <2>13. f.power > POWER_IDLE_W
    BY <2>14, <1>6 DEF POWER_IDLE_W
  <2> QED BY <2>1, <2>10, <2>12, <2>13 DEF NewPhase, new
<1> QED BY <1>8, <1>9, <1>10, <1>11, <1>12, <1>15, <1>17 DEF WorkIInv

\* While telemetry is not missing no average falls below every power, so a chip
\* at rest does not surge over what any of them left as the baseline.
LEMMA UpdateKeepsRest ==
  ASSUME ~ Gaps, WorkIInv, WorkIInv', RestIInv, NEW f \in Frame, Update(f)
  PROVE  RestIInv'
<1> USE DefragAssumption
<1> DEFINE ema == Smoothed(f.power)
           new == NewPhase(f, ema)
           steady == f.clocked /\ Trained(f.channels) # {} /\ "Deconstructing" \notin {chip_phase, new}
<1>1. /\ chip_phase' = new
      /\ power_ema' = ema
      /\ idle_power' = Baseline(ema, new)
      /\ rested' = IF steady /\ f.power \in RestPower THEN CountTo(rested, Settled) ELSE 0
  BY DEF Update
<1>2. f.power \in Powers /\ f.power \in Nat
  BY PowersArePowers DEF Frame, Powers
<1>3. DefragTypeOK /\ power_ema \in Nat /\ idle_power \in Nat /\ Settled > 0 /\ Settled \in Nat
  BY Limits DEF WorkIInv, DefragTypeOK
<1>4. /\ ema \in Nat /\ ema > 0
      /\ power_ema = 0 => ema = f.power
      /\ f.power < power_ema => f.power <= ema
      /\ f.power >= power_ema => power_ema <= ema
  BY <1>2, <1>3, SmoothedFacts
<1>5. new \in {"Init", "Idle", "Dma", "Running", "Deconstructing"}
  BY DEF NewPhase
<1> HIDE DEF ema, new
<1>6. Baseline(ema, new) \in {ema, idle_power}
  <2>1. Min({idle_power, ema}) = IF idle_power <= ema THEN idle_power ELSE ema
    BY <1>3, <1>4, MinOfTwo
  <2>2. CASE new = "Idle"
    BY <2>1, <2>2 DEF Baseline
  <2>3. CASE new # "Idle"
    BY <2>3, <1>5 DEF Baseline
  <2> QED BY <2>2, <2>3
<1>7. \E q \in Powers : q <= ema
  <2>1. CASE power_ema = 0
    BY <2>1, <1>2, <1>4
  <2>2. CASE power_ema > 0
    <3>1. PICK q \in Powers : q <= power_ema
      BY <2>2 DEF RestIInv, AverageIsAbove
    <3>2. q \in Nat
      BY PowersArePowers
    <3>3. f.power <= ema \/ q <= ema
      BY <3>1, <3>2, <1>2, <1>3, <1>4
    <3> QED BY <3>3, <1>2
  <2> QED BY <2>1, <2>2, <1>3
<1>8. AverageIsAbove'
  BY <1>1, <1>7 DEF AverageIsAbove
<1>9. BaselineIsAmong'
  <2>1. CASE idle_power' = ema
    BY <2>1, <1>7 DEF BaselineIsAmong
  <2>2. CASE idle_power' = idle_power
    BY <2>2 DEF BaselineIsAmong, RestIInv
  <2> QED BY <2>1, <2>2, <1>1, <1>6
<1>10. RestReadsIdle'
  <2> SUFFICES ASSUME rested' = Settled PROVE new = "Idle"
    BY <1>1 DEF RestReadsIdle
  <2>1. f.clocked /\ Trained(f.channels) # {} /\ chip_phase # "Deconstructing" /\ new # "Deconstructing"
    BY <1>1, <1>3
  <2>2. PICK r \in RestPower, p \in Powers : ema <= r + Halvings(p)[Settled]
    BY <1>1, <1>3 DEF WorkIInv, RestIsNear
  <2>3. r \in Nat /\ Halvings(p)[Settled] = 0
    BY PowersArePowers DEF Powers
  <2>4. ema <= r
    BY <2>2, <2>3, <1>4
  <2>5. ~ Surges(ema, idle_power)
    <3> SUFFICES ASSUME idle_power > 0 PROVE ~ (2 * ema > 3 * idle_power)
      BY <1>3 DEF Surges
    <3>1. PICK q \in Powers : q <= idle_power
      BY DEF RestIInv, BaselineIsAmong
    <3>2. q \in Nat
      BY PowersArePowers
    <3>3. 2 * r <= 3 * q
      <4>1. CASE q \in RestPower
        BY <4>1
      <4>2. CASE q \in WorkPower
        <5>1. 2 * q > 3 * r
          BY <4>2
        <5> QED BY <5>1, <2>3, <3>2
      <4> QED BY <4>1, <4>2 DEF Powers
    <3> QED BY <2>3, <2>4, <3>1, <3>2, <3>3, <1>3, <1>4
  <2>6. ~ (10 * ema > 3 * TdpLimit /\ TdpLimit > 0)
    BY <2>3, <2>4, <1>4
  <2>7. ~ ShowsLoad(ema)
    BY <2>5, <2>6 DEF ShowsLoad
  <2> QED BY <2>1, <2>7 DEF NewPhase, new
<1> QED BY <1>8, <1>9, <1>10 DEF RestIInv

\* A step of nothing keeps both.
LEMMA DefragStutters ==
  ASSUME UNCHANGED defragVars
  PROVE  (WorkIInv => WorkIInv') /\ (RestIInv => RestIInv')
<1> USE DEF defragVars
<1>1. /\ DefragTypeOK => DefragTypeOK'
      /\ AverageIsBelow => AverageIsBelow'
      /\ AverageIsAbove => AverageIsAbove'
      /\ BaselineIsLearned => BaselineIsLearned'
      /\ BaselineIsAmong => BaselineIsAmong'
      /\ BaselineIsRest => BaselineIsRest'
  BY DEF DefragTypeOK, AverageIsBelow, AverageIsAbove, BaselineIsLearned, BaselineIsAmong, BaselineIsRest
<1>2. (RestIsNear => RestIsNear') /\ (WorkIsNear => WorkIsNear')
  BY DEF RestIsNear, WorkIsNear
<1>3. (RestReadsIdle => RestReadsIdle') /\ (WorkReadsRunning => WorkReadsRunning')
  BY DEF RestReadsIdle, WorkReadsRunning
<1> QED BY <1>1, <1>2, <1>3 DEF WorkIInv, RestIInv

\* A chip that works well above a rest that was seen is shown running
\* (new_phase in DefragVis::update), for all powers that tell the two apart,
\* whatever limit the firmware reports, however often the inference monitor
\* evicts, and also when telemetry was missing before: what that does to the
\* baseline only makes it lower.
THEOREM DefragWorkIsShown == DefragSpec => []WorkReadsRunning
<1>1. DefragInit => WorkIInv
  BY DefragInitInv DEF DefragIInv
<1>2. WorkIInv /\ [DefragNext]_defragVars => WorkIInv'
  BY TriggerPreserves, UpdateKeepsWork, DefragStutters DEF DefragNext
<1>3. WorkIInv => WorkReadsRunning
  BY DEF WorkIInv
<1> QED BY <1>1, <1>2, <1>3, PTL DEF DefragSpec

\* While telemetry is not missing, every frame of DefragVis::update (defrag.rs)
\* leaves the average within what is left of a distance that frames of one kind
\* halve, and the baseline among the averages there were, not above a rest that
\* was seen.
THEOREM DefragInvariant == ~ Gaps => (DefragSpec => []DefragIInv)
<1> SUFFICES ASSUME ~ Gaps PROVE DefragSpec => []DefragIInv
  OBVIOUS
<1>1. DefragIInv /\ [DefragNext]_defragVars => DefragIInv'
  BY TriggerPreserves, UpdateKeepsWork, UpdateKeepsRest, DefragStutters DEF DefragNext, DefragIInv
<1> QED BY DefragInitInv, <1>1, PTL DEF DefragSpec

\* While telemetry is not missing, the view says what the chip does: the above,
\* and a chip that has been at rest for a while is shown idle.  With gaps the
\* run DefragGap refutes the latter.
THEOREM DefragPhaseIsTrue == ~ Gaps => (DefragSpec => []PhaseIsTrue)
<1> SUFFICES ASSUME ~ Gaps PROVE DefragSpec => []PhaseIsTrue
  OBVIOUS
<1>1. DefragIInv => PhaseIsTrue
  BY DEF DefragIInv, WorkIInv, RestIInv, PhaseIsTrue
<1> QED BY DefragInvariant, <1>1, PTL
=============================================================================
