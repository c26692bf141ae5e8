---------------------------- MODULE DefragPhases ----------------------------
(***************************************************************************)
(* The Memory Defrag view of one chip (animation/defrag.rs): it smooths    *)
(* the power it is given, learns what the chip draws at rest, and says     *)
(* from the two what the chip is doing.                                    *)
(*                                                                         *)
(* Powers are whole watts and the smoothing is faster than the view's      *)
(* (1/2 for each frame instead of 0.08), with EvictDwell to match; how     *)
(* full a channel is drawn is "empty", "part" or "full", and a part takes  *)
(* any number of frames to fill or to drain.                               *)
(***************************************************************************)
EXTENDS Naturals, FiniteSets, FiniteSetsExt

CONSTANTS
  Channel,
  RestPower,      \* what the chip draws at rest
  WorkPower,      \* what it draws at work
  TdpLimit,       \* its firmware limit, 0 when the backend has none
  EvictDwell,     \* frames in Running before power may evict
  Settled,        \* frames after which the smoothed power has followed
  Gaps            \* telemetry may be missing for a while

POWER_IDLE_W == 8

\* What is left of a distance between the average and the power it follows
\* after each number of frames: half of it is made good with each.
Halvings(distance) ==
  LET left[n \in 0..Settled] == IF n = 0 THEN distance ELSE left[n - 1] \div 2
  IN left

ASSUME DefragAssumption ==
  /\ IsFiniteSet(Channel) /\ Channel # {}
  /\ RestPower \cup WorkPower \subseteq {w \in Nat : w > POWER_IDLE_W}
  /\ \A r1, r2 \in RestPower : 2 * r1 <= 3 * r2
  /\ \A r \in RestPower, w \in WorkPower : 2 * w > 3 * r
  /\ \A r \in RestPower : 10 * r <= 3 * TdpLimit \/ TdpLimit = 0
  /\ TdpLimit \in Nat /\ {EvictDwell, Settled} \subseteq Nat \ {0}
  /\ \A w \in RestPower \cup WorkPower : Halvings(w)[Settled] = 0
  /\ Gaps \in BOOLEAN

VARIABLES
  chip_phase,
  power_ema, idle_power,
  ran, saw_load,  \* in Running only: frames since it was entered
  channels, fill, \* of each channel
  \* history
  rested, worked, \* frames in a row that the chip did nothing else
  rest_seen       \* it rested since the last copy from the host

defragVars == <<chip_phase, power_ema, idle_power, ran, saw_load, channels, fill,
                rested, worked, rest_seen>>

DefragInit ==
  /\ chip_phase = "Idle"
  /\ power_ema = 0 /\ idle_power = 0
  /\ ran = 0 /\ saw_load = FALSE
  /\ channels = [c \in Channel |-> "untrained"]
  /\ fill = [c \in Channel |-> "empty"]
  /\ rested = 0 /\ worked = 0 /\ rest_seen = FALSE

\* What one frame is given: no telemetry is no power and no clock.
Frame == [power : RestPower \cup WorkPower, clocked : BOOLEAN,
          channels : [Channel -> {"trained", "untrained", "off"}]]
           \cup [power : IF Gaps THEN {0} ELSE {}, clocked : {FALSE},
                 channels : [Channel -> {"trained"}]]

Trained(chans) == {c \in Channel : chans[c] = "trained"}
Enabled(chans) == {c \in Channel : chans[c] # "off"}

\* Mistake: the average climbs out of zero instead of starting at a sample.
FromZero(power) == (power_ema + power + 1) \div 2

Smoothed(power) ==
  IF power_ema = 0 THEN power
  ELSE IF power >= power_ema THEN (power_ema + power + 1) \div 2
  ELSE Max({1, (power_ema + power) \div 2})

Surges(ema, rest) == rest > 0 /\ 2 * ema > 3 * rest

ShowsLoad(ema) ==
  \/ Surges(ema, idle_power)
  \/ 10 * ema > 3 * TdpLimit /\ TdpLimit > 0

EvictEligible(ema) ==
  /\ ran + 1 >= EvictDwell
  /\ saw_load
  /\ 5 * ema <= 6 * idle_power \/ ema <= POWER_IDLE_W

AllFull(f) == \A c \in Trained(f.channels) : fill[c] = "full"

NewPhase(f, ema) ==
  IF chip_phase = "Deconstructing"
  THEN IF \A c \in Enabled(f.channels) : fill[c] = "empty" THEN "Idle" ELSE "Deconstructing"
  ELSE IF Trained(f.channels) = {} THEN "Init"
  ELSE IF chip_phase = "Running" /\ EvictEligible(ema) THEN "Deconstructing"
  ELSE IF /\ f.clocked \/ AllFull(f)
          /\ f.power > POWER_IDLE_W
          /\ ShowsLoad(ema)
  THEN "Running"
  ELSE IF ~f.clocked /\ f.power > POWER_IDLE_W THEN "Dma"
  ELSE "Idle"

\* The baseline: taken as the copy from the host begins, or as the chip works
\* when no rest was seen; while it is idle the least that was seen.
Baseline(ema, new) ==
  CASE new = "Dma" /\ chip_phase # "Dma" -> ema
    [] new = "Running" /\ chip_phase \in {"Idle", "Init"} /\ idle_power = 0 -> ema
    [] new = "Idle" -> IF idle_power > 0 THEN Min({idle_power, ema}) ELSE ema
    [] OTHER -> idle_power

Filled(x) == CASE x = "empty" -> {"empty", "part"}
               [] x = "part" -> {"part", "full"}
               [] x = "full" -> {"full"}

Drained(x) == CASE x = "full" -> {"part"}
                [] x = "part" -> {"part", "empty"}
                [] x = "empty" -> {"empty"}

\* What a channel may show after a frame.
FillAfter(f, new, c) ==
  CASE new = "Dma" /\ c \in Trained(f.channels) -> Filled(fill[c])
    [] new = "Running" /\ chip_phase # "Running" /\ c \in Trained(f.channels) -> {"full"}
    [] new = "Idle" -> IF chip_phase = "Deconstructing" THEN {"empty"} ELSE Drained(fill[c])
    [] new = "Deconstructing" /\ c \in Enabled(f.channels) -> Drained(fill[c])
    [] OTHER -> {fill[c]}

CountTo(n, most) == IF n < most THEN n + 1 ELSE most

\* update(): one frame.
Update(f) ==
  LET ema == Smoothed(f.power)
      new == NewPhase(f, ema)
      steady == f.clocked /\ Trained(f.channels) # {} /\ "Deconstructing" \notin {chip_phase, new}
  IN /\ chip_phase' = new
     /\ power_ema' = ema
     /\ idle_power' = Baseline(ema, new)
     /\ ran' = IF new = "Running" /\ chip_phase = "Running" THEN CountTo(ran, EvictDwell) ELSE 0
     /\ saw_load' = /\ new = "Running"
                    /\ \/ chip_phase = "Running" /\ saw_load
                       \/ Surges(ema, idle_power')
     /\ channels' = f.channels
     /\ fill' \in {g \in [Channel -> {"empty", "part", "full"}] :
                     \A c \in Channel : g[c] \in FillAfter(f, new, c)}
     /\ rested' = IF steady /\ f.power \in RestPower THEN CountTo(rested, Settled) ELSE 0
     /\ worked' = IF steady /\ f.power \in WorkPower THEN CountTo(worked, Settled) ELSE 0
     /\ rest_seen' = (new # "Dma" /\ (rest_seen \/ rested' = Settled))

\* The inference monitor saw a model being unloaded.
TriggerEvict ==
  /\ Trained(channels) # {}
  /\ fill' = [c \in Channel |-> IF c \in Trained(channels) THEN "full" ELSE fill[c]]
  /\ chip_phase' = "Deconstructing"
  /\ ran' = 0 /\ saw_load' = FALSE
  /\ rested' = 0 /\ worked' = 0
  /\ UNCHANGED <<power_ema, idle_power, channels, rest_seen>>

DefragNext == TriggerEvict \/ \E f \in Frame : Update(f)

DefragSpec == DefragInit /\ [][DefragNext]_defragVars

-----------------------------------------------------------------------------
\* A chip that has been at rest for a while, with its clock up, is shown idle:
\* the baseline "converges on the chip's true rest and then holds still".
RestReadsIdle == rested = Settled => chip_phase = "Idle"

\* A chip whose rest was seen is shown running when it has worked for a while
\* at a power well above its rest, whatever the backend knows of its limit.
WorkReadsRunning == worked = Settled /\ rest_seen => chip_phase = "Running"

\* The view says what the chip does.
PhaseIsTrue == RestReadsIdle /\ WorkReadsRunning
=============================================================================
