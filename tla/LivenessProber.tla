--------------------------- MODULE LivenessProber ---------------------------
(***************************************************************************)
(* The background prober of inference runtimes (workload/liveness_probe.rs)*)
(* and the process scan that feeds it (ui/tui/mod.rs): the render loop     *)
(* submits the runtimes of each scan, the worker drains the queue to the   *)
(* newest set, asks each runtime in turn and replaces its whole map; the   *)
(* next scan reads what is still fresh.                                    *)
(*                                                                         *)
(* Time is in seconds.  A step of the program takes none, except the probe *)
(* of a runtime that does not answer, which may take up to one (one that   *)
(* trickles its answer, up to eight PROBE_TIMEOUTs, is left out).          *)
(***************************************************************************)
EXTENDS Naturals, Sequences, FiniteSets

CONSTANTS
  Runtime,        \* processes, each of a runtime of its own label
  ProbeInterval, MaxAge,
  ScanEvery,      \* the cadence of the process scan
  ScanLate,       \* and how late a slow scan may be
  MaxTurns,       \* changes of the runtimes in a behaviour
  Never           \* no probe, no verdict

ASSUME ProberAssumption ==
  /\ {ProbeInterval, MaxAge, ScanEvery, ScanLate, MaxTurns} \subseteq Nat
  /\ ScanEvery > 0 /\ ScanEvery <= ScanLate /\ ProbeInterval > 0
  \* the runtimes that can time out in what MaxAge leaves over two intervals
  /\ IsFiniteSet(Runtime) /\ 2 * ProbeInterval + 2 * (Cardinality(Runtime) - 1) <= MaxAge
  /\ Never \notin Nat /\ Never \notin [active : BOOLEAN, age : 0..(MaxAge + 1)]
  /\ \A runtimes \in SUBSET Runtime : Never # runtimes

VARIABLES
  \* the runtimes
  health,         \* "absent", "loaded", "idle" (answers, no model), "hung"
  turns,
  \* the render loop
  sinceScan,
  submitted,      \* the channel: sets of runtimes, oldest first
  \* the worker
  waited,         \* seconds in recv_timeout
  sinceProbe,     \* since last_probe, Never before the first
  detected,
  asking,         \* runtimes of this cycle still to be asked, or Never
  found,          \* the map this cycle builds: [active, age] or Never
  cache,
  \* history
  unloaded,       \* seconds since the runtime last was loaded
  settled         \* seconds it has been loaded without a break

loopVars == <<sinceScan, submitted>>
workerVars == <<waited, sinceProbe, detected, asking, found, cache>>
proberVars == <<health, turns, loopVars, workerVars, unloaded, settled>>

\* How long after a change the verdict of a live runtime may be wrong: a scan,
\* the rest of the interval with the scan that finds it due, and two cycles in
\* which every runtime may time out.
SettleTime == ProbeInterval + 2 * ScanLate + 2 * Cardinality(Runtime)

NoVerdict == [r \in Runtime |-> Never]

ProberInit ==
  /\ health \in [Runtime -> {"absent", "loaded"}]
  /\ turns = 0
  /\ sinceScan = 0
  /\ submitted = <<>>
  /\ waited = 0
  /\ sinceProbe = Never
  /\ detected = {}
  /\ asking = Never
  /\ found = NoVerdict
  /\ cache = NoVerdict
  /\ unloaded = [r \in Runtime |-> IF health[r] = "loaded" THEN 0 ELSE MaxAge + 1]
  /\ settled = [r \in Runtime |-> 0]

-----------------------------------------------------------------------------
\* A model is loaded or dropped, a runtime hangs, ends or starts.
Turn(r) ==
  /\ turns < MaxTurns
  /\ turns' = turns + 1
  /\ \E h \in {"absent", "loaded", "idle", "hung"} \ {health[r]} :
       /\ health' = [health EXCEPT ![r] = h]
       /\ settled' = [settled EXCEPT ![r] = 0]
       /\ unloaded' = IF h = "loaded" THEN [unloaded EXCEPT ![r] = 0] ELSE unloaded
  /\ UNCHANGED <<loopVars, workerVars>>

\* A finished scan submits the runtimes it saw.
Scan ==
  /\ sinceScan >= ScanEvery
  /\ sinceScan' = 0
  /\ submitted' = Append(submitted, {r \in Runtime : health[r] # "absent"})
  /\ UNCHANGED <<health, turns, workerVars, unloaded, settled>>

-----------------------------------------------------------------------------
(* The worker. *)

Waiting == asking = Never
Wakes == Waiting /\ (submitted # <<>> \/ waited = ProbeInterval)

\* Drained to the newest; a timeout keeps the set of the last submission.
Latest(queue) == IF queue = <<>> THEN detected ELSE queue[Len(queue)]

Due == sinceProbe = Never \/ sinceProbe >= ProbeInterval

Wake ==
  /\ Wakes
  /\ detected' = Latest(submitted)
  /\ submitted' = <<>>
  /\ waited' = 0
  /\ asking' = IF detected' # {} /\ Due THEN detected' ELSE Never
  /\ found' = NoVerdict
  /\ UNCHANGED <<health, turns, sinceScan, sinceProbe, cache, unloaded, settled>>

Judged(active) == [active |-> active, age |-> 0]

\* A runtime that answers is judged; one that is gone refuses the connection
\* and gets no verdict.
Answered(r) ==
  /\ ~Waiting
  /\ r \in asking
  /\ health[r] # "hung"
  /\ asking' = asking \ {r}
  /\ found' = IF health[r] = "absent" THEN found
              ELSE [found EXCEPT ![r] = Judged(health[r] = "loaded")]
  /\ UNCHANGED <<health, turns, loopVars, waited, sinceProbe, detected, cache,
                 unloaded, settled>>

\* Every runtime has been asked: the map is replaced.
Store ==
  /\ asking = {}
  /\ cache' = found
  /\ sinceProbe' = 0
  /\ asking' = Never
  /\ found' = NoVerdict
  /\ UNCHANGED <<health, turns, loopVars, waited, detected, unloaded, settled>>

\* What the map becomes when PROBE_TIMEOUT runs out.  In connecting it is an
\* error and no verdict.  In reading it is the end of the answer: what there
\* is of it, nothing or a part, is judged and is no model.
GivenUp(map, r) == {map, [map EXCEPT ![r] = Judged(FALSE)]}

\* PROBE_TIMEOUT runs out, within the second that is passing or at once.
TimedOut(r) ==
  /\ ~Waiting
  /\ r \in asking
  /\ health[r] = "hung"
  /\ asking' = asking \ {r}
  /\ found' \in GivenUp(found, r)
  /\ UNCHANGED <<health, turns, loopVars, waited, sinceProbe, detected, cache,
                 unloaded, settled>>

Worker == Wake \/ Store \/ \E r \in Runtime : Answered(r) \/ TimedOut(r)

-----------------------------------------------------------------------------
Capped(n, cap) == IF n < cap THEN n + 1 ELSE cap
Older(map) ==
  [r \in Runtime |-> IF map[r] = Never THEN Never
                     ELSE [map[r] EXCEPT !.age = Capped(@, MaxAge + 1)]]

\* A second passes, when nothing but a runtime that does not answer keeps the
\* worker busy.
Second ==
  /\ sinceScan < ScanLate
  /\ ~Wakes
  /\ ~Waiting => asking # {} /\ \A r \in asking : health[r] = "hung"
  /\ sinceScan' = sinceScan + 1
  /\ waited' = IF Waiting THEN waited + 1 ELSE waited
  /\ sinceProbe' = IF sinceProbe = Never THEN Never ELSE Capped(sinceProbe, ProbeInterval)
  /\ IF Waiting
     THEN UNCHANGED asking /\ found' = Older(found)
     ELSE \E r \in asking : asking' = asking \ {r} /\ found' \in GivenUp(Older(found), r)
  /\ cache' = Older(cache)
  /\ unloaded' = [r \in Runtime |-> IF health[r] = "loaded" THEN 0
                                    ELSE Capped(unloaded[r], MaxAge + 1)]
  /\ settled' = [r \in Runtime |-> IF health[r] = "loaded"
                                   THEN Capped(settled[r], SettleTime) ELSE 0]
  /\ UNCHANGED <<health, turns, submitted, detected>>

ProberNext == Scan \/ Worker \/ Second \/ \E r \in Runtime : Turn(r)

ProberSpec == ProberInit /\ [][ProberNext]_proberVars

-----------------------------------------------------------------------------
\* Mistake: a verdict is good for one interval only.
FreshForOneInterval(r) == cache[r] # Never /\ cache[r].age <= ProbeInterval

Fresh(r) == cache[r] # Never /\ cache[r].age <= MaxAge

\* What the scan is given: "active", "inactive" or nothing (the cheap tier).
Verdict(r) == IF ~Fresh(r) THEN "none" ELSE IF cache[r].active THEN "active" ELSE "inactive"

\* "A crashed server doesn't read as ready forever": a runtime reads as active
\* only if it had a model loaded within the last MaxAge seconds, also when
\* everything is gone and the worker no longer stores anything.  And one that
\* stays loaded reads as active within SettleTime and from then on, whatever
\* happens to the others: slow probes, a map that is replaced whole, scans that
\* wake the worker early, none makes its verdict go away.
VerdictsAreTimely ==
  \A r \in Runtime :
    /\ Verdict(r) = "active" => unloaded[r] <= MaxAge
    /\ settled[r] = SettleTime => Verdict(r) = "active"

\* "A timed-out or errored probe yields *no* verdict, so the caller falls back
\* to the cheap tier rather than flapping a server to "idle""
\* (workload/liveness_probe.rs:22): of a runtime that does not answer no
\* verdict is found.
TimeoutIsNoVerdict ==
  [][\A r \in Runtime :
       health[r] = "hung" /\ found[r] = Never => found'[r] = Never]_proberVars
=============================================================================
