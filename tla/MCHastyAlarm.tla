---------------------------- MODULE MCHastyAlarm ----------------------------
(***************************************************************************)
(* The monitor beside a clock for each server that tells how long it has   *)
(* not moved: nothing is compiled or loaded, and it does not start or stop *)
(* where the last tick did not see its memory.                             *)
(***************************************************************************)
EXTENDS InferenceMonitor

VARIABLE idle

IdleInit == InferenceInit /\ idle = [s \in Server |-> 0]

SeenAlive(s) == states[s] # Absent /\ states[s].rss > 0

Moves(s) == kernels'[s] # kernels[s] \/ (container'[s] # container[s] /\ ~SeenAlive(s))

IdleNext ==
  /\ InferenceNext
  /\ idle' = [s \in Server |-> IF Moves(s) THEN 0
                               ELSE IF scanAge' > scanAge THEN UpTo(idle[s], AlarmAfter)
                               ELSE idle[s]]

IdleSpec == IdleInit /\ [][IdleNext]_<<inferenceVars, idle>>

\* "True when nothing has progressed for >= 5 minutes and the service isn't
\* Ready" (workload/inference_server/state.rs:63): an alarm is raised for a
\* live server that has not moved for AlarmAfter.
AlarmIsFiveMinutes ==
  [][\A s \in Server :
       (InAlarm(states'[s]) /\ ~InAlarm(states[s]) /\ Alive(s)) =>
         idle[s] >= AlarmAfter]_<<inferenceVars, idle>>
=============================================================================
