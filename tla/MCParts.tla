------------------------------ MODULE MCParts ------------------------------
(***************************************************************************)
(* Eight parts that share no state, checked in one run: a behaviour picks  *)
(* one of them and takes its steps, the others stay at one initial state.  *)
(***************************************************************************)
EXTENDS SnapshotJoin, TrainSteps, LivenessProber, InferenceMonitor, HivemindEngine,
        TermWindow, DefragPhases, InsightsPanel

VARIABLE part

partsVars == <<vars, stepsVars, proberVars, inferenceVars, hivemindVars, windowVars,
               defragVars, insightsVars, part>>

PartsInit ==
  /\ part \in {"join", "steps", "prober", "inference", "hivemind", "window", "defrag",
               "insights"}
  /\ Init
  /\ part # "join" => positions = {} /\ \A b \in Bus : busToIndex[b] = None
  /\ StepsInit
  /\ part # "steps" => style = "lines"
  /\ ProberInit
  /\ part # "prober" => \A r \in Runtime : health[r] = "absent"
  /\ InferenceInit
  /\ part # "inference" => \A s \in Server : container[s] = "gone"
  /\ HivemindInit
  /\ DefragInit
  /\ WindowInit
  /\ part # "window" => /\ program = "draws"
                         /\ termSize = CHOOSE z \in Size : TRUE
  /\ InsightsInit
  /\ part # "insights" => proc_rows = <<>> /\ backend = "Mock"

PartsNext ==
  /\ UNCHANGED part
  /\ \/ part = "join" /\ Next
          /\ UNCHANGED <<stepsVars, proberVars, inferenceVars, hivemindVars, windowVars,
                         defragVars, insightsVars>>
     \/ part = "steps" /\ StepsNext
          /\ UNCHANGED <<vars, proberVars, inferenceVars, hivemindVars, windowVars,
                         defragVars, insightsVars>>
     \/ part = "prober" /\ ProberNext
          /\ UNCHANGED <<vars, stepsVars, inferenceVars, hivemindVars, windowVars,
                         defragVars, insightsVars>>
     \/ part = "inference" /\ InferenceNext
          /\ UNCHANGED <<vars, stepsVars, proberVars, hivemindVars, windowVars,
                         defragVars, insightsVars>>
     \/ part = "hivemind" /\ HivemindNext
          /\ UNCHANGED <<vars, stepsVars, proberVars, inferenceVars, windowVars,
                         defragVars, insightsVars>>
     \/ part = "window" /\ WindowNext
          /\ UNCHANGED <<vars, stepsVars, proberVars, inferenceVars, hivemindVars,
                         defragVars, insightsVars>>
     \/ part = "defrag" /\ DefragNext
          /\ UNCHANGED <<vars, stepsVars, proberVars, inferenceVars, hivemindVars,
                         windowVars, insightsVars>>
     \/ part = "insights" /\ InsightsNext
          /\ UNCHANGED <<vars, stepsVars, proberVars, inferenceVars, hivemindVars, windowVars,
                         defragVars>>
     \* the user has quit
     \/ part = "insights" /\ pc = "quit" /\ UNCHANGED partsVars

PartsSpec == PartsInit /\ [][PartsNext]_partsVars
=============================================================================
