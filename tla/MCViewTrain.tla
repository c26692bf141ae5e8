----------------------------- MODULE MCViewTrain -----------------------------
(***************************************************************************)
(* Two parts of the render loop that share no state, checked in one run: a *)
(* behaviour shows views or follows a trainer, and the other keeps still.  *)
(*                                                                         *)
(* All ten views, the code's own dwell times, and one key press: what the  *)
(* rotation does once it is left alone depends, from the next frame on, on *)
(* the drawn view and its dwell, and one key reaches all of those.  The    *)
(* trainers are those of MCTrainFollow.                                    *)
(***************************************************************************)
EXTENDS ViewLoop, MCTrainFollow

VARIABLES
  part,
  goal          \* a stop of the rotation: the one RotationShowsAll asks for

loopsVars == <<viewVars, vars, part, goal>>

LoopsInit ==
  /\ part \in {"view", "train"}
  /\ ViewInit
  /\ Init
  /\ rotating = (part = "view")
  /\ goal \in DOMAIN Rotation
  /\ part = "train" => goal = 1
  /\ part = "view" => owner = "arcade"

LoopsNext ==
  /\ UNCHANGED <<part, goal>>
  /\ \/ part = "view" /\ ViewNext /\ UNCHANGED vars
     \/ part = "train" /\ Next /\ UNCHANGED viewVars
     \* the user has quit
     \/ part = "view" /\ pc = "quit" /\ UNCHANGED <<viewVars, vars>>

AtView(A) == part = "view" /\ A /\ UNCHANGED <<vars, part, goal>>
AtTrain(A) == part = "train" /\ A /\ UNCHANGED <<viewVars, part, goal>>

\* ViewSpec's and TrainFollow's fairness, each for the part that moves.
LoopsFairness ==
  /\ WF_loopsVars(AtView(ChokePoint))
  /\ SF_loopsVars(AtView(Tick))
  /\ WF_loopsVars(AtView(Input))
  /\ WF_loopsVars(AtView(TimePasses))
  /\ WF_loopsVars(AtTrain(TakeList)) /\ WF_loopsVars(AtTrain(Find))
  /\ SF_loopsVars(AtTrain(AskForTrainer)) /\ SF_loopsVars(AtTrain(TakeResult))
  /\ WF_loopsVars(AtTrain(PollAttached)) /\ WF_loopsVars(AtTrain(Update))
  /\ WF_loopsVars(AtTrain(Poll))

LoopsSpec == LoopsInit /\ [][LoopsNext]_loopsVars /\ LoopsFairness
-----------------------------------------------------------------------------
\* Left alone, the rotation shows every view again and again, whatever was
\* pressed before: goal is any of its stops.
RotationShowsAll ==
  <>[](rotating /\ pc # "quit") => []<>(pc = "input" /\ drawn = Rotation[goal])
=============================================================================
