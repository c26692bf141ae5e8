------------------------------ MODULE ViewLoop ------------------------------
(***************************************************************************)
(* Which view the TUI shows (ui/tui/mod.rs): the keys and commands that    *)
(* change it, the unattended rotation, the choke point every change passes *)
(* through at the top of the next iteration, and the HivemindSweeper       *)
(* engine that must run exactly while its view is shown.                   *)
(*                                                                         *)
(* One iteration of the loop is Tick (or TickNotDue), ChokePoint, and one  *)
(* input event or none.  Time is counted in units of five seconds.         *)
(***************************************************************************)
EXTENDS Naturals, Sequences

CONSTANTS
  FirstView,    \* --mode
  Rotate,       \* with --rotate (TRUE), without it (FALSE)
  MaxKeys       \* key presses and commands in a behaviour

Sweeper == "HivemindSweeper"

Rotation ==
  <<"Insights", "MemoryFlow", "Starfield", "MemoryCastle", "Arcade", "Defrag",
    "InferenceMonitor", "HivemindSweeper", "Training">>

View == {Rotation[i] : i \in DOMAIN Rotation} \cup {"Grid"}

ASSUME ViewAssumption ==
  /\ FirstView \in View
  /\ Rotate \subseteq BOOLEAN
  /\ MaxKeys \in Nat

\* Mistake: the rotation ends at its last stop.
NextRotationViewEnds(v) ==
  IF \E i \in DOMAIN Rotation : Rotation[i] = v
  THEN LET i == CHOOSE j \in DOMAIN Rotation : Rotation[j] = v
       IN  IF i < Len(Rotation) THEN Rotation[i + 1] ELSE Rotation[i]
  ELSE Rotation[1]

\* Grid is not a stop of the rotation and restarts it.
NextRotationView(v) ==
  IF \E i \in DOMAIN Rotation : Rotation[i] = v
  THEN LET i == CHOOSE j \in DOMAIN Rotation : Rotation[j] = v
       IN  Rotation[(i % Len(Rotation)) + 1]
  ELSE Rotation[1]

\* The v key skips the views that have a key of their own.
NextDisplayView ==
  [v \in View |->
     CASE v \in {"Insights", "Grid"} -> "MemoryFlow"
       [] v = "MemoryFlow"           -> "Starfield"
       [] v = "Starfield"            -> "MemoryCastle"
       [] v = "MemoryCastle"         -> "Arcade"
       [] v = "Arcade"               -> "Defrag"
       [] v = "Defrag"               -> "InferenceMonitor"
       [] OTHER                      -> "Insights"]

\* ROTATE_LINGER, _ARCADE and _IDLE: 30, 45 and 10 seconds.
Linger(v, active) ==
  CASE v = "Arcade" -> 9
    [] v \in {"Training", "InferenceMonitor"} /\ ~active -> 2
    [] OTHER -> 6

MaxDwell == 9

VARIABLES
  pc,           \* "top", "choke", "input", "quit"
  view,         \* display_mode
  drawn,        \* prev_display_mode: the view of the last frame
  prev,         \* prev_mode: the view a toggle goes back to
  rotating,     \* rotate_enabled
  dwell,        \* rotate_since.elapsed()
  engine,       \* "none", "running", "stopped"
  keys,         \* inputs so far
  shownFor      \* history: how long the drawn view has been on the screen

viewVars == <<pc, view, drawn, prev, rotating, dwell, engine, keys, shownFor>>

\* A launch into the sweeper starts its engine.
ViewInit ==
  /\ pc = "top"
  /\ view = FirstView
  /\ drawn = FirstView
  /\ prev = "Insights"
  /\ rotating \in Rotate
  /\ dwell = 0
  /\ engine = IF FirstView = Sweeper THEN "running" ELSE "none"
  /\ keys = 0
  /\ shownFor = 0

-----------------------------------------------------------------------------
(***************************************************************************)
(* The top of an iteration.                                                *)
(***************************************************************************)
TickNotDue ==
  /\ pc = "top"
  /\ pc' = "choke"
  /\ UNCHANGED <<view, drawn, prev, rotating, dwell, engine, keys, shownFor>>

\* The views about a workload refresh their activity flag just before the
\* decision; for the others it is not looked at.
Tick ==
  /\ pc = "top"
  /\ pc' = "choke"
  /\ \E active \in BOOLEAN :
       view' = IF rotating /\ dwell >= Linger(view, active)
               THEN NextRotationView(view) ELSE view
  /\ UNCHANGED <<drawn, prev, rotating, dwell, engine, keys, shownFor>>

\* Mistake: the sweeper is only started by its own key.
ChokePointOnlyStops ==
  /\ pc = "choke"
  /\ pc' = "input"
  /\ engine' = IF drawn = Sweeper /\ view # Sweeper THEN "stopped" ELSE engine
  /\ dwell' = IF view # drawn THEN 0 ELSE dwell
  /\ shownFor' = IF view # drawn THEN 0 ELSE shownFor
  /\ drawn' = view
  /\ UNCHANGED <<view, prev, rotating, keys>>

\* Mistake: the dwell of the view before goes on counting.
ChokePointKeepsDwell ==
  /\ pc = "choke"
  /\ pc' = "input"
  /\ engine' = CASE drawn = Sweeper /\ view # Sweeper -> "stopped"
                 [] view = Sweeper /\ drawn # Sweeper -> "running"
                 [] OTHER -> engine
  /\ shownFor' = IF view # drawn THEN 0 ELSE shownFor
  /\ drawn' = view
  /\ UNCHANGED <<view, prev, rotating, keys, dwell>>

\* A change of view stops or starts the engine and restarts the dwell; then
\* the frame is drawn.
ChokePoint ==
  /\ pc = "choke"
  /\ pc' = "input"
  /\ IF view = drawn
     THEN UNCHANGED <<engine, dwell, shownFor>>
     ELSE /\ engine' = CASE drawn = Sweeper -> "stopped"
                         [] view = Sweeper  -> "running"
                         [] OTHER           -> engine
          /\ dwell' = 0
          /\ shownFor' = 0
  /\ drawn' = view
  /\ UNCHANGED <<view, prev, rotating, keys>>

TimePasses ==
  /\ pc # "quit"
  /\ dwell < MaxDwell
  /\ dwell' = dwell + 1
  /\ shownFor' = IF shownFor < MaxDwell THEN shownFor + 1 ELSE shownFor
  /\ UNCHANGED <<pc, view, drawn, prev, rotating, engine, keys>>

-----------------------------------------------------------------------------
(***************************************************************************)
(* Input.                                                                  *)
(***************************************************************************)
\* No event in 16 ms, or one that changes nothing here (an overlay, a key the
\* reset takeover consumed, an Esc that dismissed something else).
NoInput ==
  /\ pc = "input"
  /\ pc' = "top"
  /\ UNCHANGED <<view, drawn, prev, rotating, dwell, engine, keys, shownFor>>

Pressed ==
  /\ pc = "input"
  /\ keys < MaxKeys
  /\ keys' = keys + 1
  /\ pc' = "top"

GoTo(v) ==
  /\ Pressed
  /\ view' = v
  /\ UNCHANGED <<drawn, prev, rotating, dwell, engine, shownFor>>

\* `~`
ToggleSweeper ==
  /\ Pressed
  /\ IF view # Sweeper
     THEN prev' = view /\ view' = Sweeper /\ engine' = "running"
     ELSE view' = prev /\ UNCHANGED <<prev, engine, shownFor>>
  /\ UNCHANGED <<drawn, rotating, dwell, shownFor>>

\* /hivemind, /mode hivemind, /watch and a confirmed /wrap
OpenSweeper ==
  /\ Pressed
  /\ engine' = "running"
  /\ view' = Sweeper
  /\ prev' = IF view # Sweeper THEN view ELSE prev
  /\ UNCHANGED <<drawn, rotating, dwell, shownFor>>

\* t
ToggleTraining ==
  /\ Pressed
  /\ IF view # "Training"
     THEN prev' = view /\ view' = "Training"
     ELSE view' = prev /\ UNCHANGED prev
  /\ UNCHANGED <<drawn, rotating, dwell, engine, shownFor>>

\* i
ToggleInference ==
  /\ Pressed
  /\ IF view # "InferenceMonitor"
     THEN prev' = view /\ view' = "InferenceMonitor"
     ELSE view' = "Insights" /\ UNCHANGED prev
  /\ UNCHANGED <<drawn, rotating, dwell, engine, shownFor>>

\* Esc in a view that has a key of its own
Back ==
  /\ view \in {Sweeper, "Training", "InferenceMonitor"}
  /\ GoTo(prev)

\* v
Cycle == GoTo(NextDisplayView[view])

\* d, g, a, and /mode with any other name
Jump == \E v \in View \ {Sweeper, "InferenceMonitor"} : GoTo(v)

\* R, /rotate
ToggleRotation ==
  /\ Pressed
  /\ \E on \in BOOLEAN : rotating' = on
  /\ dwell' = 0
  /\ UNCHANGED <<view, drawn, prev, engine, shownFor>>

\* q, /quit, and Esc in any other view: the loop returns and drops the engine.
Quit ==
  /\ pc = "input"
  /\ pc' = "quit"
  /\ engine' = IF engine = "none" THEN "none" ELSE "stopped"
  /\ UNCHANGED <<view, drawn, prev, rotating, dwell, keys, shownFor>>

Input ==
  \/ NoInput
  \/ ToggleSweeper \/ OpenSweeper \/ ToggleTraining \/ ToggleInference
  \/ Back \/ Cycle \/ Jump \/ ToggleRotation
  \/ Quit

ViewNext == TickNotDue \/ Tick \/ ChokePoint \/ TimePasses \/ Input

ViewSafety == ViewInit /\ [][ViewNext]_viewVars

\* The loop never blocks, ticks fall due again and again, and time goes on.
ViewFairness ==
  /\ WF_viewVars(ChokePoint)
  /\ SF_viewVars(Tick)
  /\ WF_viewVars(Input)
  /\ WF_viewVars(TimePasses)

ViewSpec == ViewSafety /\ ViewFairness

-----------------------------------------------------------------------------
ViewTypeOK ==
  /\ pc \in {"top", "choke", "input", "quit"}
  /\ view \in View
  /\ drawn \in View
  /\ prev \in View
  /\ rotating \in BOOLEAN
  /\ dwell \in 0..MaxDwell
  /\ shownFor \in 0..MaxDwell
  /\ engine \in {"none", "running", "stopped"}
  /\ keys \in 0..MaxKeys

\* The sweeper is never on the screen with a dead engine, whether it was
\* reached by its key, a command, the rotation, or a way back to it.
SweeperIsAlive == (pc = "input" /\ drawn = Sweeper) => engine = "running"

\* No view that has been drawn is left by the rotation before it has been on
\* the screen for its dwell, however the rotation was switched and whichever
\* way the view was reached.
DwellIsKept ==
  [][(pc = "top" /\ view' # view /\ view = drawn) =>
       shownFor >= Linger(view, view \notin {"Training", "InferenceMonitor"})]_viewVars
=============================================================================
