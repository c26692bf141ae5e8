--------------------------- MODULE ViewLoopProofs ---------------------------
(***************************************************************************)
(* Proofs about the view loop for every first view and any number of key   *)
(* presses.                                                                *)
(***************************************************************************)
EXTENDS ViewLoop, TLAPS

(***************************************************************************)
(* SweeperIsAlive speaks of the moment a frame is drawn; between two       *)
(* frames it is the drawn view, not the chosen one, that decides.  The     *)
(* rotation's clock never runs ahead of the time the view has been shown.  *)
(***************************************************************************)
AliveWhileDrawn == (pc # "quit" /\ drawn = Sweeper) => engine = "running"

ClockIsHonest == dwell <= shownFor

IInv == ViewTypeOK /\ AliveWhileDrawn /\ ClockIsHonest

-----------------------------------------------------------------------------
LEMMA StopsWrap ==
  ASSUME NEW i \in 1..9
  PROVE  (i % 9) + 1 \in 1..9
<1>1. i % 9 \in 0..8
  OBVIOUS
<1>2. QED
  BY <1>1

LEMMA NextRotationViewIsView ==
  ASSUME NEW v \in View
  PROVE  NextRotationView(v) \in View
<1>1. \A i \in DOMAIN Rotation : Rotation[i] \in View
  BY DEF View
<1>2. Len(Rotation) = 9 /\ DOMAIN Rotation = 1..9
  BY DEF Rotation
<1>3. CASE \E i \in DOMAIN Rotation : Rotation[i] = v
  <2> DEFINE i == CHOOSE j \in DOMAIN Rotation : Rotation[j] = v
  <2>1. i \in 1..9
    BY <1>2, <1>3
  <2>2. NextRotationView(v) = Rotation[(i % Len(Rotation)) + 1]
    BY <1>3 DEF NextRotationView
  <2> HIDE DEF i
  <2>3. (i % Len(Rotation)) + 1 \in 1..9
    BY <1>2, <2>1, StopsWrap
  <2>4. QED
    BY <1>1, <1>2, <2>2, <2>3
<1>4. CASE ~ \E i \in DOMAIN Rotation : Rotation[i] = v
  <2>1. NextRotationView(v) = Rotation[1]
    BY <1>4 DEF NextRotationView
  <2>2. QED
    BY <1>1, <1>2, <2>1
<1>5. QED
  BY <1>3, <1>4

LEMMA ViewNames ==
  /\ Sweeper \in View
  /\ "Training" \in View
  /\ "InferenceMonitor" \in View
  /\ "Insights" \in View
<1>1. DOMAIN Rotation = 1..9
  BY DEF Rotation
<1>2. Rotation[1] \in View /\ Rotation[7] \in View /\ Rotation[8] \in View /\ Rotation[9] \in View
  BY <1>1 DEF View
<1>3. QED
  BY <1>2 DEF Rotation, Sweeper

LEMMA NextDisplayViewIsView ==
  ASSUME NEW v \in View
  PROVE  NextDisplayView[v] \in View
<1>1. DOMAIN Rotation = 1..9
  BY DEF Rotation
<1>2. \A i \in 1..9 : Rotation[i] \in View
  BY <1>1 DEF View
<1>3. QED
  BY <1>2 DEF NextDisplayView, Rotation

-----------------------------------------------------------------------------
LEMMA InitEstablishes == ViewInit => IInv
  BY ViewAssumption, ViewNames
  DEF ViewInit, IInv, ViewTypeOK, AliveWhileDrawn, ClockIsHonest, MaxDwell

LEMMA NextPreserves == IInv /\ [ViewNext]_viewVars => IInv'
<1> SUFFICES ASSUME IInv, [ViewNext]_viewVars
             PROVE  IInv'
  OBVIOUS
<1> USE ViewAssumption
<1> USE DEF IInv, ViewTypeOK, AliveWhileDrawn, ClockIsHonest, MaxDwell
<1>1. CASE TickNotDue
  BY <1>1 DEF TickNotDue
<1>2. CASE Tick
  <2>1. view' \in View
    BY <1>2, NextRotationViewIsView DEF Tick
  <2>2. QED
    BY <1>2, <2>1 DEF Tick
<1>3. CASE ChokePoint
  BY <1>3 DEF ChokePoint
<1>4. CASE TimePasses
  BY <1>4 DEF TimePasses
<1>5. CASE NoInput
  BY <1>5 DEF NoInput
<1>6. CASE ToggleSweeper
  BY <1>6, ViewNames DEF ToggleSweeper, Pressed
<1>7. CASE OpenSweeper
  BY <1>7, ViewNames DEF OpenSweeper, Pressed
<1>8. CASE ToggleTraining
  BY <1>8, ViewNames DEF ToggleTraining, Pressed
<1>9. CASE ToggleInference
  BY <1>9, ViewNames DEF ToggleInference, Pressed
<1>10. CASE Back
  BY <1>10 DEF Back, GoTo, Pressed
<1>11. CASE Cycle
  <2>1. view' \in View
    BY <1>11, NextDisplayViewIsView DEF Cycle, GoTo
  <2>2. QED
    BY <1>11, <2>1 DEF Cycle, GoTo, Pressed
<1>12. CASE Jump
  BY <1>12 DEF Jump, GoTo, Pressed
<1>13. CASE ToggleRotation
  BY <1>13 DEF ToggleRotation, Pressed
<1>14. CASE Quit
  BY <1>14 DEF Quit
<1>15. CASE UNCHANGED viewVars
  BY <1>15 DEF viewVars
<1>16. QED
  BY <1>1, <1>2, <1>3, <1>4, <1>5, <1>6, <1>7, <1>8, <1>9, <1>10, <1>11, <1>12,
     <1>13, <1>14, <1>15 DEF ViewNext, Input

LEMMA InvariantHolds == ViewSafety => []IInv
  BY InitEstablishes, NextPreserves, PTL DEF ViewSafety

\* Every behaviour of the view loop is of its types: the one slot for the way
\* back always holds a view.
THEOREM ViewTypes == ViewSafety => []ViewTypeOK
<1>1. IInv => ViewTypeOK
  BY DEF IInv
<1>2. QED
  BY <1>1, InvariantHolds, PTL

\* The sweeper is never drawn with a dead engine, for any first view and any
\* sequence of keys, commands and rotations.
THEOREM SweeperStaysAlive == ViewSafety => []SweeperIsAlive
<1>1. IInv => SweeperIsAlive
  BY DEF IInv, AliveWhileDrawn, SweeperIsAlive
<1>2. QED
  BY <1>1, InvariantHolds, PTL

\* The rotation never leaves a drawn view before its dwell is over.
THEOREM RotationKeepsDwell == ViewSafety => DwellIsKept
<1>1. IInv /\ [ViewNext]_viewVars =>
        [(pc = "top" /\ view' # view /\ view = drawn) =>
           shownFor >= Linger(view, view \notin {"Training", "InferenceMonitor"})]_viewVars
  <2> SUFFICES ASSUME IInv, ViewNext, pc = "top", view' # view, view = drawn
               PROVE  shownFor >= Linger(view, view \notin {"Training", "InferenceMonitor"})
    BY DEF viewVars
  <2>1. Tick
    BY DEF ViewNext, Input, TickNotDue, ChokePoint, TimePasses, NoInput, ToggleSweeper,
           OpenSweeper, ToggleTraining, ToggleInference, Back, Cycle, Jump, GoTo,
           ToggleRotation, Quit, Pressed
  <2>2. PICK active \in BOOLEAN : dwell >= Linger(view, active)
    BY <2>1 DEF Tick
  <2>3. dwell \in Nat /\ shownFor \in Nat /\ dwell <= shownFor
    BY DEF IInv, ViewTypeOK, ClockIsHonest, MaxDwell
  <2>4. CASE view \in {"Training", "InferenceMonitor"}
    <3>1. Linger(view, view \notin {"Training", "InferenceMonitor"}) = 2
      BY <2>4 DEF Linger
    <3>2. Linger(view, active) \in {2, 6}
      BY <2>4, active = TRUE \/ active = FALSE DEF Linger
    <3>3. QED
      BY <2>2, <2>3, <3>1, <3>2
  <2>5. CASE view \notin {"Training", "InferenceMonitor"}
    <3>1. Linger(view, active) = Linger(view, view \notin {"Training", "InferenceMonitor"})
      BY <2>5 DEF Linger
    <3>2. Linger(view, active) \in {6, 9}
      BY <2>5 DEF Linger
    <3>3. QED
      BY <2>2, <2>3, <3>1, <3>2
  <2>6. QED
    BY <2>4, <2>5
<1>2. QED
  BY <1>1, InvariantHolds, PTL DEF ViewSafety, DwellIsKept

=============================================================================
