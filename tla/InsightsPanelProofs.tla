------------------------- MODULE InsightsPanelProofs -------------------------
(***************************************************************************)
(* For every set of processes, /remote commands, fleets and reachable      *)
(* backends: a confirmed kill was named on the screen, a cancelled connect *)
(* never lands, and a broadcast frame describes one machine.               *)
(*                                                                         *)
(* Three invariants carry them.  The loop listens to the request that is   *)
(* wanted and to no other; a backend that is not of type Remote is a local *)
(* one; and once a frame is due no longer, the screen shows the dialog     *)
(* that is open.                                                           *)
(***************************************************************************)
EXTENDS InsightsPanel, TLAPS

ListensToWanted ==
  /\ pending_remote \in Request \cup {Nothing}
  /\ wanted = pending_remote

TypeNamesOrigin ==
  /\ backend \in Local \cup Request
  /\ backend_type \in Kind
  /\ backend_type # "Remote" => backend \in Local

DialogIsShown ==
  kill_confirm # Nothing =>
    /\ shown.view = display_mode
    /\ shown.dialog = kill_confirm
    /\ ~shown.remote

DrawnOrDue == (pc = "input" \/ ~force_redraw) => DialogIsShown

IInv == ListensToWanted /\ TypeNamesOrigin /\ DrawnOrDue /\ OneMachinePerFrame

-----------------------------------------------------------------------------
(* The `b` key stays among the local backends. *)

Step2 == [k \in Kind |-> NextBackend[NextBackend[k]]]
Step3 == [k \in Kind |-> NextBackend[Step2[k]]]
Step4 == [k \in Kind |-> NextBackend[Step3[k]]]
Step5 == [k \in Kind |-> NextBackend[Step4[k]]]
Step6 == [k \in Kind |-> NextBackend[Step5[k]]]
Step7 == [k \in Kind |-> NextBackend[Step6[k]]]

Steps ==
  [n \in 1..7 |-> CASE n = 1 -> NextBackend [] n = 2 -> Step2 [] n = 3 -> Step3
                    [] n = 4 -> Step4 [] n = 5 -> Step5 [] n = 6 -> Step6
                    [] n = 7 -> Step7]

AfterBody(f, n) == [k \in Kind |-> IF n = 1 THEN NextBackend[k] ELSE NextBackend[f[n - 1][k]]]

LEMMA NextIsLocal ==
  /\ NextBackend \in [Kind -> Local]
  /\ NextBackend = [k \in Kind |-> NextBackend[k]]
BY DEF NextBackend, Kind, Local

LEMMA StepsSolve == Steps = [n \in 1..7 |-> AfterBody(Steps, n)]
<1> SUFFICES ASSUME NEW n \in 1..7 PROVE Steps[n] = AfterBody(Steps, n)
  BY DEF Steps
<1>1. CASE n = 1  BY <1>1, NextIsLocal DEF Steps, AfterBody
<1>2. CASE n = 2  BY <1>2 DEF Steps, AfterBody, Step2
<1>3. CASE n = 3  BY <1>3 DEF Steps, AfterBody, Step3
<1>4. CASE n = 4  BY <1>4 DEF Steps, AfterBody, Step4
<1>5. CASE n = 5  BY <1>5 DEF Steps, AfterBody, Step5
<1>6. CASE n = 6  BY <1>6 DEF Steps, AfterBody, Step6
<1>7. CASE n = 7  BY <1>7 DEF Steps, AfterBody, Step7
<1> QED  BY <1>1, <1>2, <1>3, <1>4, <1>5, <1>6, <1>7

\* After is such a function, whichever it is.
LEMMA AfterUnfolds == After = [n \in 1..7 |-> AfterBody(After, n)]
<1>1. \E f : f = [n \in 1..7 |-> AfterBody(f, n)]  BY StepsSolve
<1>2. After = CHOOSE f : f = [n \in 1..7 |-> AfterBody(f, n)]  BY DEF After, AfterBody
<1> QED  BY <1>1, <1>2

LEMMA AfterAtOne == \A k \in Kind : After[1][k] = NextBackend[k]
<1>1. After[1] = AfterBody(After, 1)  BY AfterUnfolds
<1> QED  BY <1>1 DEF AfterBody

LEMMA AfterGoesOn ==
  ASSUME NEW n \in 1..6, NEW k \in Kind
  PROVE  After[n + 1][k] = NextBackend[After[n][k]]
<1>1. n + 1 \in 1..7 /\ n + 1 # 1 /\ (n + 1) - 1 = n  OBVIOUS
<1>2. After[n + 1] = AfterBody(After, n + 1)  BY <1>1, AfterUnfolds
<1> QED  BY <1>1, <1>2 DEF AfterBody

LEMMA AfterIsLocal ==
  ASSUME NEW k \in Kind, NEW n \in 1..7 PROVE After[n][k] \in Local
<1> DEFINE Good(m) == After[m][k] \in Local
<1>1. Good(1)  BY AfterAtOne, NextIsLocal
<1>2. ASSUME NEW m \in 1..6, Good(m) PROVE Good(m + 1)
  BY <1>2, AfterGoesOn, NextIsLocal DEF Kind
<1> HIDE DEF Good
<1>3. Good(2)  BY <1>1, <1>2
<1>4. Good(3)  BY <1>3, <1>2
<1>5. Good(4)  BY <1>4, <1>2
<1>6. Good(5)  BY <1>5, <1>2
<1>7. Good(6)  BY <1>6, <1>2
<1>8. Good(7)  BY <1>7, <1>2
<1>9. n \in {1, 2, 3, 4, 5, 6, 7}  OBVIOUS
<1>10. Good(n)  BY <1>1, <1>3, <1>4, <1>5, <1>6, <1>7, <1>8, <1>9
<1> QED  BY <1>10 DEF Good

LEMMA TheCycle ==
  /\ NextBackend["Hybrid"] = "Sysfs"
  /\ NextBackend["Sysfs"] = "Json"
  /\ NextBackend["Json"] = "Mock" /\ NextBackend["Luwen"] = "Mock"
  /\ NextBackend["Mock"] = "Host"
  /\ NextBackend["Host"] = "Hybrid" /\ NextBackend["Remote"] = "Hybrid"
BY DEF NextBackend, Kind, Local

\* One of the seven backends tried is the mock.
LEMMA MockIsTried ==
  ASSUME NEW k \in Kind PROVE \E n \in 1..7 : After[n][k] = "Mock"
<1> DEFINE A(n) == After[n][k]
<1>1. A(1) = NextBackend[k]  BY AfterAtOne
<1>2. /\ A(2) = NextBackend[A(1)] /\ A(3) = NextBackend[A(2)]
      /\ A(4) = NextBackend[A(3)] /\ A(5) = NextBackend[A(4)]
  <2>1. \A n \in 1..6 : After[n + 1][k] = NextBackend[After[n][k]]  BY AfterGoesOn
  <2> QED  BY <2>1
<1> HIDE DEF A
<1>3. A(1) = "Mock" \/ A(2) = "Mock" \/ A(3) = "Mock" \/ A(4) = "Mock" \/ A(5) = "Mock"
  <2>1. CASE k \in {"Json", "Luwen"}  BY <1>1, <2>1, TheCycle
  <2>2. CASE k = "Sysfs"  BY <1>1, <1>2, <2>2, TheCycle
  <2>3. CASE k = "Hybrid"  BY <1>1, <1>2, <2>3, TheCycle
  <2>4. CASE k \in {"Host", "Remote"}  BY <1>1, <1>2, <2>4, TheCycle
  <2>5. CASE k = "Mock"  BY <1>1, <1>2, <2>5, TheCycle
  <2> QED  BY <2>1, <2>2, <2>3, <2>4, <2>5 DEF Kind, Local
<1>4. \A n \in {1, 2, 3, 4, 5} : n \in 1..7  OBVIOUS
<1> QED  BY <1>3, <1>4 DEF A

LEMMA SevenHasLeast ==
  ASSUME NEW S \in SUBSET (1..7), S # {} PROVE \E n \in S : \A m \in S : n <= m
<1>1. CASE 1 \in S  BY <1>1
<1>2. CASE S \subseteq {2, 3, 4, 5, 6, 7} /\ 2 \in S  BY <1>2
<1>3. CASE S \subseteq {3, 4, 5, 6, 7} /\ 3 \in S  BY <1>3
<1>4. CASE S \subseteq {4, 5, 6, 7} /\ 4 \in S  BY <1>4
<1>5. CASE S \subseteq {5, 6, 7} /\ 5 \in S  BY <1>5
<1>6. CASE 6 \in S /\ S \subseteq {6, 7}  BY <1>6
<1>7. CASE S = {7}  BY <1>7
<1>8. S \subseteq {1, 2, 3, 4, 5, 6, 7}  OBVIOUS
<1> QED  BY <1>1, <1>2, <1>3, <1>4, <1>5, <1>6, <1>7, <1>8

LEMMA SwitchIsLocal ==
  ASSUME NEW k \in Kind PROVE SwitchToNext(k) \in Local
<1> DEFINE works == {n \in 1..7 : After[n][k] \in Reachable}
           first == CHOOSE n \in works : \A m \in works : n <= m
<1>1. works \in SUBSET (1..7) /\ works # {}  BY MockIsTried, PanelAssumption
<1>2. first \in works  BY <1>1, SevenHasLeast
<1>3. After[first][k] \in Local  BY <1>2, AfterIsLocal
<1> QED  BY <1>3 DEF SwitchToNext

-----------------------------------------------------------------------------
(* The invariant. *)

LEMMA InitIInv == InsightsInit => IInv
BY PanelAssumption
   DEF InsightsInit, IInv, ListensToWanted, TypeNamesOrigin, DrawnOrDue, DialogIsShown,
       OneMachinePerFrame, Kind, Local

LEMMA TopIInv == IInv /\ Top => IInv'
<1> SUFFICES ASSUME IInv, Top PROVE IInv'  OBVIOUS
<1>1. ListensToWanted'  BY DEF IInv, ListensToWanted, Top, remoteVars
<1>2. TypeNamesOrigin'  BY DEF IInv, TypeNamesOrigin, Top, backendVars
<1>3. OneMachinePerFrame'  BY DEF IInv, OneMachinePerFrame, Top
<1>4. DrawnOrDue'
  <2>1. PICK tick \in BOOLEAN :
          /\ \/ UNCHANGED display_mode
             \/ tick /\ Rotates /\ display_mode' \in View
          /\ shown' = IF tick \/ force_redraw
                       THEN DrawnFrame(display_mode', kill_confirm', has_remote_proc_rows')
                       ELSE shown
    BY DEF Top
  <2>2. kill_confirm' # Nothing => ~has_remote_proc_rows' /\ kill_confirm' = kill_confirm
    BY DEF Top
  <2>3. CASE tick \/ force_redraw
    BY <2>1, <2>2, <2>3 DEF DrawnOrDue, DialogIsShown, DrawnFrame
  <2>4. CASE ~tick /\ ~force_redraw
    BY <2>1, <2>2, <2>4 DEF IInv, DrawnOrDue, DialogIsShown
  <2> QED  BY <2>3, <2>4
<1> QED  BY <1>1, <1>2, <1>3, <1>4 DEF IInv

\* A key asks for a frame, so only what the loop listens to and the type of
\* the backend are left to look at.
LEMMA KeyIInv == IInv /\ Key => IInv'
<1> SUFFICES ASSUME IInv, Key PROVE IInv'  OBVIOUS
<1> USE DEF modeVars, panelVars, backendVars, remoteVars
<1>1. Pressed
  BY DEF Key, CancelRemote, Up, Down, AskToKill, Confirm, Decline, KillRow, ZoomIn,
         ChangeView, Dismiss, SwitchBackend, Serve, OtherKey, Remote
<1>2. DrawnOrDue' /\ OneMachinePerFrame'
  BY <1>1 DEF IInv, Pressed, DrawnOrDue, OneMachinePerFrame
<1>3. ListensToWanted'
  <2>1. CASE CancelRemote  BY <2>1 DEF CancelRemote, ListensToWanted
  <2>2. CASE \E r \in Request : Remote(r)  BY <2>2 DEF Remote, ListensToWanted
  <2>3. CASE UNCHANGED <<pending_remote, wanted>>
    BY <2>3 DEF IInv, ListensToWanted
  <2> QED
    BY <2>1, <2>2, <2>3
       DEF Key, Up, Down, AskToKill, Confirm, Decline, KillRow, ZoomIn,
           ChangeView, Dismiss, SwitchBackend, Serve, OtherKey
<1>4. TypeNamesOrigin'
  <2>1. CASE SwitchBackend
    <3>1. backend_type' \in Local
      BY <2>1, SwitchIsLocal DEF SwitchBackend, IInv, TypeNamesOrigin
    <3> QED  BY <2>1, <3>1 DEF SwitchBackend, TypeNamesOrigin, Kind
  <2>2. CASE UNCHANGED <<backend, backend_type>>
    BY <2>2 DEF IInv, TypeNamesOrigin
  <2> QED
    BY <2>1, <2>2
       DEF Key, CancelRemote, Up, Down, AskToKill, Confirm, Decline, KillRow, ZoomIn,
           ChangeView, Dismiss, Serve, OtherKey, Remote
<1> QED  BY <1>2, <1>3, <1>4 DEF IInv

LEMMA OutcomeIInv == IInv /\ (Swap \/ Report) => IInv'
<1> SUFFICES ASSUME IInv, Swap \/ Report PROVE IInv'  OBVIOUS
<1>1. DrawnOrDue' /\ OneMachinePerFrame'
  BY DEF IInv, Swap, Report, DrawnOrDue, OneMachinePerFrame
<1>2. ListensToWanted'  BY DEF Swap, Report, ListensToWanted
<1>3. TypeNamesOrigin'
  <2>1. CASE Swap
    BY <2>1 DEF IInv, ListensToWanted, Swap, TypeNamesOrigin, Kind
  <2>2. CASE Report
    BY <2>2 DEF IInv, Report, TypeNamesOrigin, backendVars
  <2> QED  BY <2>1, <2>2
<1> QED  BY <1>1, <1>2, <1>3 DEF IInv

LEMMA ApplyScanIInv == IInv /\ ApplyScan => IInv'
<1> SUFFICES ASSUME IInv, ApplyScan PROVE IInv'  OBVIOUS
<1>1. ListensToWanted' /\ TypeNamesOrigin'
  BY DEF IInv, ListensToWanted, TypeNamesOrigin, ApplyScan, remoteVars, backendVars
<1>2. DrawnOrDue'
  BY DEF IInv, DrawnOrDue, DialogIsShown, ApplyScan, modeVars
<1>3. OneMachinePerFrame'
  BY DEF IInv, OneMachinePerFrame, TypeNamesOrigin, ApplyScan, Broadcast, Origin
<1> QED  BY <1>1, <1>2, <1>3 DEF IInv

\* The other steps change nothing the invariant is about but pc, away from
\* "input" or while no frame is due.
LEMMA QuietIInv ==
  ASSUME IInv,
         UNCHANGED <<display_mode, kill_confirm, shown, force_redraw, backend,
                     backend_type, pending_remote, wanted, frame>>,
         pc' = pc \/ pc' # "input"
  PROVE  IInv'
BY DEF IInv, ListensToWanted, TypeNamesOrigin, DrawnOrDue, DialogIsShown, OneMachinePerFrame

LEMMA NextIInv == IInv /\ [InsightsNext]_insightsVars => IInv'
<1> SUFFICES ASSUME IInv, [InsightsNext]_insightsVars PROVE IInv'  OBVIOUS
<1> USE DEF modeVars, panelVars, backendVars, remoteVars
<1>1. CASE Top  BY <1>1, TopIInv
<1>2. CASE Key  BY <1>2, KeyIInv
<1>3. CASE Swap \/ Report  BY <1>3, OutcomeIInv
<1>4. CASE ApplyScan  BY <1>4, ApplyScanIInv
<1>5. CASE NoKey \/ Quit  BY <1>5, QuietIInv DEF NoKey, Quit
<1>6. CASE NoOutcome \/ UpdateBackend \/ NoScan
  BY <1>6, QuietIInv DEF NoOutcome, UpdateBackend, NoScan
<1>7. ASSUME NEW r \in Request, WorkerEnds(r) PROVE IInv'
  BY <1>7, QuietIInv DEF WorkerEnds
<1>8. CASE UNCHANGED insightsVars  BY <1>8, QuietIInv DEF insightsVars
<1> QED
  BY <1>1, <1>2, <1>3, <1>4, <1>5, <1>6, <1>7, <1>8 DEF InsightsNext, Loop

THEOREM PanelInvariant == InsightsSpec => []IInv
BY InitIInv, NextIInv, PTL DEF InsightsSpec

-----------------------------------------------------------------------------
\* A frame that goes out never mixes the telemetry of one machine with the
\* processes of another, through any sequence of /remote, `b` and /serve
\* (the broadcast of ui/tui/mod.rs).
THEOREM FrameIsOneMachine == InsightsSpec => []OneMachinePerFrame
<1>1. IInv => OneMachinePerFrame  BY DEF IInv
<1> QED  BY <1>1, PanelInvariant, PTL

LEMMA StepConnectsWanted ==
  ASSUME IInv, [InsightsNext]_insightsVars, backend' # backend, backend' \in Request
  PROVE  backend' = wanted
<1> USE DEF modeVars, panelVars, backendVars, remoteVars
<1>1. CASE Swap  BY <1>1 DEF Swap, IInv, ListensToWanted
<1>2. CASE SwitchBackend
  <2>1. backend' \in Local
    BY <1>2, SwitchIsLocal DEF SwitchBackend, IInv, TypeNamesOrigin
  <2> QED  BY <2>1, PanelAssumption
<1>3. CASE Key /\ ~SwitchBackend
  BY <1>3
     DEF Key, CancelRemote, Up, Down, AskToKill, Confirm, Decline, KillRow, ZoomIn,
         ChangeView, Dismiss, Serve, OtherKey, Remote
<1>4. CASE Top \/ NoKey \/ Report \/ NoOutcome \/ UpdateBackend \/ ApplyScan \/ NoScan \/ Quit
  BY <1>4 DEF Top, NoKey, Report, NoOutcome, UpdateBackend, ApplyScan, NoScan, Quit
<1>5. CASE \E r \in Request : WorkerEnds(r)  BY <1>5 DEF WorkerEnds
<1>6. CASE UNCHANGED insightsVars  BY <1>6 DEF insightsVars
<1> QED  BY <1>1, <1>2, <1>3, <1>4, <1>5, <1>6 DEF InsightsNext, Loop

\* However late a worker is done, only the last /remote command that was not
\* cancelled changes the backend (pending_remote of ui/tui/mod.rs).
THEOREM CancelledNeverLands == InsightsSpec => OnlyTheWantedConnects
<1>1. IInv /\ [InsightsNext]_insightsVars =>
        [(backend' # backend /\ backend' \in Request) => backend' = wanted]_insightsVars
  BY StepConnectsWanted
<1> QED  BY <1>1, PanelInvariant, PTL DEF InsightsSpec, OnlyTheWantedConnects

LEMMA StepConfirmsOnScreen ==
  ASSUME IInv, [InsightsNext]_insightsVars, shot' \notin {shot, Nothing}, shot'.via = "dialog"
  PROVE  shown.view = "Insights" /\ shown.dialog = shot'.pid /\ ~shown.remote
<1> USE DEF modeVars, panelVars, backendVars, remoteVars
<1>1. CASE Confirm
  BY <1>1 DEF Confirm, Pressed, OnInsights, Signal, IInv, DrawnOrDue, DialogIsShown
<1>2. CASE KillRow  BY <1>2 DEF KillRow, Signal
<1>3. CASE Key /\ ~Confirm /\ ~KillRow
  BY <1>3
     DEF Key, CancelRemote, Up, Down, AskToKill, Decline, ZoomIn, ChangeView,
         Dismiss, SwitchBackend, Serve, OtherKey, Remote
<1>4. CASE Top \/ NoKey \/ Swap \/ Report \/ NoOutcome \/ UpdateBackend \/ ApplyScan \/ NoScan \/ Quit
  BY <1>4 DEF Top, NoKey, Swap, Report, NoOutcome, UpdateBackend, ApplyScan, NoScan, Quit
<1>5. CASE \E r \in Request : WorkerEnds(r)  BY <1>5 DEF WorkerEnds
<1>6. CASE UNCHANGED insightsVars  BY <1>6 DEF insightsVars
<1> QED  BY <1>1, <1>2, <1>3, <1>4, <1>5, <1>6 DEF InsightsNext, Loop

\* The dialog ends only a process that the last drawn frame named, over this
\* machine's own list (kill_confirm of ui/tui/mod.rs): a rotation, a peer's
\* list or a new view between drawing and key cannot redirect it.
THEOREM ConfirmedWasNamed == InsightsSpec => ConfirmedOnScreen
<1>1. IInv /\ [InsightsNext]_insightsVars =>
        [(shot' \notin {shot, Nothing} /\ shot'.via = "dialog") =>
           shown.view = "Insights" /\ shown.dialog = shot'.pid /\ ~shown.remote]_insightsVars
  BY StepConfirmsOnScreen
<1> QED  BY <1>1, PanelInvariant, PTL DEF InsightsSpec, ConfirmedOnScreen
=============================================================================
