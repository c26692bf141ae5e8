--------------------------- MODULE InsightsPanel ---------------------------
(***************************************************************************)
(* The process panel of the Insights view and its kill dialog, the change  *)
(* of backend by `b` and by /remote, and what /serve broadcasts            *)
(* (ui/tui/mod.rs, backend/factory.rs).                                    *)
(*                                                                         *)
(* One iteration of the render loop is Top (which may draw), one key or    *)
(* none, the outcome of the /remote worker, an update of the backend and a *)
(* finished process scan, each of them perhaps not there.  The screen      *)
(* keeps what the last drawn frame showed.                                 *)
(***************************************************************************)
EXTENDS Naturals, Sequences

CONSTANTS
  Pid,
  Request,      \* /remote commands, each naming a box of its own
  Fleets,       \* backends with FLEET_DEVICE_THRESHOLD devices or more
  Rotates,      \* the unattended rotation is on
  Reachable,    \* local backends that initialise; Mock always does
  MaxKeys,      \* keys and commands in a behaviour
  MaxRows,      \* rows of a process list
  Nothing

Local == {"Hybrid", "Sysfs", "Json", "Mock", "Host"}
Kind == Local \cup {"Luwen", "Remote"}
View == {"Insights", "Training", "Grid"}
List == {l \in UNION {[1..n -> Pid] : n \in 0..MaxRows} :
           \A i, j \in DOMAIN l : l[i] = l[j] => i = j}

ASSUME PanelAssumption ==
  /\ Fleets \subseteq Local \cup Request
  /\ Rotates \in BOOLEAN
  /\ Reachable \subseteq Local /\ "Mock" \in Reachable
  /\ MaxKeys \in Nat
  /\ MaxRows \in Nat
  /\ Nothing \notin Pid \cup Nat \cup Local \cup Request
  /\ Request \cap Local = {}

\* The cycle of the `b` key; Luwen and Remote are never entered by it.
NextBackend ==
  [k \in Kind |->
     CASE k = "Hybrid"             -> "Sysfs"
       [] k = "Sysfs"              -> "Json"
       [] k \in {"Json", "Luwen"}  -> "Mock"
       [] k = "Mock"               -> "Host"
       [] OTHER                    -> "Hybrid"]

\* switch_to_next_backend: the n-th backend after k, and the first of the
\* seven that are tried which initialises.
After[n \in 1..7] ==
  [k \in Kind |-> IF n = 1 THEN NextBackend[k] ELSE NextBackend[After[n - 1][k]]]

SwitchToNext(k) ==
  LET works == {n \in 1..7 : After[n][k] \in Reachable}
      first == CHOOSE n \in works : \A m \in works : n <= m
  IN  After[first][k]

VARIABLES
  pc,           \* "top", "input", "outcome", "update", "scan", "quit"
  display_mode, prev_mode,
  proc_rows, process_cursor,
  kill_confirm, \* the pid the dialog names, or Nothing
  has_remote_proc_rows,
  fleet_zoom,   \* fleet_zoom_start is some
  cmd_message,  \* a message is shown in the command bar
  force_redraw,
  backend, backend_type,
  remote_rows,  \* the length of the peer's process list, or Nothing
  pending_remote, worker,
  publisher,
  shown,        \* the last frame drawn
  keys,
  shot,         \* history: the signal sent in this iteration, or Nothing
  wanted,       \* history: the request that may still change the backend
  frame         \* history: the frame broadcast in this iteration, or Nothing

panelVars == <<proc_rows, process_cursor, kill_confirm>>
modeVars == <<display_mode, prev_mode, fleet_zoom>>
backendVars == <<backend, backend_type, remote_rows>>
remoteVars == <<pending_remote, worker, wanted>>
insightsVars ==
  <<pc, panelVars, modeVars, has_remote_proc_rows, cmd_message, force_redraw,
    backendVars, remoteVars, publisher, shown, keys, shot, frame>>

BlankScreen == [view |-> Nothing, highlight |-> Nothing, dialog |-> Nothing, remote |-> FALSE]

InsightsInit ==
  /\ pc = "top"
  /\ display_mode = "Insights"
  /\ prev_mode = "Insights"
  /\ proc_rows \in List
  /\ process_cursor = 0
  /\ kill_confirm = Nothing
  /\ has_remote_proc_rows = FALSE
  /\ fleet_zoom = FALSE
  /\ cmd_message = FALSE
  /\ force_redraw = TRUE
  /\ backend \in Reachable
  /\ backend_type = backend
  /\ remote_rows = Nothing
  /\ pending_remote = Nothing
  /\ worker = [r \in Request |-> "none"]
  /\ publisher = FALSE
  /\ shown = BlankScreen
  /\ keys = 0
  /\ shot = Nothing
  /\ wanted = Nothing
  /\ frame = Nothing

-----------------------------------------------------------------------------
(* The top of an iteration. *)

\* The panel draws the peer's list when there is one, and clamps the cursor
\* to the list it draws.
DrawnFrame(v, dialog, remote) ==
  [view      |-> v,
   remote    |-> remote,
   dialog    |-> dialog,
   highlight |->
     IF remote \/ proc_rows = <<>> THEN Nothing
     ELSE IF process_cursor < Len(proc_rows) THEN proc_rows[process_cursor + 1]
     ELSE proc_rows[Len(proc_rows)]]

\* Mistake: the dialog stays open when the peer's list takes the panel over.
TopKeepsDialog ==
  /\ pc = "top"
  /\ pc' = "input"
  /\ shot' = Nothing /\ frame' = Nothing
  /\ has_remote_proc_rows' = (backend_type = "Remote" /\ remote_rows # Nothing)
  /\ UNCHANGED <<kill_confirm, display_mode>>
  /\ \E tick \in BOOLEAN :
       /\ force_redraw' = (tick /\ force_redraw)
       /\ shown' = IF tick \/ force_redraw
                   THEN DrawnFrame(display_mode, kill_confirm, has_remote_proc_rows')
                   ELSE shown
  /\ UNCHANGED <<prev_mode, fleet_zoom, proc_rows, process_cursor, cmd_message,
                 backendVars, remoteVars, publisher, keys>>

\* A frame is drawn on a tick and after a key.
Top ==
  /\ pc = "top"
  /\ pc' = "input"
  /\ shot' = Nothing /\ frame' = Nothing
  /\ has_remote_proc_rows' = (backend_type = "Remote" /\ remote_rows # Nothing)
  /\ kill_confirm' = IF has_remote_proc_rows' THEN Nothing ELSE kill_confirm
  /\ \E tick \in BOOLEAN :
       /\ \/ UNCHANGED display_mode
          \/ tick /\ Rotates /\ display_mode' \in View
       /\ force_redraw' =
            ((tick /\ force_redraw) \/ display_mode' # display_mode)
       /\ shown' = IF tick \/ force_redraw
                   THEN DrawnFrame(display_mode', kill_confirm', has_remote_proc_rows')
                   ELSE shown
  /\ UNCHANGED <<prev_mode, fleet_zoom, proc_rows, process_cursor, cmd_message,
                 backendVars, remoteVars, publisher, keys>>

\* A peer may stream its processes in one frame and not in the next.
Updated ==
  \/ UNCHANGED remote_rows
  \/ backend_type = "Remote" /\ remote_rows' \in {Nothing} \cup 0..MaxRows

-----------------------------------------------------------------------------
(* One key, or none in 16 ms. *)

NoKey ==
  /\ pc = "input"
  /\ pc' = "outcome"
  /\ UNCHANGED <<panelVars, modeVars, has_remote_proc_rows, cmd_message, force_redraw,
                 backendVars, remoteVars, publisher, shown, keys, shot, frame>>

\* Every event of the terminal asks for a frame; only the Esc that cancels
\* a /remote goes straight back to the top.
Pressed ==
  /\ pc = "input"
  /\ pc' \in {"outcome", "top"}
  /\ keys < MaxKeys
  /\ keys' = keys + 1
  /\ force_redraw' = TRUE
  /\ UNCHANGED <<has_remote_proc_rows, shown, frame>>

Fleet == backend \in Fleets
Overview == Fleet /\ ~fleet_zoom
OnInsights == display_mode = "Insights"

Up ==
  /\ Pressed
  /\ OnInsights
  /\ ~Overview /\ kill_confirm = Nothing /\ process_cursor > 0
  /\ process_cursor' = process_cursor - 1
  /\ UNCHANGED <<proc_rows, kill_confirm, modeVars, cmd_message, backendVars,
                 remoteVars, publisher, shot>>

\* Clamped to the list on the screen, the peer's or this machine's.
Down ==
  /\ Pressed
  /\ OnInsights
  /\ ~Overview /\ kill_confirm = Nothing
  /\ LET n == IF has_remote_proc_rows THEN remote_rows ELSE Len(proc_rows)
     IN  process_cursor' = IF process_cursor + 1 < n THEN process_cursor + 1
                           ELSE IF n = 0 THEN 0 ELSE n - 1
  /\ UNCHANGED <<proc_rows, kill_confirm, modeVars, cmd_message, backendVars,
                 remoteVars, publisher, shot>>

Selected == proc_rows[process_cursor + 1]
HasSelected == process_cursor < Len(proc_rows)

\* k
AskToKill ==
  /\ Pressed
  /\ OnInsights
  /\ kill_confirm = Nothing /\ ~has_remote_proc_rows /\ HasSelected
  /\ kill_confirm' = Selected
  /\ UNCHANGED <<proc_rows, process_cursor, modeVars, cmd_message, backendVars,
                 remoteVars, publisher, shot>>

Signal(p, via) == shot' = [pid |-> p, via |-> via]

\* y, K, and Enter unless it zooms into a fleet
Confirm ==
  /\ Pressed
  /\ OnInsights
  /\ kill_confirm # Nothing
  /\ Signal(kill_confirm, "dialog")
  /\ kill_confirm' = Nothing
  /\ UNCHANGED <<proc_rows, process_cursor, modeVars, cmd_message, backendVars,
                 remoteVars, publisher>>

\* n
Decline ==
  /\ Pressed
  /\ OnInsights
  /\ kill_confirm' = Nothing
  /\ UNCHANGED <<proc_rows, process_cursor, modeVars, cmd_message, backendVars,
                 remoteVars, publisher, shot>>

\* K with no dialog
KillRow ==
  /\ Pressed
  /\ OnInsights
  /\ kill_confirm = Nothing /\ ~has_remote_proc_rows /\ HasSelected
  /\ Signal(Selected, "row")
  /\ UNCHANGED <<panelVars, modeVars, cmd_message, backendVars, remoteVars, publisher>>

\* Enter over a fleet's overview
ZoomIn ==
  /\ Pressed
  /\ OnInsights
  /\ Overview
  /\ fleet_zoom' = TRUE
  /\ UNCHANGED <<panelVars, display_mode, prev_mode, cmd_message, backendVars,
                 remoteVars, publisher, shot>>

\* t, g, v
ChangeView ==
  /\ Pressed
  /\ \/ /\ display_mode = "Training"
        /\ display_mode' = prev_mode
        /\ UNCHANGED prev_mode
     \/ /\ display_mode # "Training"
        /\ display_mode' = "Training"
        /\ prev_mode' = display_mode
     \/ display_mode' \in {"Insights", "Grid"} /\ UNCHANGED prev_mode
  /\ UNCHANGED <<fleet_zoom, panelVars, cmd_message, backendVars, remoteVars,
                 publisher, shot>>

\* Mistake: Esc forgets the wait but keeps listening to the worker.
EscKeepsListening ==
  /\ Pressed
  /\ pending_remote # Nothing
  /\ wanted' = Nothing
  /\ cmd_message' = TRUE
  /\ pc' = "top"
  /\ UNCHANGED <<pending_remote, worker, panelVars, modeVars, backendVars, publisher, shot>>

\* Esc gives up the first of these that is there.
CancelRemote ==
  /\ Pressed
  /\ pending_remote # Nothing
  /\ pending_remote' = Nothing
  /\ wanted' = Nothing
  /\ cmd_message' = TRUE
  /\ pc' = "top"
  /\ UNCHANGED <<worker, panelVars, modeVars, backendVars, publisher, shot>>

Dismiss ==
  /\ Pressed
  /\ pending_remote = Nothing
  /\ \/ /\ cmd_message
        /\ cmd_message' = FALSE
        /\ UNCHANGED <<modeVars, kill_confirm>>
     \/ /\ ~cmd_message
        /\ fleet_zoom
        /\ fleet_zoom' = FALSE
        /\ UNCHANGED <<display_mode, prev_mode, cmd_message, kill_confirm>>
     \/ /\ ~cmd_message
        /\ ~fleet_zoom
        /\ display_mode = "Training"
        /\ display_mode' = prev_mode
        /\ UNCHANGED <<prev_mode, fleet_zoom, cmd_message, kill_confirm>>
     \/ /\ ~cmd_message
        /\ ~fleet_zoom
        /\ display_mode # "Training"
        /\ kill_confirm # Nothing
        /\ kill_confirm' = Nothing
        /\ UNCHANGED <<modeVars, cmd_message>>
  /\ UNCHANGED <<proc_rows, process_cursor, worker, wanted, pending_remote,
                 backendVars, publisher, shot>>

\* Esc with nothing left to give up, q, /quit
Quit ==
  /\ pc = "input"
  /\ pc' = "quit"
  /\ UNCHANGED <<panelVars, modeVars, has_remote_proc_rows, cmd_message, force_redraw,
                 backendVars, remoteVars, publisher, shown, keys, shot, frame>>

\* b
SwitchBackend ==
  /\ Pressed
  /\ backend_type' = SwitchToNext(backend_type)
  /\ backend' = backend_type'
  /\ remote_rows' = Nothing
  /\ fleet_zoom' = FALSE
  /\ UNCHANGED <<panelVars, display_mode, prev_mode, cmd_message, remoteVars,
                 publisher, shot>>

\* /remote: a worker of its own with a channel of its own; an earlier one is
\* no longer listened to.
Remote(r) ==
  /\ Pressed
  /\ worker[r] = "none"
  /\ worker' = [worker EXCEPT ![r] = "working"]
  /\ pending_remote' = r
  /\ wanted' = r
  /\ cmd_message' = TRUE
  /\ UNCHANGED <<panelVars, modeVars, backendVars, publisher, shot>>

\* Backends that have a document to broadcast.
Serves == backend_type \in {"Hybrid", "Json", "Remote"}

\* /serve and /serve stop
Serve ==
  /\ Pressed
  /\ publisher' = (~publisher /\ Serves)
  /\ cmd_message' = TRUE
  /\ UNCHANGED <<panelVars, modeVars, backendVars, remoteVars, shot>>

\* r updates the backend at once, the other keys open the command bar, move
\* within a fleet or take an overlay away.
OtherKey ==
  /\ Pressed
  /\ \/ Updated /\ UNCHANGED cmd_message
     \/ cmd_message' \in {cmd_message, FALSE} /\ UNCHANGED remote_rows
  /\ UNCHANGED <<panelVars, modeVars, backend, backend_type, remoteVars, publisher, shot>>

Key ==
  \/ CancelRemote
  \/ /\ pc' = "outcome"
     /\ \/ Up \/ Down \/ AskToKill \/ Confirm \/ Decline \/ KillRow \/ ZoomIn
        \/ ChangeView \/ Dismiss \/ SwitchBackend \/ Serve \/ OtherKey
        \/ \E r \in Request : Remote(r)

-----------------------------------------------------------------------------
(* The rest of an iteration. *)

\* A connection that succeeded replaces the backend, whatever it is by now.
Swap ==
  /\ pc = "outcome"
  /\ pc' = "update"
  /\ pending_remote # Nothing
  /\ worker[pending_remote] = "connected"
  /\ backend' = pending_remote
  /\ backend_type' = "Remote"
  /\ remote_rows' \in {Nothing} \cup 0..MaxRows
  /\ fleet_zoom' = FALSE
  /\ pending_remote' = Nothing
  /\ wanted' = Nothing
  /\ cmd_message' = TRUE
  /\ force_redraw' = TRUE
  /\ UNCHANGED <<panelVars, display_mode, prev_mode, has_remote_proc_rows, worker,
                 publisher, shown, keys, shot, frame>>

\* A list of boxes, an error, or a worker that vanished.
Report ==
  /\ pc = "outcome"
  /\ pc' = "update"
  /\ pending_remote # Nothing
  /\ worker[pending_remote] = "reported"
  /\ pending_remote' = Nothing
  /\ wanted' = Nothing
  /\ cmd_message' = TRUE
  /\ force_redraw' = TRUE
  /\ UNCHANGED <<panelVars, modeVars, has_remote_proc_rows, worker, backendVars,
                 publisher, shown, keys, shot, frame>>

NoOutcome ==
  /\ pc = "outcome"
  /\ pc' = "update"
  /\ pending_remote # Nothing => worker[pending_remote] = "working"
  /\ UNCHANGED <<panelVars, modeVars, has_remote_proc_rows, cmd_message, force_redraw,
                 backendVars, remoteVars, publisher, shown, keys, shot, frame>>

UpdateBackend ==
  /\ pc = "update"
  /\ pc' = "scan"
  /\ Updated
  /\ UNCHANGED <<panelVars, modeVars, has_remote_proc_rows, cmd_message, force_redraw,
                 backend, backend_type, remoteVars, publisher, shown, keys, shot, frame>>

\* Where the telemetry of the backend is from.
Origin == IF backend \in Local THEN "here" ELSE backend

\* Mistake: a relay adds this machine's processes to the peer's frame.
BroadcastOwnScan ==
  IF publisher /\ Serves THEN [telemetry |-> Origin, processes |-> "here"] ELSE Nothing

\* A relayed frame goes out as it came in.
Broadcast ==
  IF publisher /\ Serves
  THEN [telemetry |-> Origin,
        processes |-> IF backend_type = "Remote" THEN Origin ELSE "here"]
  ELSE Nothing

ApplyScan ==
  /\ pc = "scan"
  /\ pc' = "top"
  /\ proc_rows' \in List
  /\ frame' = Broadcast
  /\ UNCHANGED <<process_cursor, kill_confirm, modeVars, has_remote_proc_rows,
                 cmd_message, force_redraw, backendVars, remoteVars, publisher,
                 shown, keys, shot>>

NoScan ==
  /\ pc = "scan"
  /\ pc' = "top"
  /\ UNCHANGED <<panelVars, modeVars, has_remote_proc_rows, cmd_message, force_redraw,
                 backendVars, remoteVars, publisher, shown, keys, shot, frame>>

\* The worker sends its outcome, received only by who still listens.
WorkerEnds(r) ==
  /\ worker[r] = "working"
  /\ \E o \in {"connected", "reported"} : worker' = [worker EXCEPT ![r] = o]
  /\ UNCHANGED <<pc, panelVars, modeVars, has_remote_proc_rows, cmd_message,
                 force_redraw, backendVars, pending_remote, wanted, publisher,
                 shown, keys, shot, frame>>

Loop == Top \/ NoKey \/ Key \/ Swap \/ Report \/ NoOutcome \/ UpdateBackend \/ ApplyScan \/ NoScan

InsightsNext == Loop \/ Quit \/ \E r \in Request : WorkerEnds(r)

InsightsSpec == InsightsInit /\ [][InsightsNext]_insightsVars

-----------------------------------------------------------------------------
InsightsTypeOK ==
  /\ pc \in {"top", "input", "outcome", "update", "scan", "quit"}
  /\ display_mode \in View /\ prev_mode \in View
  /\ proc_rows \in List
  /\ process_cursor \in Nat
  /\ kill_confirm \in Pid \cup {Nothing}
  /\ {has_remote_proc_rows, fleet_zoom, cmd_message, force_redraw, publisher} \subseteq BOOLEAN
  /\ backend \in Local \cup Request /\ backend_type \in Kind
  /\ remote_rows \in Nat \cup {Nothing}
  /\ pending_remote \in Request \cup {Nothing} /\ wanted \in Request \cup {Nothing}
  /\ worker \in [Request -> {"none", "working", "connected", "reported"}]

\* The dialog only ever ends a process it has named on the screen, over this
\* machine's own list: not one chosen while another view or the peer's list
\* was drawn, and not one the user has not seen named yet.
ConfirmedOnScreen ==
  [][(shot' \notin {shot, Nothing} /\ shot'.via = "dialog") =>
       /\ shown.view = "Insights"
       /\ shown.dialog = shot'.pid
       /\ ~shown.remote]_insightsVars

\* Only the last /remote command that has not been cancelled can change the
\* backend, however late an earlier worker is done.
OnlyTheWantedConnects ==
  [][(backend' # backend /\ backend' \in Request) => backend' = wanted]_insightsVars

\* A broadcast frame describes one machine: its process list comes from where
\* its telemetry comes from, through every change of backend.
OneMachinePerFrame == frame # Nothing => frame.processes = frame.telemetry

\* "Use proc_rows (the rendered list) so the kill target always matches the
\* highlighted row" (ui/tui/mod.rs:2292): K ends the process that is
\* highlighted on the screen.
HighlightIsTarget ==
  [][(shot' \notin {shot, Nothing} /\ shot'.via = "row") =>
       /\ shown.view = "Insights"
       /\ ~shown.remote
       /\ shown.highlight = shot'.pid]_insightsVars
=============================================================================
