----------------------------- MODULE ResetWatch -----------------------------
(***************************************************************************)
(* How the TUI notices `tt-smi -r` runs and reacts to them: the scan       *)
(* worker (ui/tui/proc_scan.rs), the tracking of live resets               *)
(* (ui/tui/reset_status.rs, workload/reset_detect.rs) and the life of the  *)
(* takeover animation, over processes that start, end and hand their pids  *)
(* on while a scan is reading them.                                        *)
(*                                                                         *)
(* One iteration of the loop is Draw (or NoDraw), Input, TakeReply or      *)
(* NoReply, AskForScan or NotYet.                                          *)
(***************************************************************************)
EXTENDS Naturals, FiniteSets, Sequences

CONSTANTS
  Pid,          \* process ids
  ResetCmd,     \* command lines parse_reset_process accepts
  OtherCmd,     \* command lines it does not
  MaxLaunches,  \* processes started in a behaviour
  MaxPanics,    \* scans that panic
  Behaviors,    \* the values --tt-smi-reset-behavior may have
  SlotCount,    \* animations of a demo
  None

Launch == 1..MaxLaunches

Process == [pid : Pid, cmd : ResetCmd \cup OtherCmd, id : Launch]

ASSUME ResetAssumption ==
  /\ IsFiniteSet(Pid)
  /\ ResetCmd \cap OtherCmd = {}
  /\ MaxLaunches \in Nat
  /\ MaxPanics \in Nat
  /\ Behaviors \subseteq {"ignore", "inform", "dazzle", "demo"}
  /\ SlotCount \in Nat \ {0}
  /\ None \notin Process

VARIABLES
  \* the system and the command line
  behavior,     \* --tt-smi-reset-behavior
  running,      \* processes
  launches,     \* started so far
  \* the worker
  worker,       \* "absent" (it could not be spawned), "idle", "scanning", "ended"
  queued,       \* requests in its channel
  unread,       \* pids the scan has still to read
  snap,         \* what it has read
  replies,      \* Seq of results: a set of processes, or None for a panic
  panics,
  \* the loop
  pc,           \* "draw", "input", "result", "request", "quitting", "exited"
  sweeper,      \* display_mode is HivemindSweeper
  outstanding,
  live,         \* ResetStatus.live
  done,         \* the "done" text is showing
  detector,     \* the reset the takeover waits on
  takeover,
  \* history
  reported,     \* launches observe() has returned
  reactions     \* feed events and takeovers per launch

osVars == <<behavior, running, launches>>
workerVars == <<worker, queued, unread, snap, replies, panics>>
statusVars == <<live, done, reported, reactions>>
takeoverVars == <<detector, takeover>>
loopVars == <<pc, sweeper, outstanding, statusVars, takeoverVars>>
vars == <<osVars, workerVars, loopVars>>

Takeover == [kind : {"none", "single", "demo", "boot"}, over : BOOLEAN,
             finished : BOOLEAN, slot : 0..SlotCount - 1]

StartTakeover(kind) ==
  [kind |-> kind, over |-> FALSE, finished |-> FALSE, slot |-> 0]

NoTakeover == StartTakeover("none")

Detects == behavior # "ignore"
Animates == behavior \in {"dazzle", "demo"}

\* On a terminal too small for it the boot demo does not start.
Init ==
  /\ behavior \in Behaviors
  /\ running = {}
  /\ launches = 0
  /\ worker \in {"absent", "idle"}
  /\ queued = 0
  /\ unread = {}
  /\ snap = {}
  /\ replies = <<>>
  /\ panics = 0
  /\ pc = "draw"
  /\ sweeper \in BOOLEAN
  /\ outstanding = FALSE
  /\ live = {}
  /\ done = FALSE
  /\ detector = None
  /\ \/ takeover = NoTakeover
     \/ behavior = "demo" /\ ~sweeper /\ takeover = StartTakeover("boot")
  /\ reported = {}
  /\ reactions = [n \in Launch |-> 0]

-----------------------------------------------------------------------------
(***************************************************************************)
(* Processes.  A pid is free again as soon as its process has ended.       *)
(***************************************************************************)
Start(p, c) ==
  /\ launches < MaxLaunches
  /\ \A r \in running : r.pid # p
  /\ launches' = launches + 1
  /\ running' = running \cup {[pid |-> p, cmd |-> c, id |-> launches + 1]}
  /\ UNCHANGED <<behavior, workerVars, loopVars>>

End(r) ==
  /\ running' = running \ {r}
  /\ UNCHANGED <<behavior, launches, workerVars, loopVars>>

OperatingSystem ==
  \/ \E p \in Pid, c \in ResetCmd \cup OtherCmd : Start(p, c)
  \/ \E r \in running : End(r)

-----------------------------------------------------------------------------
(***************************************************************************)
(* The scan worker.  A scan reads one process after the other.             *)
(***************************************************************************)
BeginScan ==
  /\ worker = "idle"
  /\ queued > 0
  /\ worker' = "scanning"
  /\ queued' = queued - 1
  /\ unread' = IF Detects THEN Pid ELSE {}
  /\ snap' = {}
  /\ UNCHANGED <<osVars, replies, panics, loopVars>>

ReadPid(p) ==
  /\ worker = "scanning"
  /\ p \in unread
  /\ unread' = unread \ {p}
  /\ snap' = snap \cup {r \in running : r.pid = p}
  /\ UNCHANGED <<osVars, worker, queued, replies, panics, loopVars>>

Reply(result) ==
  /\ worker = "scanning"
  /\ worker' = "idle"
  /\ replies' = Append(replies, result)
  /\ unread' = {}
  /\ snap' = {}
  /\ UNCHANGED <<osVars, queued, loopVars>>

FinishScan == unread = {} /\ Reply(snap) /\ UNCHANGED panics

\* catch_unwind turns a panic into a reply.
ScanPanics == panics < MaxPanics /\ panics' = panics + 1 /\ Reply(None)

\* The handle dropped its sender.
WorkerEnds ==
  /\ pc = "quitting"
  /\ worker = "idle"
  /\ queued = 0
  /\ worker' = "ended"
  /\ UNCHANGED <<osVars, queued, unread, snap, replies, panics, loopVars>>

WorkerStep ==
  \/ BeginScan \/ FinishScan \/ ScanPanics \/ WorkerEnds
  \/ \E p \in Pid : ReadPid(p)

-----------------------------------------------------------------------------
(***************************************************************************)
(* Draw: the rotation may change the view, and tick_takeover ends a        *)
(* takeover that is over and frees the detector.                           *)
(***************************************************************************)
Rotate == sweeper' \in BOOLEAN

\* The takeover after tick(dt); "long" when dt completes a tail or a slot.
Ticked(t, long) ==
  IF t.kind \in {"boot", "demo"} /\ long /\ ~t.over
  THEN IF t.slot + 1 < SlotCount THEN [t EXCEPT !.slot = @ + 1]
                                 ELSE [t EXCEPT !.over = TRUE]
  ELSE t

IsOver(t, long) == t.over \/ (t.kind = "single" /\ t.finished /\ long)

\* Mistake: the animation goes and the detector stays.
TickTakeoverKeepsDetector(long) ==
  /\ takeover' = IF IsOver(Ticked(takeover, long), long) THEN NoTakeover
                 ELSE Ticked(takeover, long)
  /\ UNCHANGED detector

TickTakeover(long) ==
  IF IsOver(Ticked(takeover, long), long)
  THEN takeover' = NoTakeover /\ detector' = None
  ELSE takeover' = Ticked(takeover, long) /\ UNCHANGED detector

Draw(long) ==
  /\ pc = "draw"
  /\ pc' = "input"
  /\ Rotate
  /\ TickTakeover(long)
  /\ UNCHANGED <<osVars, workerVars, outstanding, statusVars>>

NoDraw ==
  /\ pc = "draw"
  /\ pc' = "input"
  /\ Rotate
  /\ UNCHANGED <<osVars, workerVars, outstanding, statusVars, takeoverVars>>

\* The ten seconds of the "done" text are over.
DoneExpires ==
  /\ done
  /\ done' = FALSE
  /\ UNCHANGED <<osVars, workerVars, pc, sweeper, outstanding, live, reported,
                 reactions, takeoverVars>>

-----------------------------------------------------------------------------
(***************************************************************************)
(* Input.  A takeover on the screen takes every key.                       *)
(***************************************************************************)
ToResult == pc = "input" /\ pc' = "result"

NoKey ==
  /\ ToResult
  /\ UNCHANGED <<osVars, workerVars, sweeper, outstanding, statusVars, takeoverVars>>

\* A demo goes to its next animation, a single takeover ends.
Skip ==
  /\ ToResult
  /\ takeover.kind # "none"
  /\ takeover' = IF takeover.kind = "single" THEN [takeover EXCEPT !.over = TRUE]
                 ELSE Ticked(takeover, TRUE)
  /\ UNCHANGED <<osVars, workerVars, sweeper, outstanding, statusVars, detector>>

\* Esc, q or Q during a demo.
EndDemo ==
  /\ ToResult
  /\ takeover.kind \in {"boot", "demo"}
  /\ takeover' = [takeover EXCEPT !.over = TRUE]
  /\ UNCHANGED <<osVars, workerVars, sweeper, outstanding, statusVars, detector>>

ChangeView ==
  /\ ToResult
  /\ takeover.kind = "none"
  /\ sweeper' = ~sweeper
  /\ UNCHANGED <<osVars, workerVars, outstanding, statusVars, takeoverVars>>

\* The handle's sender goes with the loop.
Quit ==
  /\ pc = "input"
  /\ takeover.kind = "none"
  /\ pc' = "quitting"
  /\ UNCHANGED <<osVars, workerVars, sweeper, outstanding, statusVars, takeoverVars>>

\* The worker has ended, could not be spawned, or is not waited for any more.
Exit ==
  /\ pc = "quitting"
  /\ pc' = "exited"
  /\ UNCHANGED <<osVars, workerVars, sweeper, outstanding, statusVars, takeoverVars>>

-----------------------------------------------------------------------------
(***************************************************************************)
(* The result of a scan.                                                   *)
(***************************************************************************)
\* Mistake: a pid is enough to know a process again.
MatchesByPid(q, r) == q.pid = r.pid

Matches(q, r) == q.pid = r.pid /\ q.cmd = r.cmd

IsIn(r, list) == \E q \in list : Matches(q, r)

\* Mistake: the set is rebuilt from every scan.
KeptNone(list) == {r \in live : FALSE /\ IsIn(r, list)}

Kept(list) == {r \in live : IsIn(r, list)}

New(list) == {q \in list : q.cmd \in ResetCmd /\ ~IsIn(q, Kept(list))}

Observe(list) ==
  /\ live' = Kept(list) \cup New(list)
  /\ done' = CASE live' # {} -> FALSE
               [] live # {} /\ live' = {} -> TRUE
               [] OTHER -> done
  /\ reported' = reported \cup {r.id : r \in New(list)}

React(launchesReacted) ==
  reactions' = [n \in Launch |->
                  reactions[n] + (IF n \in launchesReacted THEN 1 ELSE 0)]

\* takeover_reset_finished; a demo ignores it.
NoteFinished(t, watched, list) ==
  IF watched # None /\ ~IsIn(watched, list) /\ t.kind = "single"
  THEN [t EXCEPT !.finished = TRUE] ELSE t

\* Mistake: any scan without a new reset ends the takeover.
ScanResetsEndsEarly(list) ==
  /\ Observe(list)
  /\ IF ~sweeper /\ Animates /\ detector = None /\ New(list) # {}
     THEN \E ev \in New(list) :
            /\ detector' = ev
            /\ takeover' = StartTakeover(IF behavior = "demo" THEN "demo" ELSE "single")
            /\ React({ev.id})
     ELSE /\ takeover' = IF New(list) = {} /\ takeover.kind = "single"
                         THEN [takeover EXCEPT !.finished = TRUE] ELSE takeover
          /\ React(IF sweeper THEN {r.id : r \in New(list)} ELSE {})
          /\ UNCHANGED detector

\* One feed event per new reset in the sweeper; elsewhere a takeover for one
\* of them if the detector is free.  The list has no order of its own.
ScanResets(list) ==
  /\ Observe(list)
  /\ IF ~sweeper /\ Animates /\ detector = None /\ New(list) # {}
     THEN \E ev \in New(list) :
            /\ detector' = ev
            /\ takeover' = StartTakeover(IF behavior = "demo" THEN "demo" ELSE "single")
            /\ React({ev.id})
     ELSE /\ takeover' = NoteFinished(takeover, detector, list)
          /\ React(IF sweeper THEN {r.id : r \in New(list)} ELSE {})
          /\ UNCHANGED detector

\* Mistake: only a result clears the flag.
TakeReplyIfResult ==
  /\ pc = "result"
  /\ replies # <<>>
  /\ pc' = "request"
  /\ replies' = Tail(replies)
  /\ IF Head(replies) = None \/ ~Detects
     THEN UNCHANGED <<outstanding, statusVars, takeoverVars>>
     ELSE outstanding' = FALSE /\ ScanResets(Head(replies))
  /\ UNCHANGED <<osVars, worker, queued, unread, snap, panics, sweeper>>

\* A scan that panicked clears the flag and leaves everything as it was.
TakeReply ==
  /\ pc = "result"
  /\ replies # <<>>
  /\ pc' = "request"
  /\ replies' = Tail(replies)
  /\ outstanding' = FALSE
  /\ IF Head(replies) = None \/ ~Detects
     THEN UNCHANGED <<statusVars, takeoverVars>>
     ELSE ScanResets(Head(replies))
  /\ UNCHANGED <<osVars, worker, queued, unread, snap, panics, sweeper>>

\* Without a worker the channel is disconnected.
NoReply ==
  /\ pc = "result"
  /\ replies = <<>>
  /\ pc' = "request"
  /\ outstanding' = IF worker = "absent" THEN FALSE ELSE outstanding
  /\ UNCHANGED <<osVars, workerVars, sweeper, statusVars, takeoverVars>>

ToDraw == pc = "request" /\ pc' = "draw"

\* The two seconds are over; the request is refused while one is out.
AskForScan ==
  /\ ToDraw
  /\ IF outstanding \/ worker = "absent"
     THEN UNCHANGED <<queued, outstanding>>
     ELSE queued' = queued + 1 /\ outstanding' = TRUE
  /\ UNCHANGED <<osVars, worker, unread, snap, replies, panics, sweeper,
                 statusVars, takeoverVars>>

NotYet ==
  /\ ToDraw
  /\ UNCHANGED <<osVars, workerVars, sweeper, outstanding, statusVars, takeoverVars>>

LoopStep ==
  \/ (\E long \in BOOLEAN : Draw(long)) \/ NoDraw
  \/ NoKey \/ Skip \/ EndDemo \/ ChangeView \/ Quit \/ Exit
  \/ TakeReply \/ NoReply
  \/ AskForScan \/ NotYet

Next == OperatingSystem \/ WorkerStep \/ LoopStep \/ DoneExpires

Safety == Init /\ [][Next]_vars

\* The loop does not block, scans return, and the frame and scan cadences
\* fall due again and again.
Fairness ==
  /\ WF_vars(LoopStep)
  /\ SF_vars(Draw(TRUE))
  /\ SF_vars(AskForScan)
  /\ WF_vars(BeginScan)
  /\ \A p \in Pid : WF_vars(ReadPid(p))
  /\ WF_vars(FinishScan)

Spec == Safety /\ Fairness

-----------------------------------------------------------------------------
TypeOK ==
  /\ behavior \in Behaviors
  /\ running \subseteq Process
  /\ launches \in 0..MaxLaunches
  /\ worker \in {"absent", "idle", "scanning", "ended"}
  /\ queued \in Nat
  /\ unread \subseteq Pid
  /\ snap \subseteq Process
  /\ replies \in Seq((SUBSET Process) \cup {None})
  /\ panics \in 0..MaxPanics
  /\ pc \in {"draw", "input", "result", "request", "quitting", "exited"}
  /\ sweeper \in BOOLEAN
  /\ outstanding \in BOOLEAN
  /\ live \subseteq Process
  /\ done \in BOOLEAN
  /\ detector \in Process \cup {None}
  /\ takeover \in Takeover
  /\ reported \subseteq Launch
  /\ reactions \in [Launch -> Nat]

\* The flag tells exactly whether a request is in the channel, being worked
\* on, or answered: scans never pile up, and one that panicked does not end
\* scanning for good.
OneScanAtATime ==
  queued + (IF worker = "scanning" THEN 1 ELSE 0) + Len(replies)
    = (IF outstanding THEN 1 ELSE 0)

\* The detector is occupied exactly while a takeover for a real reset is on
\* the screen, through skips, demos that replace the boot demo, and resets
\* that end first; otherwise there would be one takeover per session, or two
\* at a time.
DetectorGuardsTakeover ==
  (detector # None) <=> takeover.kind \in {"single", "demo"}

\* A takeover that winds down and the "done" text tell the truth: the reset
\* has really ended, although a scan is a mixture of moments, is applied
\* later, may panic, and another process may have the pid by then.
EndsAreReal ==
  /\ takeover.finished => detector \notin running
  /\ done => \A r \in running : r.id \notin reported

\* One reset gives one reaction: a feed event or a takeover, never both or two
\* of one kind, however often the view changes, a takeover is skipped or a
\* scan fails while it runs.
ReactedOnce == \A n \in Launch : reactions[n] <= 1

Looping == pc \notin {"quitting", "exited"} /\ worker # "absent"

\* A reset that runs long enough is noticed.
ResetIsNoticed ==
  \A n \in Launch :
    (Detects /\ Looping /\ \E r \in running : r.id = n /\ r.cmd \in ResetCmd) ~>
      (~Looping \/ \A r \in running : r.id = n => IsIn(r, live))

Watched == (live \cup {detector}) \ {None}

\* The end of a reset is noticed: it leaves the status segment and its
\* takeover goes, unless a process with its pid and command line has taken its
\* place.
EndIsNoticed ==
  \A n \in Launch :
    (\E r \in Watched : r.id = n /\ r \notin running) ~>
      \/ ~Looping
      \/ \A r \in Watched :
           r.id = n => \E q \in running : q.pid = r.pid /\ q.cmd = r.cmd

=============================================================================
