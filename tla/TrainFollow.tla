---------------------------- MODULE TrainFollow ----------------------------
(***************************************************************************)
(* How a training run is found and followed: TrainerFinder on the scan     *)
(* worker and TrainWatch on the loop thread for Arcade                     *)
(* (workload/train/watch.rs), TrainMonitor with its own search for the     *)
(* Training view, and the Tailer that reads the run's log                  *)
(* (workload/train/monitor.rs), over processes that start, import ttml     *)
(* late, end and hand their pids on, and logs that are truncated.          *)
(*                                                                         *)
(* A process is the number of its launch, which is also its start time.    *)
(* The reads of /proc and of the log that one step makes happen together;  *)
(* processes come and go between the steps.                                *)
(***************************************************************************)
EXTENDS Naturals, FiniteSets, Sequences

CONSTANTS
  Pid,
  MaxLaunches,  \* processes started in a behaviour
  MaxLines,     \* log lines written in a behaviour
  Kinds,        \* what may be started: "compiled", "python", "other"
  Redirected,   \* what stdout may be: TRUE a regular file, FALSE a pipe or tty
  Owners,       \* who follows: "arcade", "training"
  RetryScans,   \* NEGATIVE_RETRY_SCANS
  None

Launch == 1..MaxLaunches
Unknown == 0    \* a start time that could not be read; no process

ASSUME TrainAssumption ==
  /\ MaxLaunches \in Nat
  /\ MaxLines \in Nat
  /\ Kinds \subseteq {"compiled", "python", "other"}
  /\ Redirected \subseteq BOOLEAN
  /\ Owners \subseteq {"arcade", "training"}
  /\ RetryScans \in Nat \ {0}
  /\ None \notin [pid : Pid, start : Launch \cup {Unknown}]
  /\ None \notin [file : Launch, offset : 0..MaxLines]

VARIABLES
  \* the system
  owner,
  proc,       \* pid -> the process that holds it, or Unknown
  kind,       \* launch -> "compiled", "python", "other"
  ttml,       \* launches with the ttml module mapped
  toFile,     \* launches whose stdout is a file
  written,    \* launch -> lines written
  cut,        \* launch -> lines truncated away
  launches,
  \* the scan worker
  scan,       \* "idle", "asked", "listed", "answered"
  list,       \* the process list of the scan
  probes,     \* pid -> [loaded, age, start] or None
  answer,     \* [pid, start] or None
  \* the loop thread
  onScreen,   \* the view that follows the run is shown
  latest,     \* latest_trainer: <<>> or <<answer>>
  polling,    \* update() has applied the result and not polled yet
  \* TrainMonitor
  attached,   \* [pid, start] or None
  log,        \* state.log: Unknown, or the launch whose file it is
  tailer,     \* [file, offset] or None
  got,        \* lines ingested since attach: [launch, line]
  anchor      \* last_step_seen: None, or the attachment it was taken under

osVars == <<owner, proc, kind, ttml, toFile, written, cut, launches>>
scanVars == <<scan, list, probes, answer>>
monitorVars == <<attached, log, tailer, got, anchor>>
loopVars == <<onScreen, latest, polling>>
vars == <<osVars, scanVars, loopVars, monitorVars>>

\* What a scan leaves behind once it has been used.
NoList == [p \in Pid |-> Unknown]

Init ==
  /\ owner \in Owners
  /\ proc = [p \in Pid |-> Unknown]
  /\ kind = [n \in Launch |-> "other"]
  /\ ttml = {}
  /\ toFile = {}
  /\ written = [n \in Launch |-> 0]
  /\ cut = [n \in Launch |-> 0]
  /\ launches = 0
  /\ scan = "idle"
  /\ list = NoList
  /\ probes = [p \in Pid |-> None]
  /\ answer = None
  /\ onScreen = TRUE
  /\ latest = <<>>
  /\ polling = FALSE
  /\ attached = None
  /\ log = Unknown
  /\ tailer = None
  /\ got = <<>>
  /\ anchor = None

-----------------------------------------------------------------------------
(* The system. *)

Running(n) == \E p \in Pid : proc[p] = n
IsTrainer(n) == kind[n] = "compiled" \/ n \in ttml

Start(p) ==
  /\ proc[p] = Unknown
  /\ launches < MaxLaunches
  /\ launches' = launches + 1
  /\ proc' = [proc EXCEPT ![p] = launches']
  /\ \E k \in Kinds : kind' = [kind EXCEPT ![launches'] = k]
  /\ \E f \in Redirected : toFile' = IF f THEN toFile \cup {launches'} ELSE toFile
  /\ UNCHANGED <<owner, ttml, written, cut, scanVars, loopVars, monitorVars>>

End(p) ==
  /\ proc[p] # Unknown
  /\ proc' = [proc EXCEPT ![p] = Unknown]
  /\ UNCHANGED <<owner, kind, ttml, toFile, written, cut, launches>>
  /\ UNCHANGED <<scanVars, loopVars, monitorVars>>

\* A harness is often scanned before it imports ttml.
Import(n) ==
  /\ Running(n)
  /\ kind[n] = "python"
  /\ n \notin ttml
  /\ ttml' = ttml \cup {n}
  /\ UNCHANGED <<owner, proc, kind, toFile, written, cut, launches>>
  /\ UNCHANGED <<scanVars, loopVars, monitorVars>>

Write(n) ==
  /\ Running(n)
  /\ n \in toFile
  /\ IsTrainer(n)
  /\ Cardinality({w \in Launch \X (1..MaxLines) : w[2] <= written[w[1]]}) < MaxLines
  /\ written' = [written EXCEPT ![n] = @ + 1]
  /\ UNCHANGED <<owner, proc, kind, ttml, toFile, cut, launches>>
  /\ UNCHANGED <<scanVars, loopVars, monitorVars>>

\* logrotate's copytruncate; the process goes on writing.
Truncate(n) ==
  /\ Running(n)
  /\ cut[n] < written[n]
  /\ cut' = [cut EXCEPT ![n] = written[n]]
  /\ UNCHANGED <<owner, proc, kind, ttml, toFile, written, launches>>
  /\ UNCHANGED <<scanVars, loopVars, monitorVars>>

-----------------------------------------------------------------------------
(* The scan worker, asked every two seconds while Arcade is on the screen. *)

AskForTrainer ==
  /\ owner = "arcade"
  /\ onScreen
  /\ ~polling
  /\ scan = "idle"
  /\ scan' = "asked"
  /\ UNCHANGED <<osVars, list, probes, answer, loopVars, monitorVars>>

TakeList ==
  /\ scan = "asked"
  /\ scan' = "listed"
  /\ list' = proc
  /\ UNCHANGED <<osVars, probes, answer, loopVars, monitorVars>>

\* Mistake: a negative is permanent.
CachedForEver(p) ==
  /\ probes[p] # None
  /\ probes[p].start = Unknown \/ proc[p] = Unknown \/ probes[p].start = proc[p]

\* An entry made for another process that held this pid is stale.  A start
\* time unknown on either side counts as the same process.
SameProcess(then, now) == then = Unknown \/ now = Unknown \/ then = now

Cached(p) ==
  /\ probes[p] # None
  /\ SameProcess(probes[p].start, proc[p])
  /\ probes[p].loaded \/ probes[p].age + 1 < RetryScans

HasTtml(p) == IF Cached(p) THEN probes[p].loaded ELSE proc[p] \in ttml

Listed == {p \in Pid : list[p] # Unknown}
IsPython(p) == kind[list[p]] = "python"
Matches(p) == kind[list[p]] = "compiled" \/ (IsPython(p) /\ HasTtml(p))

\* The search goes down the list to the first match; the order of the list is
\* not fixed.  Only the age of a negative is ever looked at,
\* and up to the retry.
ProbesAfter(reached) ==
  [p \in Pid |->
     IF p \notin Listed THEN None
     ELSE IF p \in reached /\ IsPython(p) /\ ~Cached(p)
          THEN [loaded |-> proc[p] \in ttml, age |-> 0, start |-> proc[p]]
          ELSE IF probes[p] = None \/ probes[p].loaded THEN probes[p]
               ELSE [probes[p] EXCEPT !.age = IF @ + 1 < RetryScans THEN @ + 1 ELSE @]]

Find ==
  /\ scan = "listed"
  /\ scan' = "answered"
  /\ LET found == {p \in Listed : Matches(p)} IN
     IF found = {}
     THEN /\ answer' = None
          /\ probes' = ProbesAfter(Listed)
     ELSE \E p \in found, before \in SUBSET (Listed \ found) :
            /\ answer' = [pid |-> p, start |-> proc[p]]
            /\ probes' = ProbesAfter(before \cup {p})
  /\ list' = NoList
  /\ UNCHANGED <<osVars, loopVars, monitorVars>>

-----------------------------------------------------------------------------
(* TrainMonitor. *)

\* stdout of the process that holds the pid now, if it is a file.
DiscoverLog(p) == IF proc[p] \in toFile THEN proc[p] ELSE Unknown

\* Mistake: the anchor lives on the monitor and is forgotten.
KeepRunAnchors == UNCHANGED anchor

ResetRunAnchors == anchor' = None

\* Only a log that is a file replaces the tailer.
Attach(p, old) ==
  /\ log' = DiscoverLog(p.pid)
  /\ tailer' = IF log' # Unknown THEN [file |-> log', offset |-> 0] ELSE old
  /\ got' = <<>>
  /\ ResetRunAnchors
  /\ attached' = p

Detach ==
  /\ attached' = None
  /\ log' = Unknown
  /\ got' = <<>>
  /\ ResetRunAnchors
  /\ tailer' = None

\* Mistake: a file that has not grown is taken for a new one.
ReadNewRestarts ==
  LET n == tailer.file
      len == written[n] - cut[n]
      from == IF len <= tailer.offset THEN 0 ELSE tailer.offset
      new == [i \in 1..(len - from) |-> [launch |-> n, line |-> cut[n] + from + i]]
  IN /\ got' = got \o new
     /\ tailer' = [tailer EXCEPT !.offset = len]
     /\ anchor' = IF new # <<>> THEN attached ELSE anchor

\* The file holds the lines after cut; a file shorter than the offset is read
\* from its start.
ReadNew ==
  LET n == tailer.file
      len == written[n] - cut[n]
      from == IF len < tailer.offset THEN 0 ELSE tailer.offset
      new == [i \in 1..(len - from) |-> [launch |-> n, line |-> cut[n] + from + i]]
  IN /\ got' = got \o new
     /\ tailer' = [tailer EXCEPT !.offset = len]
     /\ anchor' = IF new # <<>> THEN attached ELSE anchor

Ingest ==
  /\ IF tailer # None
     THEN ReadNew
     ELSE UNCHANGED <<got, tailer, anchor>>
  /\ UNCHANGED <<attached, log>>

StillAlive(p) == proc[p.pid] # Unknown

-----------------------------------------------------------------------------
(* The loop thread. *)

TakeResult ==
  /\ scan = "answered"
  /\ ~polling
  /\ scan' = "idle"
  /\ latest' = <<answer>>
  /\ answer' = None
  /\ UNCHANGED <<osVars, list, probes, onScreen, polling, monitorVars>>

SameRun(p) == p.pid = attached.pid /\ SameProcess(attached.start, p.start)

\* Mistake: a scan that sees no trainer says nothing.
UpdateKeepsOnNone ==
  /\ owner = "arcade"
  /\ onScreen
  /\ ~polling
  /\ polling' = TRUE
  /\ latest' = <<>>
  /\ IF latest = <<>> \/ latest = <<None>>
     THEN UNCHANGED monitorVars
     ELSE IF attached # None /\ SameRun(latest[1])
          THEN UNCHANGED monitorVars
          ELSE Attach(latest[1], tailer)
  /\ UNCHANGED <<osVars, scanVars, onScreen>>

\* TrainWatch::update up to its poll.
Update ==
  /\ owner = "arcade"
  /\ onScreen
  /\ ~polling
  /\ polling' = TRUE
  /\ latest' = <<>>
  /\ CASE latest = <<>> -> UNCHANGED monitorVars
       [] latest = <<None>> -> IF attached # None THEN Detach ELSE UNCHANGED monitorVars
       [] OTHER -> IF attached # None /\ SameRun(latest[1])
                   THEN UNCHANGED monitorVars
                   ELSE Attach(latest[1], tailer)
  /\ UNCHANGED <<osVars, scanVars, onScreen>>

\* TrainMonitor::poll_attached, the rest of update.
PollAttached ==
  /\ polling
  /\ polling' = FALSE
  /\ CASE attached = None -> UNCHANGED monitorVars
       [] attached # None /\ ~StillAlive(attached) -> Detach
       [] OTHER -> Ingest
  /\ UNCHANGED <<osVars, scanVars, onScreen, latest>>

\* scan_for_process: the trainers /proc shows now, without their start times.
ScanForProcess ==
  {[pid |-> p, start |-> Unknown] : p \in {q \in Pid : proc[q] # Unknown /\ IsTrainer(proc[q])}}

\* TrainMonitor::poll.  Whether the last search was two seconds ago is left
\* open.  After a detach the same call may search again.
Poll ==
  /\ owner = "training"
  /\ onScreen
  /\ IF attached # None /\ StillAlive(attached)
     THEN Ingest
     ELSE \/ \E p \in ScanForProcess : Attach(p, None)
          \/ /\ attached # None
             /\ Detach
  /\ UNCHANGED <<osVars, scanVars, loopVars>>

ChangeView ==
  /\ ~polling
  /\ onScreen' = ~onScreen
  /\ UNCHANGED <<osVars, scanVars, latest, polling, monitorVars>>

-----------------------------------------------------------------------------
Environment ==
  \/ \E p \in Pid : Start(p) \/ End(p)
  \/ \E n \in Launch : Import(n) \/ Write(n) \/ Truncate(n)
  \/ ChangeView

Worker == TakeList \/ Find
Loop == AskForTrainer \/ TakeResult \/ Update \/ PollAttached

Next == Environment \/ Worker \/ Loop \/ Poll

\* The worker thread runs, every pass of the loop draws (update and its poll),
\* looks for a result and, when two seconds are over, asks; the last two happen
\* between draws, hence strong fairness.  Nothing is assumed of processes, logs
\* and keys.
Fairness ==
  /\ WF_vars(TakeList) /\ WF_vars(Find)
  /\ SF_vars(AskForTrainer) /\ SF_vars(TakeResult)
  /\ WF_vars(PollAttached) /\ WF_vars(Update)
  /\ WF_vars(Poll)

Spec == Init /\ [][Next]_vars /\ Fairness

-----------------------------------------------------------------------------
(* Properties. *)

Candidate == [pid : Pid, start : Launch \cup {Unknown}]

\* Every variable has its type, and a log is never read past its end.
TypeOK ==
  /\ owner \in {"arcade", "training"}
  /\ proc \in [Pid -> Launch \cup {Unknown}]
  /\ kind \in [Launch -> {"compiled", "python", "other"}]
  /\ ttml \subseteq Launch /\ toFile \subseteq Launch
  /\ written \in [Launch -> 0..MaxLines]
  /\ cut \in [Launch -> 0..MaxLines]
  /\ launches \in 0..MaxLaunches
  /\ scan \in {"idle", "asked", "listed", "answered"}
  /\ list \in [Pid -> Launch \cup {Unknown}]
  /\ probes \in [Pid -> [loaded : BOOLEAN, age : 0..(RetryScans - 1),
                         start : Launch \cup {Unknown}] \cup {None}]
  /\ answer \in Candidate \cup {None}
  /\ onScreen \in BOOLEAN /\ polling \in BOOLEAN
  /\ latest = <<>> \/ latest[1] \in Candidate \cup {None}
  /\ attached \in Candidate \cup {None}
  /\ log \in Launch \cup {Unknown}
  /\ tailer \in [file : Launch, offset : 0..MaxLines] \cup {None}
  /\ got \in Seq([launch : Launch, line : 1..MaxLines])
  /\ anchor \in Candidate \cup {None}
  /\ tailer # None => tailer.offset <= written[tailer.file]

\* A line counts once and in order, and of a log that was not truncated the
\* run has every line up to the offset: Tailer::read_new neither repeats nor
\* skips, however reads, writes and truncations interleave.
LinesOnce ==
  /\ \A i, j \in 1..Len(got) : i < j => got[i].line < got[j].line
  /\ (tailer # None /\ log # Unknown /\ cut[log] = 0) =>
       /\ log = tailer.file
       /\ got = [i \in 1..tailer.offset |-> [launch |-> log, line |-> i]]

\* What the view draws is of one attachment: no two logs are mixed, and the
\* cadence anchor was taken under the attachment it is used for (attach,
\* detach and reset_run_anchors over pids that are handed on).
OneRun ==
  /\ \A i, j \in 1..Len(got) : got[i].launch = got[j].launch
  /\ anchor \in {None, attached}
  /\ attached = None => got = <<>> /\ tailer = None

TheTrainerIs(n) ==
  /\ owner = "arcade" /\ onScreen
  /\ Running(n) /\ IsTrainer(n)
  /\ \A m \in Launch \ {n} : ~(Running(m) /\ IsTrainer(m))

Follows(n) ==
  /\ attached # None
  /\ proc[attached.pid] = n
  /\ attached.start \in {n, Unknown}

\* While Arcade is shown, a trainer that stays the only one is followed in the
\* end, whatever ran under its pid before and however late it imported ttml.
FollowsTheTrainer ==
  \A n \in Launch : <>[]TheTrainerIs(n) => <>[]Follows(n)

\* The run has ended: for Arcade no trainer runs, for the Training view
\* nothing runs at all.
Ended ==
  /\ onScreen
  /\ \A m \in Launch : Running(m) => owner = "arcade" /\ ~IsTrainer(m)

\* A run that has ended is dropped in the end, even if its pid was reused
\* while Arcade followed it or while another view was shown.
EndedIsDropped == <>[]Ended => <>[](attached = None)

\* With stdout not redirected there is nothing to read and no line is shown
\* (workload/train/logsrc.rs:15).
NothingInvented == (attached # None /\ log = Unknown) => got = <<>>

=============================================================================
