----------------------------- MODULE TrainSteps -----------------------------
(***************************************************************************)
(* What the Training view makes of a run's log (workload/train/monitor.rs):*)
(* TrainState::apply_event turns headers, resume lines, progress bar       *)
(* frames, absolute step lines and step times into the run's position and  *)
(* budget, and note_step_progress times the steps it sees go by.           *)
(*                                                                         *)
(* The trainer is the environment.  It trains in chunks, saves a           *)
(* checkpoint and may validate after each, can crash at any moment and     *)
(* start again in the same log.  It validates only where it saves, saves    *)
(* after two steps at the least, and its bar shows the first and the last  *)
(* step of every count.  Every line carries, for the properties only, the  *)
(* position `pos` the run had when it was printed.                         *)
(***************************************************************************)
EXTENDS Naturals, Sequences

CONSTANTS
  Styles,       \* what the trainer prints, see below
  ChunkLen,     \* steps between two checkpoints
  End,          \* the run's last step
  MaxLaunches,  \* processes that write to the log
  MaxUnread,    \* lines printed and not yet read
  NoStep

(***************************************************************************)
(* "harness"  header, resume line, a bar per chunk, `step=` lines (tt-tnt) *)
(* "timed"    the same, and a line with step and time for every step       *)
(* "counted"  `Max steps`, a bar per chunk, `step=` lines                  *)
(* "blind"    a bar per chunk and nothing else                             *)
(* "whole"    one bar for the whole run, with time-only lines beside it    *)
(* "lines"    `Max steps` and one `Step:` line per step, no bar            *)
(***************************************************************************)
AllStyles == {"harness", "timed", "counted", "blind", "whole", "lines"}
Headed == {"harness", "timed"}

ASSUME StepsAssumption ==
  /\ Styles \subseteq AllStyles
  /\ ChunkLen \in Nat /\ ChunkLen >= 2
  /\ End \in Nat \ {0}
  /\ MaxLaunches \in Nat
  /\ MaxUnread \in Nat
  /\ NoStep \notin Nat

VARIABLES
  \* the trainer
  style,
  phase,        \* "off", "resume", "train", "boundary", "done"
  pos,          \* the run's position: steps done
  chunk,        \* the position at which the bar started to count
  saved,        \* the position of the last checkpoint
  launches,
  unread,       \* lines the tailer has not returned yet
  \* TrainState
  step, loss, max_steps, stated_max_steps,
  last_bar_step, last_bar_total, chunked_bar,
  step_from_reported_line,
  abs_base, base_from_line, cadence_rebase,
  resume_start,
  step_history, \* whether it holds a sample
  \* TrainMonitor
  saw_reported_step_time,
  last_step_seen, anchor_is_baseline,
  last_note_at, \* whether it is set
  paused,       \* POLL_GAP_REBASE has passed since then
  \* history
  at,           \* the position at which the last line read was printed
  spoken,       \* no resume line is still to follow the last header read
  polled,       \* the view has been polled since it was last shown
  prompt,       \* the anchored step was printed while the view was polled
  broken,       \* the view has been away since the anchor was set
  sample        \* the last step timed by watching, or NoStep

trainerVars == <<style, phase, pos, chunk, saved, launches>>
positionVars ==
  <<step, loss, max_steps, stated_max_steps, last_bar_step, last_bar_total,
    chunked_bar, step_from_reported_line, abs_base, base_from_line,
    cadence_rebase, resume_start, step_history>>
cadenceVars ==
  <<saw_reported_step_time, last_step_seen, anchor_is_baseline, last_note_at, paused>>
historyVars == <<at, spoken, polled, prompt, broken, sample>>
stepsVars == <<trainerVars, unread, positionVars, cadenceVars, historyVars>>

StepsInit ==
  /\ style \in Styles
  /\ phase = "off"
  /\ pos = 0
  /\ chunk = 0
  /\ saved = 0
  /\ launches = 0
  /\ unread = <<>>
  /\ step = 0
  /\ loss = FALSE
  /\ max_steps = 0
  /\ stated_max_steps = 0
  /\ last_bar_step = NoStep
  /\ last_bar_total = 0
  /\ chunked_bar = FALSE
  /\ step_from_reported_line = FALSE
  /\ abs_base = NoStep
  /\ base_from_line = FALSE
  /\ cadence_rebase = FALSE
  /\ resume_start = NoStep
  /\ step_history = FALSE
  /\ saw_reported_step_time = FALSE
  /\ last_step_seen = NoStep
  /\ anchor_is_baseline = FALSE
  /\ last_note_at = FALSE
  /\ paused = FALSE
  /\ at = 0
  /\ spoken = TRUE
  /\ polled = FALSE
  /\ prompt = FALSE
  /\ broken = FALSE
  /\ sample = NoStep

-----------------------------------------------------------------------------
(* The trainer. *)

Line(kind, n, m, p) == [kind |-> kind, n |-> n, m |-> m, pos |-> p]

Prints(lines) ==
  /\ Len(unread) + Len(lines) <= MaxUnread
  /\ unread' = unread \o lines

\* The bar's total: the chunk, or the run for the trainer with one bar.
Span == IF style = "whole" \/ End - chunk < ChunkLen THEN End - chunk ELSE ChunkLen

\* A header's `steps=` counts this process's steps only.  Only a harness
\* appends to an earlier run's log, from the start or from its checkpoint.
Launch ==
  /\ phase = "off"
  /\ launches < MaxLaunches
  /\ launches > 0 => style \in Headed
  /\ launches' = launches + 1
  /\ \E from \in {0, saved} :
       /\ from < End
       /\ pos' = from
       /\ chunk' = from
       /\ saved' = from
       /\ phase' = IF from > 0 THEN "resume" ELSE "train"
       /\ CASE style \in Headed -> Prints(<<Line("header", End - from, from, from)>>)
            [] style \in {"counted", "lines"} -> Prints(<<Line("max", End, 0, 0)>>)
            [] OTHER -> UNCHANGED unread
  /\ UNCHANGED <<style, positionVars, cadenceVars, historyVars>>

SayResumed ==
  /\ phase = "resume"
  /\ phase' = "train"
  /\ Prints(<<Line("resume", pos, End, pos)>>)
  /\ UNCHANGED <<style, pos, chunk, saved, launches, positionVars, cadenceVars, historyVars>>

\* The lines of one step.  A bar may skip frames, never the first and the
\* last of its count.
StepLines(p) ==
  LET local == p - chunk
      frame == <<Line("frame", local, Span, p)>>
      timed == <<Line("timed", p, 0, p)>>
      skips == IF local \in {1, Span} THEN {} ELSE {<<>>}
  IN  CASE style = "lines" -> {<<Line("step", p, 0, p)>>}
        [] style = "timed" -> {timed \o frame, frame \o timed}
        [] style = "whole" -> {frame, frame \o <<Line("time", 0, 0, p)>>} \cup skips
        [] OTHER           -> {frame} \cup skips

TrainStep ==
  /\ phase = "train"
  /\ pos < End
  /\ pos' = pos + 1
  /\ \E lines \in StepLines(pos') : Prints(lines)
  /\ phase' = IF pos' - chunk = Span THEN "boundary" ELSE "train"
  /\ UNCHANGED <<style, chunk, saved, launches, positionVars, cadenceVars, historyVars>>

\* Checkpoint, and for some trainers a validation that prints the position.
Boundary ==
  /\ phase = "boundary"
  /\ phase' = IF pos = End THEN "done" ELSE "train"
  /\ saved' = pos
  /\ chunk' = IF style = "whole" THEN chunk ELSE pos
  /\ \/ UNCHANGED unread
     \/ /\ style \in {"harness", "timed", "counted"}
        /\ Prints(<<Line("step", pos, 0, pos)>>)
  /\ UNCHANGED <<style, pos, launches, positionVars, cadenceVars, historyVars>>

\* The process ends, at its last step or anywhere before.
Stop ==
  /\ phase # "off"
  /\ phase' = "off"
  /\ UNCHANGED <<style, pos, chunk, saved, launches, unread>>
  /\ UNCHANGED <<positionVars, cadenceVars, historyVars>>

Trainer == Launch \/ SayResumed \/ TrainStep \/ Boundary \/ Stop

-----------------------------------------------------------------------------
(***************************************************************************)
(* TrainState::apply_event, one action per kind of line.                   *)
(***************************************************************************)
Reads(kind) ==
  /\ unread # <<>>
  /\ Head(unread).kind = kind
  /\ unread' = Tail(unread)
  /\ at' = Head(unread).pos
  /\ UNCHANGED <<trainerVars, polled, prompt, broken, sample>>

HoldsRunData == step > 0 \/ loss \/ step_history \/ stated_max_steps > 0

\* step_is_chunk_local()
ChunkLocal(base, chunked, total) ==
  /\ base = NoStep
  /\ ~step_from_reported_line
  /\ \/ chunked
     \/ stated_max_steps > 0 /\ 0 < total /\ total < stated_max_steps

\* The budget a bar leaves: what was stated, or its total while it can be
\* the run's.
BarBudget(chunked, total, p) ==
  CASE stated_max_steps > 0 -> stated_max_steps
    [] stated_max_steps = 0 /\ ~chunked /\ total >= p -> total
    [] OTHER -> 0

\* A header after an earlier run in the same log starts a new one: what
\* begin_new_run clears here, and the monitor's anchors with it.
ReadHeader ==
  /\ Reads("header")
  /\ abs_base' = IF HoldsRunData \/ abs_base = NoStep THEN 0 ELSE abs_base
  /\ max_steps' = Head(unread).n
  /\ stated_max_steps' = Head(unread).n
  /\ IF HoldsRunData
     THEN /\ step' = 0
          /\ loss' = FALSE
          /\ step_history' = FALSE
          /\ last_bar_step' = NoStep
          /\ last_bar_total' = 0
          /\ chunked_bar' = FALSE
          /\ step_from_reported_line' = FALSE
          /\ base_from_line' = FALSE
          /\ cadence_rebase' = FALSE
          /\ resume_start' = NoStep
          /\ saw_reported_step_time' = FALSE
          /\ last_step_seen' = NoStep
          /\ anchor_is_baseline' = FALSE
          /\ last_note_at' = FALSE
          /\ paused' = FALSE
     ELSE UNCHANGED <<step, loss, step_history, last_bar_step, last_bar_total,
                      chunked_bar, step_from_reported_line, base_from_line,
                      cadence_rebase, resume_start, cadenceVars>>
  /\ spoken' = (Head(unread).m = 0)

ReadResume ==
  /\ Reads("resume")
  /\ LET l == Head(unread)
     IN  /\ resume_start' = l.n
         /\ abs_base' = l.n
         /\ step' = IF step > l.n THEN step ELSE l.n
         /\ max_steps' = l.m
         /\ stated_max_steps' = l.m
  /\ base_from_line' = TRUE
  /\ spoken' = TRUE
  /\ UNCHANGED <<loss, last_bar_step, last_bar_total, chunked_bar,
                 step_from_reported_line, cadence_rebase, step_history, cadenceVars>>

ReadMaxSteps ==
  /\ Reads("max")
  /\ max_steps' = Head(unread).n
  /\ stated_max_steps' = Head(unread).n
  /\ UNCHANGED <<step, loss, last_bar_step, last_bar_total, chunked_bar,
                 step_from_reported_line, abs_base, base_from_line,
                 cadence_rebase, resume_start, step_history, cadenceVars, spoken>>

\* Mistake: a restart moves the base although the line before it already did.
RestartAlwaysMoves ==
  /\ Reads("frame")
  /\ LET l         == Head(unread)
         restarted == last_bar_step # NoStep /\ l.n < last_bar_step
         moves     == restarted /\ abs_base # NoStep
         base      == IF moves THEN abs_base + last_bar_step ELSE abs_base
         chunked   == chunked_bar \/ restarted
     IN  /\ chunked_bar' = chunked
         /\ abs_base' = base
         /\ cadence_rebase' = (cadence_rebase \/ moves)
         /\ last_bar_step' = l.n
         /\ last_bar_total' = l.m
         /\ \/ /\ step_from_reported_line
               /\ max_steps' = BarBudget(chunked, l.m, step)
               /\ UNCHANGED <<step, loss>>
            \/ /\ ~step_from_reported_line
               /\ base # NoStep
               /\ step' = base + l.n
               /\ max_steps' = BarBudget(chunked, l.m, step')
               /\ loss' = TRUE
            \/ /\ ~step_from_reported_line
               /\ base = NoStep
               /\ step' = l.n
               /\ max_steps' = IF stated_max_steps > 0 /\ ChunkLocal(base, chunked, l.m)
                               THEN stated_max_steps ELSE l.m
               /\ loss' = TRUE
  /\ base_from_line' = FALSE
  /\ UNCHANGED <<stated_max_steps, step_from_reported_line, resume_start,
                 step_history, cadenceVars, spoken>>

\* A restart with no absolute line before it moves the base by the length of
\* the chunk that ended.
ReadFrame ==
  /\ Reads("frame")
  /\ LET l         == Head(unread)
         restarted == last_bar_step # NoStep /\ l.n < last_bar_step
         moves     == restarted /\ ~base_from_line /\ abs_base # NoStep
         base      == IF moves THEN abs_base + last_bar_step ELSE abs_base
         chunked   == chunked_bar \/ restarted
     IN  /\ chunked_bar' = chunked
         /\ abs_base' = base
         /\ cadence_rebase' = (cadence_rebase \/ moves)
         /\ last_bar_step' = l.n
         /\ last_bar_total' = l.m
         /\ \/ /\ step_from_reported_line
               /\ max_steps' = BarBudget(chunked, l.m, step)
               /\ UNCHANGED <<step, loss>>
            \/ /\ ~step_from_reported_line
               /\ base # NoStep
               /\ step' = base + l.n
               /\ max_steps' = BarBudget(chunked, l.m, step')
               /\ loss' = TRUE
            \/ /\ ~step_from_reported_line
               /\ base = NoStep
               /\ step' = l.n
               /\ max_steps' = IF stated_max_steps > 0 /\ ChunkLocal(base, chunked, l.m)
                               THEN stated_max_steps ELSE l.m
               /\ loss' = TRUE
  /\ base_from_line' = FALSE
  /\ UNCHANGED <<stated_max_steps, step_from_reported_line, resume_start,
                 step_history, cadenceVars, spoken>>

\* Mistake: a validation line does not ask for a new anchor.
AbsoluteKeepsAnchor(p) ==
  /\ abs_base' = p
  /\ base_from_line' = TRUE
  /\ step' = p
  /\ loss' = TRUE
  /\ UNCHANGED <<max_steps, stated_max_steps, last_bar_step, last_bar_total,
                 chunked_bar, cadence_rebase, resume_start, spoken>>

\* note_absolute_step and apply_step_and_loss
Absolute(p) ==
  /\ abs_base' = p
  /\ base_from_line' = TRUE
  /\ cadence_rebase' = (cadence_rebase \/ last_bar_step # NoStep)
  /\ step' = p
  /\ loss' = TRUE
  /\ UNCHANGED <<max_steps, stated_max_steps, last_bar_step, last_bar_total,
                 chunked_bar, resume_start, spoken>>

ReadStep ==
  /\ Reads("step")
  /\ Absolute(Head(unread).n)
  /\ UNCHANGED <<step_from_reported_line, step_history, cadenceVars>>

\* Once a time has been read the monitor stops timing steps itself.
TimeReported ==
  /\ saw_reported_step_time' = TRUE
  /\ step_history' = TRUE
  /\ UNCHANGED <<last_step_seen, anchor_is_baseline, last_note_at, paused>>

ReadTimedStep ==
  /\ Reads("timed")
  /\ Absolute(Head(unread).n)
  /\ step_from_reported_line' = TRUE
  /\ TimeReported

ReadTime ==
  /\ Reads("time")
  /\ TimeReported
  /\ UNCHANGED <<step, loss, max_steps, stated_max_steps, last_bar_step,
                 last_bar_total, chunked_bar, step_from_reported_line, abs_base,
                 base_from_line, cadence_rebase, resume_start, spoken>>

Ingest ==
  \/ ReadHeader \/ ReadResume \/ ReadMaxSteps
  \/ ReadFrame \/ ReadStep \/ ReadTimedStep \/ ReadTime

-----------------------------------------------------------------------------
(***************************************************************************)
(* The cadence.  A poll reads the lines there are, then notes the step.    *)
(***************************************************************************)
\* Nothing is polled for longer than POLL_GAP_REBASE: another view is shown.
LookAway ==
  /\ paused' = last_note_at
  /\ polled' = FALSE
  /\ broken' = TRUE
  /\ UNCHANGED <<trainerVars, unread, positionVars, saw_reported_step_time,
                 last_step_seen, anchor_is_baseline, last_note_at>>
  /\ UNCHANGED <<at, spoken, prompt, sample>>

Anchor(baseline) ==
  /\ last_step_seen' = step
  /\ anchor_is_baseline' = baseline
  /\ prompt' = (polled /\ last_step_seen # NoStep /\ step > last_step_seen)
  /\ broken' = FALSE

NoAnchor == UNCHANGED <<last_step_seen, anchor_is_baseline, prompt, broken>>

\* The times are the trainer's own, or no step line has been read yet.
NothingToNote ==
  \/ saw_reported_step_time
  \/ ~loss /\ (step = 0 \/ resume_start # NoStep)

\* What note_step_progress does to the anchor, and whether it takes a sample.
Note ==
  LET rebase == paused \/ cadence_rebase
      fresh  == last_step_seen = NoStep
      back   == ~fresh /\ step < last_step_seen
      ahead  == ~fresh /\ step > last_step_seen
      timed  == ~rebase /\ ahead /\ ~anchor_is_baseline /\ step = last_step_seen + 1
  IN  /\ ~NothingToNote
      /\ last_note_at' = TRUE
      /\ paused' = FALSE
      /\ cadence_rebase' = FALSE
      /\ polled' = TRUE
      /\ chunked_bar' = (chunked_bar \/ back)
      /\ \/ (fresh \/ rebase) /\ Anchor(TRUE)
         \/ ~fresh /\ ~rebase /\ (back \/ ahead) /\ Anchor(FALSE)
         \/ ~fresh /\ ~rebase /\ ~back /\ ~ahead /\ NoAnchor
      /\ step_history' = (step_history \/ timed)
      /\ sample' = IF timed THEN step ELSE sample
      /\ UNCHANGED <<trainerVars, unread, step, loss, max_steps, stated_max_steps,
                     last_bar_step, last_bar_total, step_from_reported_line,
                     abs_base, base_from_line, resume_start, saw_reported_step_time>>
      /\ UNCHANGED <<at, spoken>>

\* The poll returns early; the view was polled all the same.
NoteNothing ==
  /\ NothingToNote
  /\ polled' = TRUE
  /\ UNCHANGED <<trainerVars, unread, positionVars, cadenceVars>>
  /\ UNCHANGED <<at, spoken, prompt, broken, sample>>

StepsNext == Trainer \/ Ingest \/ LookAway \/ Note \/ NoteNothing

StepsSpec == StepsInit /\ [][StepsNext]_stepsVars

-----------------------------------------------------------------------------
LineKind == {"header", "resume", "max", "frame", "step", "timed", "time"}
LineType == [kind : LineKind, n : Nat, m : Nat, pos : Nat]

StepsTypeOK ==
  /\ style \in Styles
  /\ phase \in {"off", "resume", "train", "boundary", "done"}
  /\ pos \in 0..End /\ chunk \in 0..End /\ saved \in 0..End
  /\ launches \in 0..MaxLaunches
  /\ unread \in Seq(LineType)
  /\ step \in Nat /\ max_steps \in Nat /\ stated_max_steps \in Nat
  /\ last_bar_total \in Nat
  /\ last_bar_step \in Nat \cup {NoStep} /\ abs_base \in Nat \cup {NoStep}
  /\ resume_start \in Nat \cup {NoStep} /\ last_step_seen \in Nat \cup {NoStep}
  /\ sample \in Nat \cup {NoStep}
  /\ loss \in BOOLEAN /\ step_history \in BOOLEAN
  /\ chunked_bar \in BOOLEAN /\ step_from_reported_line \in BOOLEAN
  /\ base_from_line \in BOOLEAN /\ cadence_rebase \in BOOLEAN
  /\ saw_reported_step_time \in BOOLEAN /\ anchor_is_baseline \in BOOLEAN
  /\ last_note_at \in BOOLEAN /\ paused \in BOOLEAN
  /\ at \in Nat
  /\ spoken \in BOOLEAN /\ polled \in BOOLEAN /\ prompt \in BOOLEAN /\ broken \in BOOLEAN

Shown == loss \/ resume_start # NoStep

\* The position on the screen and the budget it is set against are the run's,
\* whatever order headers, resume lines, absolute lines, frames and restarts of
\* the bar come in: a step is neither counted twice nor lost at a chunk
\* boundary, a crash or a resume, and numbers that are only the chunk's are
\* marked so (step_is_chunk_local).  A trainer that prints each step with its
\* time may be a line ahead with its bar; the total of a bar that was never
\* restarted looks like a budget.
ProgressIsTheRuns ==
  (Shown /\ spoken /\ ~ChunkLocal(abs_base, chunked_bar, last_bar_total)) =>
    /\ \/ step = at
       \/ style = "timed" /\ step + 1 = at
    /\ style = "blind" \/ max_steps \in {0, End}

\* A step whose time was taken by watching it go by began and ended while the
\* view was polled and the trainer did nothing but train: no chunk boundary,
\* no time away and no start of the run is taken for a step.
OnlyTrainingIsTimed ==
  [][(sample' # sample /\ abs_base # NoStep) =>
       prompt /\ ~broken /\ (style # "lines" => (step - 1) % ChunkLen # 0)]_stepsVars
=============================================================================
