--------------------------- MODULE HivemindEngine ---------------------------
(***************************************************************************)
(* The collector engine of the Hivemind view (workload/hivemind/mod.rs,    *)
(* collector.rs, collectors/log_tail.rs and wrap.rs): one thread for each  *)
(* collector, the helper threads that read the pipes of child processes,   *)
(* the bounded channel they all send into, and the render thread that      *)
(* starts, polls and stops the engine.                                     *)
(*                                                                         *)
(* Time is in tenths of a second.  A thread that can move does so before   *)
(* the time passes; between two looks at its shutdown flag a collector     *)
(* sleeps, and now and then scans.                                         *)
(***************************************************************************)
EXTENDS Naturals, Sequences, FiniteSets, SequencesExt, FiniteSetsExt

CONSTANTS
  Pollers,        \* kmsg, cache_watch, procfs, inspector, a watched file
  Tails,          \* log_tail, each following one container
  Wraps,          \* wrapped commands
  PollTime, TailTime, ScanTime, WrapTime,
  ChannelCap,
  HeirsStay,      \* what a command started may outlive it, and holds its pipe
  Nobody

Automatic == Pollers \cup Tails
Collector == Automatic \cup Wraps
Piped == Tails \cup Wraps

ASSUME HivemindAssumption ==
  /\ Pollers \cap Tails = {} /\ Automatic \cap Wraps = {} /\ IsFiniteSet(Collector)
  /\ Automatic # {}
  /\ {PollTime, TailTime, ScanTime, WrapTime, ChannelCap} \subseteq Nat \ {0}
  /\ HeirsStay \in BOOLEAN
  /\ Nobody \notin Collector

VARIABLES
  \* the render thread
  stage,          \* "off", "on" or "stopping"
  handles,        \* the spawned collectors, in spawn order
  spent,          \* tenths the render thread has been in stop()
  \* the collectors
  thread,         \* "none", "loop", "cleanup" or "ended"
  shutdown,
  nap,            \* tenths until it looks at its flag again
  followed,       \* log_tail: its container is in `tailing`
  \* child processes and the threads that read their pipes
  child,          \* "none", "up" or "gone"
  heir,           \* a process the child started holds the pipe
  reader,         \* "none", "reading" or "ended"
  \* the channel
  queued,
  \* the containers
  container_up

engineVars == <<stage, handles, spent>>
collectorVars == <<thread, shutdown, nap, followed>>
childVars == <<child, heir, reader>>
hivemindVars == <<engineVars, collectorVars, childVars, queued, container_up>>

HivemindInit ==
  /\ stage = "off"
  /\ handles = <<>>
  /\ spent = 0
  /\ thread = [c \in Collector |-> "none"]
  /\ shutdown = [c \in Collector |-> FALSE]
  /\ nap = [c \in Collector |-> 0]
  /\ followed = [c \in Tails |-> FALSE]
  /\ child = [c \in Piped |-> "none"]
  /\ heir = [c \in Wraps |-> FALSE]
  /\ reader = [c \in Piped |-> "none"]
  /\ queued = 0
  /\ container_up = [c \in Tails |-> TRUE]

\* The longest stop() may take: the collectors are stopped one by one, each
\* when the one before it has ended.
StopTime == Cardinality(Pollers) * PollTime
              + Cardinality(Tails) * (TailTime + ScanTime)
              + Cardinality(Wraps) * WrapTime

-----------------------------------------------------------------------------
(* The render thread. *)

Spawn(cs) ==
  /\ thread' = [c \in Collector |-> IF c \in cs THEN "loop" ELSE thread[c]]
  /\ shutdown' = [c \in Collector |-> c \notin cs /\ shutdown[c]]
  /\ nap' = [c \in Collector |-> IF c \in cs THEN 0 ELSE nap[c]]
  /\ followed' = [c \in Tails |-> c \notin cs /\ followed[c]]
  /\ child' = [c \in Piped |-> IF c \in cs THEN "none" ELSE child[c]]
  /\ heir' = [c \in Wraps |-> c \notin cs /\ heir[c]]
  /\ reader' = [c \in Piped |-> IF c \in cs THEN "none" ELSE reader[c]]

Start ==
  /\ stage = "off"
  /\ stage' = "on"
  /\ handles' = SetToSeq(Automatic)
  /\ Spawn(Automatic)
  /\ UNCHANGED <<spent, queued, container_up>>

\* A watch or a wrapped command starts the engine when it is not running.
AddWrap(w) ==
  /\ stage # "stopping"
  /\ w \notin ToSet(handles)
  /\ stage' = "on"
  /\ handles' = Append(IF stage = "off" THEN SetToSeq(Automatic) ELSE handles, w)
  /\ Spawn(IF stage = "off" THEN Automatic \cup {w} ELSE {w})
  /\ UNCHANGED <<spent, queued, container_up>>

Poll ==
  /\ stage = "on"
  /\ queued > 0
  /\ queued' = 0
  /\ UNCHANGED <<engineVars, collectorVars, childVars, container_up>>

Joining == IF stage = "stopping" THEN Head(handles) ELSE Nobody

\* The flag of one collector, which stop() then joins.
BeginStop ==
  /\ stage = "on"
  /\ stage' = "stopping"
  /\ spent' = 0
  /\ shutdown' = [shutdown EXCEPT ![Head(handles)] = TRUE]
  /\ UNCHANGED <<handles, thread, nap, followed, childVars, queued, container_up>>

\* The next one; after the last the channel and what is in it are dropped.
JoinNext ==
  /\ stage = "stopping"
  /\ thread[Joining] = "ended"
  /\ handles' = Tail(handles)
  /\ IF handles' = <<>>
     THEN stage' = "off" /\ queued' = 0 /\ spent' = 0 /\ UNCHANGED shutdown
     ELSE UNCHANGED <<stage, queued, spent>>
            /\ shutdown' = [shutdown EXCEPT ![Head(handles')] = TRUE]
  /\ UNCHANGED <<thread, nap, followed, childVars, container_up>>

-----------------------------------------------------------------------------
(* The channel. *)

\* Mistake: send() in place of try_send() waits for room in the channel.
SendWaits(n) == n < ChannelCap

\* try_send() returns at once, with the event in the channel or dropped.
SendReturns(n) == TRUE

Send == queued' = IF queued < ChannelCap THEN queued + 1 ELSE queued

\* A turn of a loop or of a reader: it sends something or has nothing to send.
SendOrNot == Send \/ UNCHANGED queued

-----------------------------------------------------------------------------
(* The collectors. *)

Awake(c) ==
  /\ thread[c] = "loop"
  /\ nap[c] = 0
  /\ c \in Pollers => SendReturns(queued)

Ends(c) == thread' = [thread EXCEPT ![c] = "ended"]
Sleeps(c, tenths) == nap' = [nap EXCEPT ![c] = tenths] /\ UNCHANGED thread

PollerTurn(c) ==
  /\ Awake(c)
  /\ \/ /\ ~shutdown[c]
        /\ SendOrNot
        /\ \E t \in {0, PollTime} : Sleeps(c, t)
     \* the flag is seen, or the source cannot be opened or panicked
     \/ Ends(c) /\ UNCHANGED <<nap, queued>>
  /\ UNCHANGED <<engineVars, shutdown, followed, childVars, container_up>>

\* A container is followed once by its name; `docker logs` may not start.
Follow(c) ==
  /\ followed' = [followed EXCEPT ![c] = TRUE]
  /\ \/ child' = [child EXCEPT ![c] = "up"] /\ reader' = [reader EXCEPT ![c] = "reading"]
     \/ UNCHANGED <<child, reader>>

TailTurn(c) ==
  /\ Awake(c)
  /\ ~shutdown[c]
  /\ \/ Sleeps(c, TailTime) /\ UNCHANGED <<followed, child, reader>>
     \/ /\ Sleeps(c, TailTime + ScanTime)
        /\ IF container_up[c] /\ ~followed[c]
           THEN Follow(c)
           ELSE UNCHANGED <<followed, child, reader>>
  /\ UNCHANGED <<engineVars, shutdown, heir, queued, container_up>>

\* run_command: the command starts, or cannot; the flag is not looked at yet.
WrapStarts(c) ==
  /\ Awake(c)
  /\ child[c] = "none"
  /\ \/ /\ child' = [child EXCEPT ![c] = "up"]
        /\ reader' = [reader EXCEPT ![c] = "reading"]
        /\ UNCHANGED thread
     \/ Ends(c) /\ UNCHANGED <<child, reader>>
  /\ UNCHANGED <<engineVars, shutdown, nap, followed, heir, queued, container_up>>

\* Neither the flag nor the command's end is there.
WrapWaits(c) ==
  /\ Awake(c)
  /\ child[c] = "up" /\ ~shutdown[c]
  /\ Sleeps(c, WrapTime)
  /\ UNCHANGED <<engineVars, shutdown, followed, childVars, queued, container_up>>

\* Out of its loop, a collector kills and reaps its child.
KillChild(c) ==
  /\ thread' = [thread EXCEPT ![c] = "cleanup"]
  /\ child' = [child EXCEPT ![c] = IF @ = "up" THEN "gone" ELSE @]

LeavesLoop(c) ==
  /\ Awake(c)
  /\ IF c \in Tails THEN shutdown[c]
     ELSE child[c] = "gone" \/ (child[c] = "up" /\ shutdown[c])
  /\ KillChild(c)
  /\ UNCHANGED <<engineVars, shutdown, nap, followed, heir, reader, queued, container_up>>

\* It has joined its reader.
JoinReader(c) ==
  /\ thread[c] = "cleanup"
  /\ reader[c] # "reading"
  /\ Ends(c)
  /\ UNCHANGED <<engineVars, shutdown, nap, followed, childVars, queued, container_up>>

-----------------------------------------------------------------------------
(* The pipes. *)

PipeOpen(c) == child[c] = "up" \/ (c \in Wraps /\ heir[c])

\* A line is read; the flag is looked at before the next one.
ReadLine(c) ==
  /\ reader[c] = "reading"
  /\ PipeOpen(c)
  /\ SendReturns(queued)
  /\ SendOrNot
  /\ reader' = [reader EXCEPT ![c] = IF shutdown[c] THEN "ended" ELSE @]
  /\ UNCHANGED <<engineVars, collectorVars, child, heir, container_up>>

EndOfPipe(c) ==
  /\ reader[c] = "reading"
  /\ ~PipeOpen(c)
  /\ reader' = [reader EXCEPT ![c] = "ended"]
  /\ UNCHANGED <<engineVars, collectorVars, child, heir, queued, container_up>>

-----------------------------------------------------------------------------
(* Containers, commands and the processes they leave. *)

ContainerTurns(c) ==
  /\ container_up' = [container_up EXCEPT ![c] = ~@]
  /\ child' = [child EXCEPT ![c] = IF @ = "up" THEN "gone" ELSE @]
  /\ UNCHANGED <<engineVars, collectorVars, heir, reader, queued>>

CommandEnds(c) ==
  /\ child[c] = "up"
  /\ child' = [child EXCEPT ![c] = "gone"]
  /\ UNCHANGED <<engineVars, collectorVars, heir, reader, queued, container_up>>

Forks(c) ==
  /\ child[c] = "up"
  /\ ~heir[c]
  /\ heir' = [heir EXCEPT ![c] = TRUE]
  /\ UNCHANGED <<engineVars, collectorVars, child, reader, queued, container_up>>

HeirEnds(c) ==
  /\ heir[c]
  /\ heir' = [heir EXCEPT ![c] = FALSE]
  /\ UNCHANGED <<engineVars, collectorVars, child, reader, queued, container_up>>

-----------------------------------------------------------------------------
CanMove(c) ==
  \/ Awake(c)
  \/ thread[c] = "cleanup" /\ reader[c] # "reading"
  \/ c \in Piped /\ reader[c] = "reading" /\ ~PipeOpen(c)

TenthPasses ==
  /\ HeirsStay \/ \A c \in Wraps : heir[c] => child[c] = "up"
  /\ \A c \in Collector : ~CanMove(c)
  /\ stage = "stopping" => thread[Joining] # "ended"
  /\ nap' = [c \in Collector |-> IF nap[c] = 0 THEN 0 ELSE nap[c] - 1]
  /\ spent' = IF stage = "stopping" /\ spent <= StopTime THEN spent + 1 ELSE spent
  /\ UNCHANGED <<stage, handles, thread, shutdown, followed, childVars, queued, container_up>>

HivemindNext ==
  \/ Start \/ Poll \/ BeginStop \/ JoinNext \/ TenthPasses
  \/ \E c \in Pollers : PollerTurn(c)
  \/ \E c \in Tails : TailTurn(c) \/ ContainerTurns(c)
  \/ \E c \in Wraps : AddWrap(c) \/ WrapStarts(c) \/ WrapWaits(c) \/ CommandEnds(c)
                           \/ Forks(c) \/ HeirEnds(c)
  \/ \E c \in Piped : LeavesLoop(c) \/ JoinReader(c) \/ ReadLine(c) \/ EndOfPipe(c)

HivemindSpec == HivemindInit /\ [][HivemindNext]_hivemindVars

-----------------------------------------------------------------------------
\* stop() runs on the render thread, which draws nothing and drains nothing
\* until it returns.  It returns within the collectors' own intervals, with a
\* full channel, a command that does not end and a reader blocked in
\* read_line ("killing it closes the write end of both pipes, which unblocks
\* the reader threads' blocking read_line calls with an EOF").  When it has
\* returned no thread of the engine and no child process is left, "orphaned
\* threads/processes still running".
StopIsBrief ==
  /\ stage = "stopping" => spent <= StopTime
  /\ stage = "off" =>
       /\ \A c \in Collector : thread[c] \in {"none", "ended"}
       /\ \A c \in Piped : child[c] # "up" /\ reader[c] # "reading"
=============================================================================
