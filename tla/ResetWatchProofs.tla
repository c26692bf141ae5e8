-------------------------- MODULE ResetWatchProofs --------------------------
(***************************************************************************)
(* Proofs about ResetWatch for every set of pids and command lines, any    *)
(* number of processes and panics, every behaviour and demo length.        *)
(***************************************************************************)
EXTENDS ResetWatch, SequenceTheorems, TLAPS

Replied(i) == replies[i] # None

Scanning == IF worker = "scanning" THEN 1 ELSE 0

(***************************************************************************)
(* A launch number stands for one process, in the system and in what a     *)
(* scan has read of it.                                                    *)
(***************************************************************************)
Distinct(s) == s.id <= launches /\ \A r \in running : r.id = s.id => r = s

LaunchesAreUnique ==
  /\ \A r \in running : Distinct(r)
  /\ \A s \in snap : Distinct(s)
  /\ \A i \in DOMAIN replies : Replied(i) => \A s \in replies[i] : Distinct(s)
  /\ \A n \in reported : n <= launches

(***************************************************************************)
(* A reset that has been reported and still runs was running before the    *)
(* scan in flight began, because there is one scan at a time: the scan has *)
(* it or has still to read its pid.                                        *)
(***************************************************************************)
ScanHasReported ==
  \A r \in running :
    r.id \in reported =>
      /\ worker = "scanning" /\ r.pid \notin unread => r \in snap
      /\ \A i \in DOMAIN replies : Replied(i) => r \in replies[i]
      /\ IsIn(r, live)

\* Whatever in a scan has been reported before is in the live set.
KnownIsLive(list) == \A s \in list : s.id \in reported => IsIn(s, live)

ReportedIsLive ==
  /\ KnownIsLive(snap)
  /\ \A i \in DOMAIN replies : Replied(i) => KnownIsLive(replies[i])

StatusIsConsistent ==
  /\ ~Detects => reported = {}
  /\ detector # None => detector.id \in reported
  /\ done => live = {}
  /\ \A n \in Launch : reactions[n] <= 1 /\ (reactions[n] = 1 => n \in reported)

FinishedIsReal == takeover.finished => detector \notin running

NoStaleScan == worker # "scanning" => snap = {}

NotAskedInVain == worker = "absent" => ~outstanding

IInv ==
  /\ TypeOK
  /\ OneScanAtATime
  /\ DetectorGuardsTakeover
  /\ LaunchesAreUnique
  /\ ScanHasReported
  /\ ReportedIsLive
  /\ StatusIsConsistent
  /\ FinishedIsReal
  /\ NoStaleScan
  /\ NotAskedInVain

-----------------------------------------------------------------------------
LEMMA InitEstablishes == Init => IInv
<1> SUFFICES ASSUME Init
             PROVE  IInv
  OBVIOUS
<1> USE ResetAssumption DEF Init
<1>1. \A kind \in {"none", "single", "demo", "boot"} : StartTakeover(kind) \in Takeover
  BY DEF StartTakeover, Takeover
<1>2. takeover \in Takeover
  BY <1>1 DEF NoTakeover
<1>3. TypeOK
  <2>1. reactions \in [Launch -> Nat]
    OBVIOUS
  <2>2. replies \in Seq((SUBSET Process) \cup {None})
    OBVIOUS
  <2>3. detector \in Process \cup {None} /\ launches \in 0..MaxLaunches
        /\ panics \in 0..MaxPanics
    OBVIOUS
  <2>4. QED
    BY <1>2, <2>1, <2>2, <2>3 DEF TypeOK
<1>4. takeover.kind \in {"none", "boot"} /\ ~takeover.finished
  BY DEF NoTakeover, StartTakeover
<1>5. OneScanAtATime /\ NotAskedInVain
  BY DEF OneScanAtATime, NotAskedInVain
<1>6. DetectorGuardsTakeover
  BY <1>4 DEF DetectorGuardsTakeover
<1>7. LaunchesAreUnique /\ ScanHasReported /\ ReportedIsLive
  BY DEF LaunchesAreUnique, ScanHasReported, ReportedIsLive, KnownIsLive
<1>8. StatusIsConsistent /\ FinishedIsReal /\ NoStaleScan
  BY <1>4 DEF StatusIsConsistent, FinishedIsReal, NoStaleScan
<1>9. QED
  BY <1>3, <1>5, <1>6, <1>7, <1>8 DEF IInv

\* What one scan at a time means for the channels.
LEMMA ChannelFacts ==
  ASSUME IInv
  PROVE  /\ Len(replies) \in 0..1
         /\ worker = "scanning" => replies = <<>> /\ queued = 0
         /\ replies # <<>> => Tail(replies) = <<>> /\ worker # "scanning" /\ queued = 0
         /\ queued > 0 => replies = <<>> /\ worker # "scanning"
<1> USE DEF IInv
<1>1. Len(replies) \in Nat /\ queued \in Nat /\ replies \in Seq((SUBSET Process) \cup {None})
  BY DEF TypeOK
<1>2. Scanning \in {0, 1} /\ (worker = "scanning" => Scanning = 1)
  BY DEF Scanning
<1>3. queued + Scanning + Len(replies) <= 1
  BY <1>1, <1>2 DEF OneScanAtATime, Scanning
<1>4. Len(replies) = 0 <=> replies = <<>>
  BY <1>1, EmptySeq
<1>5. Len(replies) \in {0, 1}
  <2>1. \A a, b, k \in Nat : a + b + k <= 1 => k \in {0, 1}
    OBVIOUS
  <2>2. Scanning \in Nat
    BY <1>2
  <2>3. QED
    BY <2>1, <2>2, <1>1, <1>3
<1>6. ASSUME replies # <<>>
      PROVE  Tail(replies) = <<>>
  <2>1. Tail(replies) \in Seq((SUBSET Process) \cup {None})
        /\ Len(Tail(replies)) = Len(replies) - 1
    BY <1>1, <1>6, HeadTailProperties
  <2>2. Len(Tail(replies)) = 0
    BY <2>1, <1>4, <1>5, <1>6
  <2>3. QED
    BY <2>1, <2>2, EmptySeq
<1>7. QED
  BY <1>1, <1>2, <1>3, <1>4, <1>5, <1>6

-----------------------------------------------------------------------------
(***************************************************************************)
(* Processes.                                                              *)
(***************************************************************************)
LEMMA StartPreserves ==
  ASSUME IInv, NEW p \in Pid, NEW c \in ResetCmd \cup OtherCmd, Start(p, c)
  PROVE  IInv'
<1> USE DEF IInv, Start, workerVars, loopVars, statusVars, takeoverVars
<1>1. launches + 1 \in Launch /\ launches \in Nat
  BY ResetAssumption DEF TypeOK, Launch
<1>2. PICK r \in Process : r = [pid |-> p, cmd |-> c, id |-> launches + 1]
  BY <1>1 DEF Process
<1>3. running' = running \cup {r} /\ launches' = launches + 1
  BY <1>2
<1>4. \A q \in Process : q.id \in Nat
  BY ResetAssumption DEF Process, Launch
<1>5. TypeOK'
  BY <1>2, <1>3, <1>1, ResetAssumption DEF TypeOK, Launch
<1>6. OneScanAtATime' /\ NotAskedInVain' /\ DetectorGuardsTakeover' /\ ReportedIsLive'
      /\ StatusIsConsistent'
      /\ NoStaleScan'
  BY DEF NoStaleScan, OneScanAtATime, NotAskedInVain, DetectorGuardsTakeover, ReportedIsLive,
         KnownIsLive,
         StatusIsConsistent, Detects, IsIn, Matches, Replied, TypeOK
<1>7. \A s \in Process : Distinct(s) => Distinct(s)'
  BY <1>1, <1>3, <1>4 DEF Distinct
<1>8. LaunchesAreUnique'
  <2>1. r.id = launches + 1
    BY <1>2
  <2>2. Distinct(r)'
    <3>1. \A q \in running : q.id # launches + 1
      BY <1>1, <1>4 DEF LaunchesAreUnique, Distinct, TypeOK
    <3>2. \A q \in running' : q.id = r.id => q = r
      BY <3>1, <2>1, <1>3
    <3>3. r.id <= launches'
      BY <2>1, <1>3, <1>1
    <3>4. QED
      BY <3>2, <3>3 DEF Distinct
  <2>3. \A q \in running : Distinct(q)'
    BY <1>7 DEF LaunchesAreUnique, TypeOK
  <2>4. \A s \in snap : Distinct(s)'
    BY <1>7 DEF LaunchesAreUnique, TypeOK
  <2>5. \A i \in DOMAIN replies : Replied(i) => \A s \in replies[i] : Distinct(s)'
    <3> SUFFICES ASSUME NEW i \in DOMAIN replies, Replied(i), NEW s \in replies[i]
                 PROVE  Distinct(s)'
      OBVIOUS
    <3>1. s \in Process
      BY DEF TypeOK, Replied
    <3>2. QED
      BY <3>1, <1>7 DEF LaunchesAreUnique
  <2>6. \A n \in reported : n <= launches + 1
    BY <1>1 DEF LaunchesAreUnique, TypeOK, Launch
  <2>7. replies' = replies /\ snap' = snap /\ reported' = reported
    OBVIOUS
  <2>8. \A q \in running' : Distinct(q)'
    BY <2>2, <2>3, <1>3
  <2>9. QED
    BY <2>8, <2>4, <2>5, <2>6, <2>7, <1>3 DEF LaunchesAreUnique, Replied
<1>9. r.id \notin reported
  BY <1>1, <1>2 DEF LaunchesAreUnique, TypeOK, Launch
<1>10. ScanHasReported'
  BY <1>3, <1>9 DEF ScanHasReported, IsIn, Matches, Replied
<1>11. FinishedIsReal'
  <2>1. detector # None => detector # r
    BY <1>9 DEF StatusIsConsistent
  <2>2. r # None
    BY <1>2, ResetAssumption
  <2>3. QED
    BY <2>1, <2>2, <1>3 DEF FinishedIsReal
<1>12. QED
  BY <1>5, <1>6, <1>8, <1>10, <1>11

LEMMA EndPreserves ==
  ASSUME IInv, NEW r \in running, End(r)
  PROVE  IInv'
<1> USE DEF IInv, End, workerVars, loopVars, statusVars, takeoverVars
<1>1. TypeOK'
  BY DEF TypeOK
<1>2. OneScanAtATime' /\ NotAskedInVain' /\ DetectorGuardsTakeover' /\ ReportedIsLive'
      /\ StatusIsConsistent'
      /\ NoStaleScan'
  BY DEF NoStaleScan, OneScanAtATime, NotAskedInVain, DetectorGuardsTakeover, ReportedIsLive,
         KnownIsLive,
         StatusIsConsistent, Detects, IsIn, Matches, Replied, TypeOK
<1>3. LaunchesAreUnique'
  BY DEF LaunchesAreUnique, Distinct, Replied
<1>4. ScanHasReported' /\ FinishedIsReal'
  BY DEF ScanHasReported, FinishedIsReal, IsIn, Matches, Replied
<1>5. QED
  BY <1>1, <1>2, <1>3, <1>4

-----------------------------------------------------------------------------
(***************************************************************************)
(* What a step does not touch it preserves.                                *)
(***************************************************************************)
\* The parts about scans, for a step that leaves processes, scans and the
\* live set alone.
LEMMA ScansUntouched ==
  ASSUME IInv, UNCHANGED <<osVars, worker, unread, snap, replies, live, reported>>
  PROVE  LaunchesAreUnique' /\ ScanHasReported' /\ ReportedIsLive' /\ NoStaleScan'
<1> USE DEF IInv, osVars
<1>1. LaunchesAreUnique'
  BY DEF LaunchesAreUnique, Distinct, Replied
<1>2. ScanHasReported'
  BY DEF ScanHasReported, Replied, IsIn, Matches
<1>3. ReportedIsLive' /\ NoStaleScan'
  BY DEF ReportedIsLive, KnownIsLive, NoStaleScan, Replied, IsIn, Matches
<1>4. QED
  BY <1>1, <1>2, <1>3

\* The parts about the loop, for a step of the worker.
LEMMA LoopUntouched ==
  ASSUME IInv, UNCHANGED <<osVars, loopVars>>
  PROVE  DetectorGuardsTakeover' /\ StatusIsConsistent' /\ FinishedIsReal'
  BY DEF IInv, osVars, loopVars, statusVars, takeoverVars, DetectorGuardsTakeover,
         StatusIsConsistent, Detects, FinishedIsReal

-----------------------------------------------------------------------------
(***************************************************************************)
(* The worker.                                                             *)
(***************************************************************************)
LEMMA BeginScanPreserves ==
  ASSUME IInv, BeginScan
  PROVE  IInv'
<1> USE DEF IInv, BeginScan, loopVars, statusVars, takeoverVars, osVars
<1>1. TypeOK'
  BY DEF TypeOK
<1>2. OneScanAtATime' /\ NotAskedInVain' /\ replies = <<>> /\ replies' = <<>>
  BY ChannelFacts DEF OneScanAtATime, NotAskedInVain, TypeOK
<1>3. LaunchesAreUnique' /\ ReportedIsLive' /\ NoStaleScan'
  BY <1>2 DEF LaunchesAreUnique, Distinct, Replied, ReportedIsLive, KnownIsLive, NoStaleScan,
              IsIn, Matches
<1>4. ScanHasReported'
  <2>1. CASE Detects
    BY <1>2, <2>1 DEF ScanHasReported, Replied, IsIn, Matches, TypeOK, Process
  <2>2. CASE ~Detects
    BY <2>2 DEF ScanHasReported, StatusIsConsistent
  <2>3. QED
    BY <2>1, <2>2
<1>5. QED
  BY <1>1, <1>2, <1>3, <1>4, LoopUntouched

LEMMA ReadPidPreserves ==
  ASSUME IInv, NEW p \in Pid, ReadPid(p)
  PROVE  IInv'
<1> USE DEF IInv, ReadPid, loopVars, statusVars, takeoverVars, osVars
<1>1. TypeOK'
  BY DEF TypeOK
<1>2. OneScanAtATime' /\ NotAskedInVain' /\ NoStaleScan'
  BY DEF OneScanAtATime, NotAskedInVain, NoStaleScan
<1>3. LaunchesAreUnique'
  BY DEF LaunchesAreUnique, Distinct, Replied
<1>4. \A r \in running : r.id \in reported => IsIn(r, live)
  BY DEF ScanHasReported
<1>5. ReportedIsLive'
  BY <1>4 DEF ReportedIsLive, KnownIsLive, Replied, IsIn, Matches
<1>6. ScanHasReported'
  BY DEF ScanHasReported, Replied, IsIn, Matches
<1>7. QED
  BY <1>1, <1>2, <1>3, <1>5, <1>6, LoopUntouched

LEMMA FinishScanPreserves ==
  ASSUME IInv, FinishScan
  PROVE  IInv'
<1> USE DEF IInv, FinishScan, Reply, loopVars, statusVars, takeoverVars, osVars
<1>1. replies = <<>> /\ queued = 0 /\ queued' = 0
  BY ChannelFacts
<1>2. replies' = <<snap>>
  BY <1>1
<1>3. DOMAIN replies' = {1} /\ replies'[1] = snap /\ Len(replies') = 1
  BY <1>2
<1>4. TypeOK'
  BY <1>2 DEF TypeOK
<1>5. OneScanAtATime' /\ NotAskedInVain' /\ NoStaleScan'
  BY <1>1, <1>3 DEF OneScanAtATime, NotAskedInVain, NoStaleScan
<1>6. LaunchesAreUnique'
  BY <1>3 DEF LaunchesAreUnique, Distinct, Replied
<1>7. ReportedIsLive'
  BY <1>3 DEF ReportedIsLive, KnownIsLive, Replied, IsIn, Matches
<1>8. ScanHasReported'
  BY <1>3 DEF ScanHasReported, Replied, IsIn, Matches
<1>9. QED
  BY <1>4, <1>5, <1>6, <1>7, <1>8, LoopUntouched

LEMMA ScanPanicsPreserves ==
  ASSUME IInv, ScanPanics
  PROVE  IInv'
<1> USE DEF IInv, ScanPanics, Reply, loopVars, statusVars, takeoverVars, osVars
<1>1. replies = <<>> /\ queued = 0 /\ queued' = 0
  BY ChannelFacts
<1>2. replies' = <<None>>
  BY <1>1
<1>3. DOMAIN replies' = {1} /\ replies'[1] = None /\ Len(replies') = 1
  BY <1>2
<1>4. TypeOK'
  BY <1>2, ResetAssumption DEF TypeOK
<1>5. OneScanAtATime' /\ NotAskedInVain' /\ NoStaleScan'
  BY <1>1, <1>3 DEF OneScanAtATime, NotAskedInVain, NoStaleScan
<1>6. LaunchesAreUnique'
  BY <1>3 DEF LaunchesAreUnique, Distinct, Replied
<1>7. ReportedIsLive'
  BY <1>3 DEF ReportedIsLive, KnownIsLive, Replied, IsIn, Matches
<1>8. ScanHasReported'
  BY <1>3 DEF ScanHasReported, Replied, IsIn, Matches
<1>9. QED
  BY <1>4, <1>5, <1>6, <1>7, <1>8, LoopUntouched

LEMMA WorkerEndsPreserves ==
  ASSUME IInv, WorkerEnds
  PROVE  IInv'
<1> USE DEF IInv, WorkerEnds, loopVars, statusVars, takeoverVars, osVars
<1>1. TypeOK'
  BY DEF TypeOK
<1>2. OneScanAtATime' /\ NotAskedInVain' /\ LaunchesAreUnique' /\ ReportedIsLive'
      /\ NoStaleScan'
  BY DEF OneScanAtATime, NotAskedInVain, LaunchesAreUnique, Distinct, Replied,
         ReportedIsLive, KnownIsLive,
         NoStaleScan, IsIn, Matches
<1>3. ScanHasReported'
  BY DEF ScanHasReported, Replied, IsIn, Matches
<1>4. QED
  BY <1>1, <1>2, <1>3, LoopUntouched

-----------------------------------------------------------------------------
(***************************************************************************)
(* The loop, away from scan results.                                       *)
(***************************************************************************)
LEMMA TickedTakeover ==
  ASSUME NEW t \in Takeover, NEW long \in BOOLEAN
  PROVE  /\ Ticked(t, long) \in Takeover
         /\ Ticked(t, long).kind = t.kind
         /\ Ticked(t, long).finished = t.finished
<1> USE ResetAssumption DEF Takeover
<1>1. CASE t.kind \in {"boot", "demo"} /\ long /\ ~t.over /\ t.slot + 1 < SlotCount
  <2>1. Ticked(t, long) = [t EXCEPT !.slot = @ + 1]
    BY <1>1 DEF Ticked
  <2>2. QED
    BY <2>1, <1>1
<1>2. CASE t.kind \in {"boot", "demo"} /\ long /\ ~t.over /\ ~(t.slot + 1 < SlotCount)
  <2>1. Ticked(t, long) = [t EXCEPT !.over = TRUE]
    BY <1>2 DEF Ticked
  <2>2. QED
    BY <2>1, <1>2
<1>3. CASE ~(t.kind \in {"boot", "demo"} /\ long /\ ~t.over)
  <2>1. Ticked(t, long) = t
    BY <1>3 DEF Ticked
  <2>2. QED
    BY <2>1
<1>4. QED
  BY <1>1, <1>2, <1>3

LEMMA NoTakeoverFacts ==
  NoTakeover \in Takeover /\ NoTakeover.kind = "none" /\ ~NoTakeover.finished
  BY ResetAssumption DEF NoTakeover, StartTakeover, Takeover

\* Steps that change neither takeover nor detector, or only how far the
\* takeover has come.
LEMMA TakeoverAdvances ==
  ASSUME IInv,
         UNCHANGED <<osVars, worker, queued, unread, snap, replies, panics, outstanding>>,
         UNCHANGED <<live, reported, reactions, detector>>,
         done' \in BOOLEAN, done' => done,
         pc' \in {"draw", "input", "result", "request", "quitting", "exited"},
         sweeper' \in BOOLEAN,
         takeover' \in Takeover, takeover'.kind = takeover.kind,
         takeover'.finished = takeover.finished
  PROVE  IInv'
<1> USE DEF IInv, osVars
<1>1. TypeOK'
  BY DEF TypeOK
<1>2. OneScanAtATime' /\ NotAskedInVain' /\ DetectorGuardsTakeover' /\ StatusIsConsistent'
      /\ FinishedIsReal'
  BY DEF OneScanAtATime, NotAskedInVain, DetectorGuardsTakeover, StatusIsConsistent, Detects,
         FinishedIsReal
<1>3. QED
  BY <1>1, <1>2, ScansUntouched

LEMMA DrawPreserves ==
  ASSUME IInv, NEW long \in BOOLEAN, Draw(long)
  PROVE  IInv'
<1> USE DEF IInv, Draw, osVars, workerVars, statusVars
<1>1. takeover \in Takeover /\ sweeper' \in BOOLEAN
  BY DEF TypeOK, Rotate
<1>2. CASE ~IsOver(Ticked(takeover, long), long)
  BY <1>1, <1>2, TickedTakeover, TakeoverAdvances DEF TickTakeover, TypeOK
<1>3. CASE IsOver(Ticked(takeover, long), long)
  <2>1. takeover' = NoTakeover /\ detector' = None
    BY <1>3 DEF TickTakeover
  <2>2. TypeOK'
    BY <2>1, <1>1, NoTakeoverFacts DEF TypeOK
  <2>3. OneScanAtATime' /\ NotAskedInVain' /\ DetectorGuardsTakeover'
        /\ StatusIsConsistent' /\ FinishedIsReal'
    BY <2>1, NoTakeoverFacts
       DEF OneScanAtATime, NotAskedInVain, DetectorGuardsTakeover, StatusIsConsistent,
           Detects, FinishedIsReal
  <2>4. QED
    BY <2>2, <2>3, ScansUntouched
<1>4. QED
  BY <1>2, <1>3

\* Every other step of the loop but the two that touch the channels.
LEMMA InputPreserves ==
  ASSUME IInv,
         \/ NoDraw \/ NoKey \/ Skip \/ EndDemo \/ ChangeView
         \/ Quit \/ Exit \/ NotYet \/ DoneExpires
  PROVE  IInv'
<1> USE DEF IInv, osVars, workerVars, statusVars, takeoverVars, ToResult
<1>1. takeover \in Takeover
  BY DEF TypeOK
<1>2. CASE NoDraw
  BY <1>1, <1>2, TakeoverAdvances DEF NoDraw, Rotate, TypeOK
<1>3. CASE NoKey
  BY <1>1, <1>3, TakeoverAdvances DEF NoKey, TypeOK
<1>4. CASE Skip
  <2>1. CASE takeover.kind = "single"
    <3>1. takeover' = [takeover EXCEPT !.over = TRUE]
      BY <1>4, <2>1 DEF Skip
    <3>2. takeover' \in Takeover /\ takeover'.kind = takeover.kind
          /\ takeover'.finished = takeover.finished
      BY <3>1, <1>1 DEF Takeover
    <3>3. QED
      BY <3>2, <1>4, TakeoverAdvances DEF Skip, TypeOK
  <2>2. CASE takeover.kind # "single"
    <3>1. takeover' = Ticked(takeover, TRUE)
      BY <1>4, <2>2 DEF Skip
    <3>2. QED
      BY <3>1, <1>1, <1>4, TickedTakeover, TakeoverAdvances DEF Skip, TypeOK
  <2>3. QED
    BY <2>1, <2>2
<1>5. CASE EndDemo
  <2>1. takeover' \in Takeover /\ takeover'.kind = takeover.kind
        /\ takeover'.finished = takeover.finished
    BY <1>1, <1>5 DEF EndDemo, Takeover
  <2>2. QED
    BY <2>1, <1>5, TakeoverAdvances DEF EndDemo, TypeOK
<1>6. CASE ChangeView
  BY <1>1, <1>6, TakeoverAdvances DEF ChangeView, TypeOK
<1>7. CASE Quit
  BY <1>1, <1>7, TakeoverAdvances DEF Quit, TypeOK
<1>8. CASE Exit
  BY <1>1, <1>8, TakeoverAdvances DEF Exit, TypeOK
<1>9. CASE NotYet
  BY <1>1, <1>9, TakeoverAdvances DEF NotYet, ToDraw, TypeOK
<1>10. CASE DoneExpires
  BY <1>1, <1>10, TakeoverAdvances DEF DoneExpires, TypeOK
<1>11. QED
  BY <1>2, <1>3, <1>4, <1>5, <1>6, <1>7, <1>8, <1>9, <1>10

LEMMA NoReplyPreserves ==
  ASSUME IInv, NoReply
  PROVE  IInv'
<1> USE DEF IInv, NoReply, osVars, workerVars, statusVars, takeoverVars
<1>1. TypeOK'
  BY DEF TypeOK
<1>2. OneScanAtATime' /\ NotAskedInVain'
  BY DEF OneScanAtATime, NotAskedInVain, TypeOK
<1>3. DetectorGuardsTakeover' /\ StatusIsConsistent' /\ FinishedIsReal'
  BY DEF DetectorGuardsTakeover, StatusIsConsistent, Detects, FinishedIsReal
<1>4. QED
  BY <1>1, <1>2, <1>3, ScansUntouched

LEMMA AskForScanPreserves ==
  ASSUME IInv, AskForScan
  PROVE  IInv'
<1> USE DEF IInv, AskForScan, ToDraw, osVars, statusVars, takeoverVars
<1>1. TypeOK'
  <2>1. queued' \in Nat /\ outstanding' \in BOOLEAN /\ pc' = "draw"
    <3>1. queued \in Nat /\ outstanding \in BOOLEAN
      BY DEF TypeOK
    <3>2. CASE outstanding \/ worker = "absent"
      BY <3>1, <3>2
    <3>3. CASE ~(outstanding \/ worker = "absent")
      BY <3>1, <3>3
    <3>4. QED
      BY <3>2, <3>3
  <2>2. QED
    BY <2>1 DEF TypeOK
<1>2. OneScanAtATime' /\ NotAskedInVain'
  BY DEF OneScanAtATime, NotAskedInVain, TypeOK
<1>3. DetectorGuardsTakeover' /\ StatusIsConsistent' /\ FinishedIsReal'
  BY DEF DetectorGuardsTakeover, StatusIsConsistent, Detects, FinishedIsReal
<1>4. QED
  BY <1>1, <1>2, <1>3, ScansUntouched

-----------------------------------------------------------------------------
(***************************************************************************)
(* A scan result is applied.  The scan is over and no other has begun.     *)
(***************************************************************************)
\* What is known of an applied list: it holds every reset that was reported
\* and still runs, and whatever it holds of reported ones is live and stays.
LEMMA ReplyFacts ==
  ASSUME IInv, replies # <<>>, Head(replies) # None
  PROVE  /\ Head(replies) \subseteq Process
         /\ \A s \in Head(replies) : Distinct(s)
         /\ \A r \in running : r.id \in reported => r \in Head(replies)
         /\ KnownIsLive(Head(replies))
<1> USE DEF IInv
<1>1. replies \in Seq((SUBSET Process) \cup {None})
  BY DEF TypeOK
<1>2. 1 \in DOMAIN replies /\ Head(replies) = replies[1] /\ replies[1] \in SUBSET Process
  BY <1>1, LenProperties, EmptySeq
<1>3. Replied(1)
  BY <1>2 DEF Replied
<1>4. QED
  BY <1>2, <1>3 DEF LaunchesAreUnique, ScanHasReported, ReportedIsLive

LEMMA NewIsUnreported ==
  ASSUME NEW list \in SUBSET Process, KnownIsLive(list), NEW r \in New(list)
  PROVE  r \in list /\ r \in Process /\ r.id \notin reported
<1>1. r \in list /\ ~IsIn(r, Kept(list))
  BY DEF New
<1>2. ASSUME r.id \in reported
      PROVE  FALSE
  <2>1. PICK q \in live : Matches(q, r)
    BY <1>1, <1>2 DEF KnownIsLive, IsIn
  <2>2. IsIn(q, list)
    BY <1>1, <2>1 DEF IsIn, Matches
  <2>3. QED
    BY <1>1, <2>1, <2>2 DEF Kept, IsIn
<1>3. QED
  BY <1>1, <1>2

\* A reset is reacted to when it is reported, and only then.
LEMMA ReactedAtReport ==
  ASSUME IInv, NEW ids \in SUBSET Launch, ids \cap reported = {},
         ids \subseteq reported', reported \subseteq reported', React(ids)
  PROVE  /\ reactions' \in [Launch -> Nat]
         /\ \A n \in Launch : reactions'[n] <= 1 /\ (reactions'[n] = 1 => n \in reported')
<1> USE DEF IInv
<1>1. reactions \in [Launch -> Nat]
  BY DEF TypeOK
<1>2. \A n \in Launch : reactions[n] <= 1 /\ (reactions[n] = 1 => n \in reported)
  BY DEF StatusIsConsistent
<1>3. \A n \in Launch : reactions'[n] = IF n \in ids THEN reactions[n] + 1 ELSE reactions[n]
  BY <1>1 DEF React
<1>4. reactions' \in [Launch -> Nat]
  BY <1>1 DEF React
<1>5. ASSUME NEW n \in Launch
      PROVE  reactions'[n] <= 1 /\ (reactions'[n] = 1 => n \in reported')
  <2>1. CASE n \in ids
    BY <2>1, <1>1, <1>2, <1>3
  <2>2. CASE n \notin ids
    BY <2>2, <1>2, <1>3
  <2>3. QED
    BY <2>1, <2>2
<1>6. QED
  BY <1>4, <1>5

\* The parts about the live set after Observe.
LEMMA ObserveKeeps ==
  ASSUME IInv, replies # <<>>, Head(replies) # None, Detects,
         UNCHANGED <<osVars, worker, unread, snap>>, replies' = Tail(replies),
         Observe(Head(replies))
  PROVE  /\ live' \subseteq Process /\ done' \in BOOLEAN
         /\ reported' \subseteq Launch
         /\ done' => live' = {}
         /\ LaunchesAreUnique' /\ ScanHasReported' /\ ReportedIsLive' /\ NoStaleScan'
<1> DEFINE list == Head(replies)
<1> USE DEF IInv, osVars
<1>1. list \subseteq Process /\ KnownIsLive(list)
      /\ (\A s \in list : Distinct(s))
      /\ (\A r \in running : r.id \in reported => r \in list)
  BY ReplyFacts
<1>2. New(list) \subseteq list /\ Kept(list) \subseteq live
  BY DEF New, Kept
<1>3. replies' = <<>> /\ worker # "scanning" /\ worker' # "scanning" /\ snap = {} /\ snap' = {}
  BY ChannelFacts DEF NoStaleScan
<1>4. live' = Kept(list) \cup New(list) /\ reported' = reported \cup {r.id : r \in New(list)}
  BY DEF Observe
<1>5. live' \subseteq Process /\ reported' \subseteq Launch
  BY <1>1, <1>2, <1>4 DEF TypeOK, Process
<1>6. done' \in BOOLEAN /\ (done' => live' = {})
  <2>1. CASE live' # {}
    BY <2>1 DEF Observe
  <2>2. CASE live' = {} /\ live # {}
    BY <2>2 DEF Observe
  <2>3. CASE live' = {} /\ live = {}
    BY <2>3 DEF Observe, TypeOK
  <2>4. QED
    BY <2>1, <2>2, <2>3
<1>7. LaunchesAreUnique'
  BY <1>1, <1>2, <1>3, <1>4 DEF LaunchesAreUnique, Distinct, Replied
<1>8. ScanHasReported'
  <2> SUFFICES ASSUME NEW r \in running, r.id \in reported'
               PROVE  IsIn(r, live')
    BY <1>3 DEF ScanHasReported, IsIn, Matches
  <2>1. CASE r.id \in reported
    <3>1. PICK q \in live : Matches(q, r)
      BY <2>1 DEF ScanHasReported, IsIn
    <3>2. r \in list
      BY <2>1, <1>1
    <3>3. q \in Kept(list)
      BY <3>1, <3>2 DEF Kept, IsIn, Matches
    <3>4. QED
      BY <3>1, <3>3, <1>4 DEF IsIn
  <2>2. CASE r.id \notin reported
    <3>1. PICK s \in New(list) : s.id = r.id
      BY <2>2, <1>4
    <3>2. s = r
      BY <3>1, <1>1, <1>2 DEF Distinct
    <3>3. QED
      BY <3>1, <3>2, <1>4 DEF IsIn, Matches
  <2>3. QED
    BY <2>1, <2>2
<1>9. ReportedIsLive' /\ NoStaleScan'
  BY <1>3 DEF ReportedIsLive, KnownIsLive, NoStaleScan, Replied
<1>10. QED
  BY <1>5, <1>6, <1>7, <1>8, <1>9

LEMMA NoteFinishedFacts ==
  ASSUME NEW t \in Takeover, NEW watched, NEW list
  PROVE  /\ NoteFinished(t, watched, list) \in Takeover
         /\ NoteFinished(t, watched, list).kind = t.kind
         /\ NoteFinished(t, watched, list).finished =>
              t.finished \/ ~IsIn(watched, list)
<1>1. CASE watched # None /\ ~IsIn(watched, list) /\ t.kind = "single"
  BY <1>1 DEF NoteFinished, Takeover
<1>2. CASE ~(watched # None /\ ~IsIn(watched, list) /\ t.kind = "single")
  <2>1. NoteFinished(t, watched, list) = t
    BY <1>2 DEF NoteFinished
  <2>2. QED
    BY <2>1
<1>3. QED
  BY <1>1, <1>2

LEMMA TakeReplyPreserves ==
  ASSUME IInv, TakeReply
  PROVE  IInv'
<1> DEFINE list == Head(replies)
<1> USE DEF IInv, osVars
<1>1. /\ replies # <<>> /\ replies' = Tail(replies) /\ outstanding' = FALSE /\ pc' = "request"
      /\ UNCHANGED <<osVars, worker, queued, unread, snap, panics, sweeper>>
  BY DEF TakeReply
<1>2. replies' = <<>> /\ worker # "scanning" /\ queued = 0
  BY <1>1, ChannelFacts
<1>3. OneScanAtATime' /\ NotAskedInVain'
  BY <1>1, <1>2 DEF OneScanAtATime, NotAskedInVain
<1> DEFINE Rest == /\ behavior \in Behaviors
                   /\ running \subseteq Process /\ launches \in 0..MaxLaunches
                   /\ worker \in {"absent", "idle", "scanning", "ended"} /\ queued \in Nat
                   /\ unread \subseteq Pid /\ snap \subseteq Process /\ panics \in 0..MaxPanics
                   /\ pc \in {"draw", "input", "result", "request", "quitting", "exited"}
                   /\ replies \in Seq((SUBSET Process) \cup {None})
                   /\ sweeper \in BOOLEAN /\ outstanding \in BOOLEAN
<1>3a. Rest'
  <2>1. behavior' \in Behaviors /\ running' \subseteq Process
        /\ launches' \in 0..MaxLaunches /\ queued' \in Nat
        /\ worker' \in {"absent", "idle", "scanning", "ended"} /\ unread' \subseteq Pid
        /\ snap' \subseteq Process /\ panics' \in 0..MaxPanics
    BY <1>1 DEF TypeOK
  <2>2. <<>> \in Seq((SUBSET Process) \cup {None})
    OBVIOUS
  <2>3. replies' \in Seq((SUBSET Process) \cup {None})
    BY <1>2, <2>2, Zenon
  <2>4. sweeper' \in BOOLEAN /\ outstanding' \in BOOLEAN
    BY <1>1 DEF TypeOK
  <2>5. pc' = "request"
    BY <1>1
  <2>6. QED
    BY <2>1, <2>3, <2>4, <2>5
<1>4. CASE list = None \/ ~Detects
  <2>1. UNCHANGED <<statusVars, takeoverVars>>
    BY <1>4 DEF TakeReply
  <2>2. TypeOK'
    BY <1>3a, <2>1 DEF TypeOK, statusVars, takeoverVars
  <2>3. LaunchesAreUnique' /\ NoStaleScan'
    BY <1>1, <1>2, <2>1 DEF LaunchesAreUnique, Distinct, Replied, NoStaleScan, statusVars
  <2>4. ScanHasReported' /\ ReportedIsLive'
    BY <1>1, <1>2, <2>1 DEF ScanHasReported, ReportedIsLive, KnownIsLive, Replied, IsIn,
                            Matches,
                            statusVars
  <2>5. DetectorGuardsTakeover' /\ StatusIsConsistent' /\ FinishedIsReal'
    BY <1>1, <2>1 DEF DetectorGuardsTakeover, StatusIsConsistent, Detects, FinishedIsReal,
                      statusVars,
                      takeoverVars
  <2>6. QED
    BY <1>3, <2>2, <2>3, <2>4, <2>5
<1>5. CASE list # None /\ Detects
  <2>1. ScanResets(list) /\ Observe(list)
    BY <1>5 DEF TakeReply, ScanResets
  <2>2. /\ live' \subseteq Process /\ done' \in BOOLEAN /\ reported' \subseteq Launch
        /\ done' => live' = {}
        /\ LaunchesAreUnique' /\ ScanHasReported' /\ ReportedIsLive' /\ NoStaleScan'
    BY <1>1, <1>5, <2>1, ObserveKeeps
  <2>3. list \in SUBSET Process /\ KnownIsLive(list)
        /\ (\A r \in running : r.id \in reported => r \in list)
    BY <1>1, <1>5, ReplyFacts
  <2>4. reported' = reported \cup {r.id : r \in New(list)}
    BY <2>1 DEF Observe
  <2>5. \A r \in New(list) : r \in Process /\ r.id \in Launch /\ r.id \notin reported
    BY <2>3, NewIsUnreported DEF Process
  <2>6. takeover' \in Takeover /\ detector' \in Process \cup {None}
        /\ DetectorGuardsTakeover' /\ FinishedIsReal'
        /\ (detector' # None => detector'.id \in reported')
        /\ reactions' \in [Launch -> Nat]
        /\ \A n \in Launch : reactions'[n] <= 1 /\ (reactions'[n] = 1 => n \in reported')
    <3>1. CASE ~sweeper /\ Animates /\ detector = None /\ New(list) # {}
      <4>1. PICK ev \in New(list) :
              /\ detector' = ev
              /\ takeover' = StartTakeover(IF behavior = "demo" THEN "demo" ELSE "single")
              /\ React({ev.id})
        BY <3>1, <2>1 DEF ScanResets
      <4>2. takeover' \in Takeover /\ takeover'.kind \in {"single", "demo"}
            /\ ~takeover'.finished
        BY <4>1, ResetAssumption DEF StartTakeover, Takeover
      <4>3. ev \in Process /\ ev # None /\ ev.id \in reported'
        BY <2>4, <2>5, ResetAssumption
      <4>4. {ev.id} \in SUBSET Launch /\ {ev.id} \cap reported = {}
            /\ {ev.id} \subseteq reported' /\ reported \subseteq reported'
        BY <2>4, <2>5
      <4>5. QED
        BY <4>1, <4>2, <4>3, <4>4, ReactedAtReport DEF DetectorGuardsTakeover, FinishedIsReal
    <3>2. CASE ~(~sweeper /\ Animates /\ detector = None /\ New(list) # {})
      <4>1. /\ takeover' = NoteFinished(takeover, detector, list)
            /\ React(IF sweeper THEN {r.id : r \in New(list)} ELSE {})
            /\ detector' = detector
        BY <3>2, <2>1 DEF ScanResets
      <4>2. PICK ids : ids = IF sweeper THEN {r.id : r \in New(list)} ELSE {}
        OBVIOUS
      <4>3. ids \in SUBSET Launch /\ ids \cap reported = {} /\ ids \subseteq reported'
            /\ reported \subseteq reported' /\ React(ids)
        BY <4>1, <4>2, <2>4, <2>5
      <4>4. takeover \in Takeover /\ detector \in Process \cup {None}
        BY DEF TypeOK
      <4>5. takeover' \in Takeover /\ takeover'.kind = takeover.kind
            /\ (takeover'.finished => takeover.finished \/ ~IsIn(detector, list))
        BY <4>1, <4>4, NoteFinishedFacts
      <4>6. detector \in running => detector \in Process /\ detector # None
        BY ResetAssumption DEF TypeOK
      <4>7. detector \in running => IsIn(detector, list)
        BY <4>6, <2>3 DEF StatusIsConsistent, IsIn, Matches
      <4>8. FinishedIsReal'
        BY <4>1, <4>5, <4>7, <1>1 DEF FinishedIsReal
      <4>9. DetectorGuardsTakeover'
        BY <4>1, <4>5 DEF DetectorGuardsTakeover
      <4>10. detector' # None => detector'.id \in reported'
        BY <4>1, <2>4 DEF StatusIsConsistent
      <4>11. QED
        BY <4>1, <4>3, <4>4, <4>5, <4>8, <4>9, <4>10, ReactedAtReport
    <3>3. QED
      BY <3>1, <3>2
  <2>7. StatusIsConsistent'
    BY <1>1, <2>2, <2>6, <1>5 DEF StatusIsConsistent, Detects
  <2>8. TypeOK'
    BY <1>3a, <2>2, <2>6 DEF TypeOK
  <2>9. QED
    BY <1>3, <2>2, <2>6, <2>7, <2>8
<1>6. QED
  BY <1>4, <1>5

-----------------------------------------------------------------------------
LEMMA StutterPreserves ==
  ASSUME IInv, UNCHANGED vars
  PROVE  IInv'
<1> USE DEF IInv, vars, osVars, workerVars, loopVars, statusVars, takeoverVars
<1>1. TypeOK' /\ OneScanAtATime' /\ NotAskedInVain'
  BY DEF TypeOK, OneScanAtATime, NotAskedInVain
<1>2. QED
  BY <1>1, ScansUntouched, LoopUntouched

LEMMA NextPreserves == IInv /\ [Next]_vars => IInv'
<1> SUFFICES ASSUME IInv, [Next]_vars
             PROVE  IInv'
  OBVIOUS
<1>1. CASE OperatingSystem
  BY <1>1, StartPreserves, EndPreserves DEF OperatingSystem
<1>2. CASE WorkerStep
  BY <1>2, BeginScanPreserves, ReadPidPreserves, FinishScanPreserves, ScanPanicsPreserves,
     WorkerEndsPreserves DEF WorkerStep
<1>3. CASE LoopStep
  BY <1>3, DrawPreserves, InputPreserves, TakeReplyPreserves, NoReplyPreserves,
     AskForScanPreserves DEF LoopStep
<1>4. CASE DoneExpires
  BY <1>4, InputPreserves
<1>5. CASE UNCHANGED vars
  BY <1>5, StutterPreserves
<1>6. QED
  BY <1>1, <1>2, <1>3, <1>4, <1>5 DEF Next

LEMMA Inductive == Safety => []IInv
<1>1. QED
  BY InitEstablishes, NextPreserves, PTL DEF Safety

\* Every variable keeps its type; in particular a demo never runs past its
\* last animation (animation/takeover/demo.rs).
THEOREM WatchTypes == Safety => []TypeOK
<1>1. IInv => TypeOK
  BY DEF IInv
<1>2. QED
  BY <1>1, Inductive, PTL

\* Requests to the scan worker never pile up and the flag that limits them
\* never sticks, whatever the speed of a scan and whatever panics
\* (ui/tui/proc_scan.rs, ScannerHandle).
THEOREM ScansDoNotPileUp == Safety => []OneScanAtATime
<1>1. IInv => OneScanAtATime
  BY DEF IInv
<1>2. QED
  BY <1>1, Inductive, PTL

\* The detector is occupied exactly while a takeover for a real reset is on
\* the screen (ui/tui/reset_status.rs, tick_takeover and
\* apply_takeover_outcome).
THEOREM DetectorIsFreed == Safety => []DetectorGuardsTakeover
<1>1. IInv => DetectorGuardsTakeover
  BY DEF IInv
<1>2. QED
  BY <1>1, Inductive, PTL

\* No takeover winds down and no "done" text appears for a reset that still
\* runs, although scans are read process by process and applied later
\* (workload/reset_detect.rs is_finished, ui/tui/reset_status.rs observe).
THEOREM NoEndIsMadeUp == Safety => []EndsAreReal
<1>1. IInv => EndsAreReal
  BY DEF IInv, FinishedIsReal, StatusIsConsistent, ScanHasReported, IsIn, EndsAreReal
<1>2. QED
  BY <1>1, Inductive, PTL

\* A reset never gets two reactions (ui/tui/reset_status.rs scan_resets).
THEOREM OneReactionPerReset == Safety => []ReactedOnce
<1>1. IInv => ReactedOnce
  BY DEF IInv, StatusIsConsistent, ReactedOnce
<1>2. QED
  BY <1>1, Inductive, PTL

=============================================================================
