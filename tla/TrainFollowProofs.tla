-------------------------- MODULE TrainFollowProofs --------------------------
(***************************************************************************)
(* For any number of pids, processes and log lines: what is drawn of a     *)
(* training run is of one run, and no line of its log is counted twice.    *)
(*                                                                         *)
(* Both rest on what the tailer has read: everything counted since the     *)
(* attachment came from the tailer's file, and lies before the place the   *)
(* next read starts from, be it the offset or, once the file was           *)
(* truncated below it, the start of the file.                              *)
(***************************************************************************)
EXTENDS TrainFollow, FiniteSetTheorems, SequenceTheorems, TLAPS

\* At most one result of the scan waits for update().
OneResult == latest = <<>> \/ \E a \in Candidate \cup {None} : latest = <<a>>

CutIsWritten == \A n \in Launch : cut[n] <= written[n]

\* Without a tailer nothing was read; with one, only its file was.
ReadOneFile ==
  /\ tailer = None => got = <<>>
  /\ tailer # None => \A i \in 1..Len(got) : got[i].launch = tailer.file

\* Either the file was truncated since the last read, behind all that was
\* read, or it still holds what is before the offset.
ReadBehind ==
  tailer # None =>
    \/ \A i \in 1..Len(got) : got[i].line <= cut[tailer.file]
    \/ /\ cut[tailer.file] + tailer.offset <= written[tailer.file]
       /\ \A i \in 1..Len(got) : got[i].line <= cut[tailer.file] + tailer.offset

IInv ==
  /\ TypeOK
  /\ OneResult
  /\ CutIsWritten
  /\ ReadOneFile
  /\ ReadBehind
  /\ LinesOnce
  /\ OneRun

Probe == [loaded : BOOLEAN, age : 0..(RetryScans - 1), start : Launch \cup {Unknown}]
Position == [file : Launch, offset : 0..MaxLines]
LogLine == [launch : Launch, line : 1..MaxLines]

-----------------------------------------------------------------------------
LEMMA NoneIsNoRecord == None \notin Candidate /\ None \notin Position
  BY TrainAssumption DEF Candidate, Position

LEMMA Numbers ==
  /\ MaxLaunches \in Nat /\ MaxLines \in Nat
  /\ Launch \subseteq Nat /\ Unknown \notin Launch
  /\ 0..MaxLines \subseteq Nat /\ 1..MaxLines \subseteq Nat
  BY TrainAssumption DEF Launch, Unknown

LEMMA InitEstablishes == Init => IInv
<1> SUFFICES ASSUME Init
             PROVE  IInv
  OBVIOUS
<1> USE DEF Init
<1>1. TypeOK
  <2>1. /\ owner \in {"arcade", "training"} /\ launches \in 0..MaxLaunches
        /\ 0 \in 0..MaxLines
    BY TrainAssumption
  <2>2. got \in Seq(LogLine)
    BY EmptySeq
  <2>3. QED
    BY <2>1, <2>2 DEF TypeOK, NoList, LogLine
<1>2. OneResult /\ CutIsWritten /\ ReadOneFile /\ ReadBehind /\ LinesOnce /\ OneRun
  BY DEF OneResult, CutIsWritten, ReadOneFile, ReadBehind, LinesOnce, OneRun
<1>3. QED
  BY <1>1, <1>2 DEF IInv

-----------------------------------------------------------------------------
(***************************************************************************)
(* One read of the log.                                                    *)
(***************************************************************************)
LEMMA EmptyRun ==
  ASSUME NEW n
  PROVE  [i \in 1..0 |-> [launch |-> n, line |-> i]] = <<>>
  OBVIOUS

\* The first so many lines of a log, in order.
Lines(n, m) == [i \in 1..m |-> [launch |-> n, line |-> i]]

LEMMA LinesGoOn ==
  ASSUME NEW n \in Launch, NEW m \in 0..MaxLines, NEW k \in Nat, m + k \in 0..MaxLines
  PROVE  Lines(n, m) \o [i \in 1..k |-> [launch |-> n, line |-> m + i]] = Lines(n, m + k)
<1> DEFINE old == Lines(n, m)
           new == [i \in 1..k |-> [launch |-> n, line |-> m + i]]
           all == Lines(n, m + k)
<1>1. m \in Nat /\ m + k \in Nat /\ m + k <= MaxLines
  BY Numbers
<1>2. old \in Seq(LogLine) /\ Len(old) = m
  <2>1. \A i \in 1..m : [launch |-> n, line |-> i] \in LogLine
    BY <1>1, Numbers DEF LogLine
  <2>2. old \in [1..m -> LogLine]
    BY <2>1 DEF Lines
  <2>3. QED
    BY <1>1, <2>2
<1>3. new \in Seq(LogLine) /\ Len(new) = k
  <2>1. \A i \in 1..k : [launch |-> n, line |-> m + i] \in LogLine
    BY <1>1, Numbers DEF LogLine
  <2>2. new \in [1..k -> LogLine]
    BY <2>1
  <2>3. QED
    BY <2>2
<1>4. all \in Seq(LogLine) /\ Len(all) = m + k
  <2>1. \A i \in 1..(m + k) : [launch |-> n, line |-> i] \in LogLine
    BY <1>1, Numbers DEF LogLine
  <2>2. all \in [1..(m + k) -> LogLine]
    BY <2>1 DEF Lines
  <2>3. QED
    BY <1>1, <2>2
<1>5. \A i \in 1..m : old[i] = [launch |-> n, line |-> i]
  BY DEF Lines
<1>6. \A i \in 1..k : new[i] = [launch |-> n, line |-> m + i]
  OBVIOUS
<1>7. \A i \in 1..(m + k) : all[i] = [launch |-> n, line |-> i]
  BY DEF Lines
<1> HIDE DEF old, new, all
<1>8. /\ old \o new \in Seq(LogLine)
      /\ Len(old \o new) = m + k
      /\ \A i \in 1..(m + k) : (old \o new)[i] = IF i <= m THEN old[i] ELSE new[i - m]
  BY <1>2, <1>3, ConcatProperties
<1>9. \A i \in 1..(m + k) : (old \o new)[i] = all[i]
  <2> TAKE i \in 1..(m + k)
  <2>1. CASE i <= m
    <3>1. i \in 1..m
      BY <1>1, <2>1
    <3>2. QED
      BY <1>5, <1>7, <1>8, <2>1, <3>1
  <2>2. CASE ~(i <= m)
    <3>1. i - m \in 1..k /\ m + (i - m) = i
      BY <1>1, <2>2
    <3>2. QED
      BY <1>6, <1>7, <1>8, <2>2, <3>1
  <2>3. QED
    BY <2>1, <2>2
<1>10. old \o new = all
  BY <1>4, <1>8, <1>9, SeqEqual
<1>11. QED
  BY <1>10 DEF old, new, all

\* What one read adds comes after all that was read, whether or not the file
\* was truncated in between, and leaves the offset at the end of the file.
LEMMA ReadFollowsOn ==
  ASSUME IInv, tailer # None, ReadNew
  PROVE  LET n == tailer.file IN
         /\ got' \in Seq(LogLine)
         /\ tailer' \in Position /\ tailer'.file = n
         /\ cut[n] + tailer'.offset = written[n]
         /\ \A i \in 1..Len(got') : got'[i].launch = n /\ got'[i].line <= written[n]
         /\ \A i, j \in 1..Len(got') : i < j => got'[i].line < got'[j].line
         /\ anchor' \in {anchor, attached}
         /\ cut[n] = 0 /\ got = Lines(n, tailer.offset) => got' = Lines(n, tailer'.offset)
<1> DEFINE n == tailer.file
           len == written[n] - cut[n]
           from == IF len < tailer.offset THEN 0 ELSE tailer.offset
           new == [i \in 1..(len - from) |-> [launch |-> n, line |-> cut[n] + from + i]]
<1>1. /\ n \in Launch /\ tailer.offset \in 0..MaxLines /\ tailer.offset <= written[n]
      /\ written[n] \in 0..MaxLines /\ cut[n] \in 0..MaxLines /\ cut[n] <= written[n]
      /\ got \in Seq(LogLine) /\ tailer \in Position
  BY DEF IInv, TypeOK, Position, LogLine, CutIsWritten
<1>2. /\ got' = got \o new
      /\ tailer' = [tailer EXCEPT !.offset = len]
      /\ anchor' = IF new # <<>> THEN attached ELSE anchor
  BY DEF ReadNew
<1>3. /\ len \in 0..MaxLines /\ from \in 0..MaxLines /\ len - from \in Nat
      /\ cut[n] + len = written[n] /\ from <= len
      /\ cut[n] \in Nat /\ written[n] \in Nat /\ len \in Nat /\ from \in Nat
      /\ written[n] <= MaxLines /\ MaxLines \in Nat
  BY <1>1, Numbers
<1>4. \A i \in 1..Len(got) :
        got[i].launch = n /\ got[i].line \in Nat /\ got[i].line <= written[n]
                          /\ got[i].line <= cut[n] + from
  <2> TAKE i \in 1..Len(got)
  <2> DEFINE line == got[i].line
  <2>1. got[i].launch = n /\ line \in 1..MaxLines
    <3>1. got[i] \in LogLine
      BY <1>1, ElementOfSeq
    <3>2. QED
      BY <3>1 DEF IInv, ReadOneFile, LogLine
  <2>2. \/ line <= cut[n]
        \/ cut[n] + tailer.offset <= written[n] /\ line <= cut[n] + tailer.offset
    BY DEF IInv, ReadBehind
  <2> HIDE DEF line
  <2>3. line <= written[n] /\ line <= cut[n] + from
    <3>1. line \in Nat /\ tailer.offset \in Nat
      BY <1>1, <2>1, Numbers
    <3>2. CASE len < tailer.offset
      <4>1. from = 0 /\ ~(cut[n] + tailer.offset <= written[n])
        BY <1>1, <1>3, <3>1, <3>2
      <4>2. QED
        BY <1>1, <1>3, <2>2, <3>1, <4>1
    <3>3. CASE ~(len < tailer.offset)
      <4>1. from = tailer.offset
        BY <3>3
      <4>2. QED
        BY <1>1, <1>3, <2>2, <3>1, <4>1
    <3>4. QED
      BY <3>2, <3>3
  <2>4. QED
    BY <2>1, <2>3, Numbers DEF line
<1>5. /\ \A i \in 1..(len - from) :
           /\ new[i] = [launch |-> n, line |-> cut[n] + from + i]
           /\ new[i] \in LogLine
           /\ new[i].launch = n /\ new[i].line = cut[n] + from + i
           /\ cut[n] + from + i <= written[n]
      /\ new \in Seq(LogLine) /\ Len(new) = len - from
  <2> HIDE DEF len, from
  <2>1. ASSUME NEW i \in 1..(len - from)
        PROVE  cut[n] + from + i \in 1..MaxLines /\ cut[n] + from + i <= written[n]
    BY <1>1, <1>3
  <2>2. \A i \in 1..(len - from) : [launch |-> n, line |-> cut[n] + from + i] \in LogLine
    BY <1>1, <2>1 DEF LogLine
  <2>3. new \in [1..(len - from) -> LogLine]
    BY <2>2
  <2>4. new \in Seq(LogLine) /\ Len(new) = len - from
    <3> DEFINE k == len - from
    <3>1. k \in Nat /\ new \in [1..k -> LogLine]
      BY <1>3, <2>3
    <3> HIDE DEF k, new
    <3>2. new \in Seq(LogLine) /\ Len(new) = k
      BY <3>1
    <3>3. QED
      BY <3>2 DEF k
  <2>5. QED
    BY <2>1, <2>2, <2>4
<1> HIDE DEF new, len, from
<1>6. /\ got \o new \in Seq(LogLine)
      /\ Len(got \o new) = Len(got) + Len(new)
      /\ \A i \in 1..(Len(got) + Len(new)) :
           (got \o new)[i] = IF i <= Len(got) THEN got[i] ELSE new[i - Len(got)]
  BY <1>1, <1>5, ConcatProperties
<1>7. Len(got) \in Nat
  BY <1>1, LenProperties
<1>8. \A i \in 1..Len(got') :
        \/ i \in 1..Len(got) /\ got'[i] = got[i]
        \/ i - Len(got) \in 1..(len - from) /\ got'[i] = new[i - Len(got)]
  <2> TAKE i \in 1..Len(got')
  <2>1. i \in 1..(Len(got) + (len - from))
    BY <1>2, <1>5, <1>6
  <2>2. QED
    BY <1>2, <1>3, <1>5, <1>6, <1>7, <2>1
<1>9. \A i \in 1..Len(got') : got'[i].launch = n /\ got'[i].line <= written[n]
  BY <1>4, <1>5, <1>8
<1>10. ASSUME NEW i \in 1..Len(got'), NEW j \in 1..Len(got'), i < j
       PROVE  got'[i].line < got'[j].line
  <2>1. i \in Nat /\ j \in Nat
    BY <1>2, <1>6
  <2>2. CASE j \in 1..Len(got) /\ got'[j] = got[j]
    <3>1. i \in 1..Len(got) /\ got'[i] = got[i]
      BY <1>2, <1>6, <1>7, <1>10, <2>1, <2>2
    <3>2. QED
      BY <1>10, <2>2, <3>1 DEF IInv, LinesOnce
  <2>3. CASE j - Len(got) \in 1..(len - from) /\ got'[j] = new[j - Len(got)]
    <3>1. got'[j].line = cut[n] + from + (j - Len(got))
      BY <1>5, <2>3
    <3>2. CASE i \in 1..Len(got) /\ got'[i] = got[i]
      <4>1. got'[i].line \in Nat /\ got'[i].line <= cut[n] + from
        BY <1>4, <3>2
      <4>2. j - Len(got) >= 1 /\ j - Len(got) \in Int
        BY <1>3, <1>7, <2>1, <2>3
      <4> DEFINE place == cut[n] + from
                 first == got'[i].line
                 step == j - Len(got)
      <4>3. place \in Nat
        BY <1>3
      <4>4. first \in Nat /\ first <= place
        BY <4>1
      <4>5. step \in Int /\ step >= 1
        BY <4>2
      <4>6. got'[j].line = place + step
        BY <3>1
      <4> HIDE DEF place, first, step
      <4>7. first < place + step
        BY <4>3, <4>4, <4>5
      <4>8. QED
        BY <4>6, <4>7 DEF first
    <3>3. CASE i - Len(got) \in 1..(len - from) /\ got'[i] = new[i - Len(got)]
      <4>1. got'[i].line = cut[n] + from + (i - Len(got))
        BY <1>5, <3>3
      <4>2. QED
        BY <1>3, <1>7, <1>10, <2>1, <3>1, <4>1
    <3>4. QED
      BY <1>8, <3>2, <3>3
  <2>4. QED
    BY <1>8, <2>2, <2>3
<1>11. tailer' \in Position /\ tailer'.file = n /\ tailer'.offset = len
  BY <1>1, <1>2, <1>3 DEF Position
<1>12. ASSUME cut[n] = 0, got = Lines(n, tailer.offset)
       PROVE  got' = Lines(n, len)
  <2>1. from = tailer.offset /\ from + (len - from) = len
    BY <1>1, <1>3, <1>12, Numbers DEF from, len
  <2>2. new = [i \in 1..(len - from) |-> [launch |-> n, line |-> from + i]]
    BY <1>3, <1>12 DEF new
  <2>3. Lines(n, from) \o new = Lines(n, from + (len - from))
    BY <1>1, <1>3, <2>1, <2>2, LinesGoOn
  <2>4. QED
    BY <1>2, <1>12, <2>1, <2>3
<1>13. QED
  BY <1>2, <1>3, <1>6, <1>9, <1>10, <1>11, <1>12

-----------------------------------------------------------------------------
(***************************************************************************)
(* What the steps do to the monitor.                                       *)
(***************************************************************************)
\* A log grows or is truncated; nothing else about the past of a log changes.
LogsOnlyGrow ==
  \A n \in Launch :
    /\ written[n] <= written'[n]
    /\ cut'[n] = cut[n] \/ (cut[n] < written[n] /\ cut'[n] = written[n] /\ written'[n] = written[n])

LEMMA OthersKeepTheRun ==
  ASSUME IInv, TypeOK', OneResult', LogsOnlyGrow, UNCHANGED monitorVars
  PROVE  IInv'
<1>1. /\ attached' = attached /\ log' = log /\ tailer' = tailer /\ got' = got /\ anchor' = anchor
  BY DEF monitorVars
<1>2. \A n \in Launch : /\ written[n] \in Nat /\ cut[n] \in Nat /\ cut[n] <= written[n]
                        /\ written'[n] \in Nat /\ cut'[n] \in Nat
  BY Numbers DEF IInv, TypeOK, CutIsWritten
<1>3. CutIsWritten'
  BY <1>2 DEF CutIsWritten, LogsOnlyGrow
<1>4. ReadOneFile' /\ OneRun'
  BY <1>1 DEF IInv, ReadOneFile, OneRun
<1>5. ReadBehind'
  <2> SUFFICES ASSUME tailer # None
               PROVE  LET n == tailer.file IN
                      \/ \A i \in 1..Len(got) : got[i].line <= cut'[n]
                      \/ /\ cut'[n] + tailer.offset <= written'[n]
                         /\ \A i \in 1..Len(got) : got[i].line <= cut'[n] + tailer.offset
    BY <1>1 DEF ReadBehind
  <2> DEFINE n == tailer.file
  <2>1. n \in Launch /\ tailer.offset \in Nat
    BY Numbers DEF IInv, TypeOK
  <2>2. \A i \in 1..Len(got) : got[i].line \in Nat
    <3>1. got \in Seq(LogLine)
      BY DEF IInv, TypeOK, LogLine
    <3>2. \A i \in 1..Len(got) : got[i] \in LogLine
      BY <3>1, ElementOfSeq
    <3>3. QED
      BY <3>2, Numbers DEF LogLine
  <2>3. \/ \A i \in 1..Len(got) : got[i].line <= cut[n]
        \/ /\ cut[n] + tailer.offset <= written[n]
           /\ \A i \in 1..Len(got) : got[i].line <= cut[n] + tailer.offset
    BY DEF IInv, ReadBehind
  <2> HIDE DEF n
  <2>4. \A i \in 1..Len(got) : got[i].line <= written[n]
    <3> TAKE i \in 1..Len(got)
    <3> DEFINE line == got[i].line
    <3>1. line \in Nat /\ (line <= cut[n] \/ (cut[n] + tailer.offset <= written[n]
                                               /\ line <= cut[n] + tailer.offset))
      BY <2>2, <2>3
    <3> HIDE DEF line
    <3>2. line <= written[n]
      BY <1>2, <2>1, <3>1
    <3>3. QED
      BY <3>2 DEF line
  <2>5. CASE cut'[n] = cut[n]
    <3>1. cut[n] + tailer.offset <= written[n] => cut[n] + tailer.offset <= written'[n]
      BY <1>2, <2>1 DEF LogsOnlyGrow
    <3>2. QED
      BY <2>3, <2>5, <3>1 DEF n
  <2>6. CASE cut'[n] = written[n]
    BY <2>4, <2>6 DEF n
  <2>7. QED
    BY <2>1, <2>5, <2>6 DEF LogsOnlyGrow
<1>6. LinesOnce'
  <2>1. log # Unknown /\ cut'[log] = 0 => cut[log] = 0
    <3>1. log # Unknown => log \in Launch
      BY DEF IInv, TypeOK
    <3>2. QED
      BY <1>2, <3>1 DEF LogsOnlyGrow
  <2>2. QED
    BY <1>1, <2>1 DEF IInv, LinesOnce
<1>7. QED
  BY <1>3, <1>4, <1>5, <1>6 DEF IInv

\* The loop's own variables and the monitor's keep their types.
LoopTyped == onScreen' \in BOOLEAN /\ polling' \in BOOLEAN /\ OneResult'

LEMMA MonitorTypes ==
  ASSUME TypeOK, UNCHANGED <<osVars, scanVars>>, LoopTyped,
         attached' \in Candidate \cup {None}, log' \in Launch \cup {Unknown},
         tailer' \in Position \cup {None}, got' \in Seq(LogLine),
         anchor' \in Candidate \cup {None},
         tailer' # None => tailer'.offset <= written[tailer'.file]
  PROVE  TypeOK'
<1>1. UNCHANGED <<owner, proc, kind, ttml, toFile, written, cut, launches,
                  scan, list, probes, answer>>
  BY DEF osVars, scanVars
<1>2. latest' = <<>> \/ latest'[1] \in Candidate \cup {None}
  BY DEF LoopTyped, OneResult
<1>3. QED
  BY <1>1, <1>2 DEF TypeOK, LoopTyped, Position, LogLine

LEMMA AttachPreserves ==
  ASSUME IInv, NEW p \in Candidate, NEW old \in {tailer, None}, Attach(p, old),
         UNCHANGED <<osVars, scanVars>>, LoopTyped
  PROVE  IInv'
<1>1. /\ log' = DiscoverLog(p.pid)
      /\ tailer' = IF log' # Unknown THEN [file |-> log', offset |-> 0] ELSE old
      /\ got' = <<>> /\ anchor' = None /\ attached' = p
  BY DEF Attach, ResetRunAnchors
<1>2. UNCHANGED <<written, cut>>
  BY DEF osVars
<1>3. log' \in Launch \cup {Unknown}
  <2>1. p.pid \in Pid
    BY DEF Candidate
  <2>2. QED
    BY <1>1, <2>1 DEF DiscoverLog, IInv, TypeOK
<1>4. /\ tailer' \in Position \cup {None}
      /\ tailer' # None => tailer'.offset <= written[tailer'.file]
  <2>1. CASE log' = Unknown
    BY <1>1, <2>1 DEF IInv, TypeOK, Position
  <2>2. CASE log' # Unknown
    <3>1. /\ log' \in Launch /\ 0 \in 0..MaxLines /\ written[log'] \in Nat
          /\ tailer' = [file |-> log', offset |-> 0]
      BY <1>1, <1>3, <2>2, Numbers DEF IInv, TypeOK
    <3>2. QED
      BY <3>1 DEF Position
  <2>3. QED
    BY <2>1, <2>2
<1>5. TypeOK'
  BY <1>1, <1>3, <1>4, MonitorTypes, EmptySeq DEF IInv
<1>6. Len(got') = 0
  BY <1>1, EmptySeq
<1>7. ReadOneFile' /\ ReadBehind' /\ CutIsWritten'
  BY <1>1, <1>2, <1>6 DEF IInv, ReadOneFile, ReadBehind, CutIsWritten
<1>8. LinesOnce'
  <2>1. log' # Unknown => tailer'.file = log' /\ tailer'.offset = 0
    BY <1>1
  <2>2. log' # Unknown => got' = [i \in 1..tailer'.offset |-> [launch |-> log', line |-> i]]
    BY <1>1, <2>1, EmptyRun
  <2>3. QED
    BY <1>6, <2>1, <2>2 DEF LinesOnce
<1>9. OneRun'
  BY <1>1, <1>6, NoneIsNoRecord DEF OneRun
<1>10. QED
  BY <1>5, <1>7, <1>8, <1>9 DEF IInv, LoopTyped

LEMMA DetachPreserves ==
  ASSUME IInv, Detach, UNCHANGED <<osVars, scanVars>>, LoopTyped
  PROVE  IInv'
<1>1. /\ attached' = None /\ log' = Unknown /\ got' = <<>> /\ anchor' = None /\ tailer' = None
  BY DEF Detach, ResetRunAnchors
<1>2. UNCHANGED <<written, cut>>
  BY DEF osVars
<1>3. TypeOK'
  BY <1>1, MonitorTypes, EmptySeq DEF IInv
<1>4. ReadOneFile' /\ ReadBehind' /\ CutIsWritten' /\ LinesOnce' /\ OneRun'
  BY <1>1, <1>2 DEF IInv, ReadOneFile, ReadBehind, CutIsWritten, LinesOnce, OneRun
<1>5. QED
  BY <1>3, <1>4 DEF IInv, LoopTyped

LEMMA MonitorStays ==
  ASSUME IInv, UNCHANGED monitorVars, UNCHANGED <<osVars, scanVars>>, LoopTyped
  PROVE  IInv'
<1>1. /\ attached' = attached /\ log' = log /\ tailer' = tailer /\ got' = got /\ anchor' = anchor
  BY DEF monitorVars
<1>2. UNCHANGED <<written, cut>>
  BY DEF osVars
<1>3. TypeOK'
  BY <1>1, MonitorTypes DEF IInv, TypeOK, Position, LogLine
<1>4. ReadOneFile' /\ ReadBehind' /\ CutIsWritten' /\ LinesOnce' /\ OneRun'
  BY <1>1, <1>2 DEF IInv, ReadOneFile, ReadBehind, CutIsWritten, LinesOnce, OneRun
<1>5. QED
  BY <1>3, <1>4 DEF IInv, LoopTyped

LEMMA IngestPreserves ==
  ASSUME IInv, Ingest, UNCHANGED <<osVars, scanVars>>, LoopTyped
  PROVE  IInv'
<1>1. CASE tailer = None
  BY <1>1, MonitorStays DEF Ingest, monitorVars
<1>2. CASE tailer # None
  <2> DEFINE n == tailer.file
  <2>1. /\ got' \in Seq(LogLine)
        /\ tailer' \in Position /\ tailer'.file = n
        /\ cut[n] + tailer'.offset = written[n]
        /\ \A i \in 1..Len(got') : got'[i].launch = n /\ got'[i].line <= written[n]
        /\ \A i, j \in 1..Len(got') : i < j => got'[i].line < got'[j].line
        /\ anchor' \in {anchor, attached}
        /\ cut[n] = 0 /\ got = Lines(n, tailer.offset) => got' = Lines(n, tailer'.offset)
    BY <1>2, ReadFollowsOn DEF Ingest
  <2>2. attached' = attached /\ log' = log /\ UNCHANGED <<written, cut>>
    BY DEF Ingest, osVars
  <2>3. n \in Launch /\ cut[n] \in Nat /\ written[n] \in Nat /\ tailer'.offset \in Nat
    BY <1>2, <2>1, Numbers DEF IInv, TypeOK, Position
  <2>4. tailer'.offset <= written[n]
    BY <2>1, <2>3
  <2>5. tailer' # None
    BY <2>1, NoneIsNoRecord
  <2>6. attached # None /\ anchor' \in {None, attached} /\ anchor' \in Candidate \cup {None}
    BY <1>2, <2>1 DEF IInv, OneRun, TypeOK
  <2>7. TypeOK'
    BY <2>1, <2>2, <2>4, <2>6, MonitorTypes DEF IInv, TypeOK
  <2> HIDE DEF n
  <2>8. ReadOneFile' /\ CutIsWritten'
    BY <2>1, <2>2, <2>5 DEF IInv, ReadOneFile, CutIsWritten
  <2>9. ReadBehind'
    <3>1. /\ cut'[tailer'.file] + tailer'.offset <= written'[tailer'.file]
          /\ \A i \in 1..Len(got') : got'[i].line <= cut'[tailer'.file] + tailer'.offset
      BY <2>1, <2>2, <2>3
    <3>2. QED
      BY <3>1 DEF ReadBehind
  <2>10. LinesOnce'
    <3>1. ASSUME log # Unknown, cut[log] = 0
          PROVE  log = n /\ got' = Lines(log, tailer'.offset)
      <4>1. log = tailer.file /\ got = Lines(log, tailer.offset)
        BY <1>2, <3>1 DEF IInv, LinesOnce, Lines
      <4>2. QED
        BY <2>1, <3>1, <4>1 DEF n
    <3>2. QED
      BY <2>1, <2>2, <3>1 DEF LinesOnce, Lines
  <2>11. OneRun'
    BY <2>1, <2>2, <2>6 DEF OneRun
  <2>12. QED
    BY <2>7, <2>8, <2>9, <2>10, <2>11 DEF IInv, LoopTyped
<1>3. QED
  BY <1>1, <1>2

-----------------------------------------------------------------------------
(***************************************************************************)
(* The steps of the system and of the scan, which leave the monitor alone. *)
(***************************************************************************)
\* The bound on the lines of a behaviour is one on each log.
LEMMA RoomForALine ==
  ASSUME IInv, NEW n \in Launch,
         Cardinality({w \in Launch \X (1..MaxLines) : w[2] <= written[w[1]]}) < MaxLines
  PROVE  written[n] + 1 \in 0..MaxLines
<1> DEFINE all == {w \in Launch \X (1..MaxLines) : w[2] <= written[w[1]]}
           f == [i \in 1..MaxLines |-> <<n, i>>]
<1>1. written[n] \in 0..MaxLines /\ MaxLines \in Nat
  BY Numbers DEF IInv, TypeOK
<1>2. SUFFICES ASSUME written[n] = MaxLines
               PROVE  FALSE
  BY <1>1
<1>3. /\ IsFiniteSet(1..MaxLines)
      /\ Cardinality(1..MaxLines) = MaxLines
      /\ IsFiniteSet(1..MaxLaunches)
  BY FS_Interval, TrainAssumption
<1>4. IsFiniteSet(all)
  <2>1. IsFiniteSet(Launch \X (1..MaxLines))
    BY <1>3, FS_Product DEF Launch
  <2>2. all \subseteq Launch \X (1..MaxLines)
    OBVIOUS
  <2>3. QED
    BY <2>1, <2>2, FS_Subset
<1>5. f \in Injection(1..MaxLines, all)
  <2>1. \A i \in 1..MaxLines : <<n, i>> \in all
    BY <1>1, <1>2
  <2>2. \A i, j \in 1..MaxLines : f[i] = f[j] => i = j
    OBVIOUS
  <2>3. QED
    BY <2>1, <2>2 DEF Injection, IsInjective
<1>6. Cardinality(1..MaxLines) <= Cardinality(all)
  BY <1>4, <1>5, FS_Injection
<1>7. Cardinality(all) \in Nat
  BY <1>4, FS_CardinalityType
<1> HIDE DEF all
<1>8. Cardinality(all) < MaxLines
  BY DEF all
<1>9. QED
  BY <1>1, <1>3, <1>6, <1>7, <1>8

LEMMA LogsUnchanged ==
  ASSUME IInv, UNCHANGED <<written, cut>>
  PROVE  LogsOnlyGrow
<1>1. \A n \in Launch : written[n] \in Nat
  BY Numbers DEF IInv, TypeOK
<1>2. QED
  BY <1>1 DEF LogsOnlyGrow

LEMMA SystemPreserves ==
  ASSUME IInv,
         \/ \E p \in Pid : Start(p) \/ End(p)
         \/ \E n \in Launch : Import(n) \/ Write(n) \/ Truncate(n)
  PROVE  IInv'
<1> USE DEF scanVars, loopVars
<1>1. ASSUME NEW p \in Pid, Start(p)
      PROVE  IInv'
  <2>1. launches' \in 1..MaxLaunches
    BY <1>1, TrainAssumption DEF Start, IInv, TypeOK
  <2>2. launches' \in Launch /\ launches' \in 0..MaxLaunches
    BY <2>1, TrainAssumption DEF Launch
  <2>3. \A k \in Kinds : k \in {"compiled", "python", "other"}
    BY TrainAssumption
  <2>4. TypeOK'
    BY <1>1, <2>2, <2>3 DEF Start, IInv, TypeOK, monitorVars
  <2>5. OneResult' /\ LogsOnlyGrow
    BY <1>1, LogsUnchanged DEF Start, IInv, OneResult
  <2>6. QED
    BY <1>1, <2>4, <2>5, OthersKeepTheRun DEF Start
<1>2. ASSUME NEW p \in Pid, End(p)
      PROVE  IInv'
  <2>1. TypeOK'
    BY <1>2 DEF End, IInv, TypeOK, monitorVars
  <2>2. OneResult' /\ LogsOnlyGrow
    BY <1>2, LogsUnchanged DEF End, IInv, OneResult
  <2>3. QED
    BY <1>2, <2>1, <2>2, OthersKeepTheRun DEF End
<1>3. ASSUME NEW n \in Launch, Import(n)
      PROVE  IInv'
  <2>1. TypeOK'
    BY <1>3 DEF Import, IInv, TypeOK, monitorVars
  <2>2. OneResult' /\ LogsOnlyGrow
    BY <1>3, LogsUnchanged DEF Import, IInv, OneResult
  <2>3. QED
    BY <1>3, <2>1, <2>2, OthersKeepTheRun DEF Import
<1>4. ASSUME NEW n \in Launch, Write(n)
      PROVE  IInv'
  <2>1. written[n] + 1 \in 0..MaxLines
    BY <1>4, RoomForALine DEF Write
  <2>2. /\ written' = [written EXCEPT ![n] = written[n] + 1]
        /\ UNCHANGED <<owner, proc, kind, ttml, toFile, cut, launches, scanVars, loopVars>>
        /\ UNCHANGED monitorVars
    BY <1>4 DEF Write
  <2>3. /\ written \in [Launch -> 0..MaxLines]
        /\ \A m \in Launch : written[m] \in Nat
    BY Numbers DEF IInv, TypeOK
  <2>4. written' \in [Launch -> 0..MaxLines] /\ \A m \in Launch : written[m] <= written'[m]
    BY <2>1, <2>2, <2>3
  <2>5. TypeOK'
    <3>1. tailer # None => tailer.offset <= written'[tailer.file]
      <4>1. tailer # None => /\ tailer.file \in Launch /\ tailer.offset \in Nat
                             /\ tailer.offset <= written[tailer.file]
        BY Numbers DEF IInv, TypeOK
      <4>2. \A m \in Launch : written'[m] \in Nat
        BY <2>4, Numbers
      <4> DEFINE o == tailer.offset
                 f == tailer.file
      <4> HIDE DEF o, f
      <4>3. f \in Launch /\ o \in Nat /\ o <= written[f] => o <= written'[f]
        BY <2>3, <2>4, <4>2
      <4>4. QED
        BY <4>1, <4>3 DEF o, f
    <3>2. QED
      BY <2>2, <2>4, <3>1 DEF IInv, TypeOK, monitorVars
  <2>6. OneResult' /\ LogsOnlyGrow
    BY <2>2, <2>4 DEF IInv, OneResult, LogsOnlyGrow
  <2>7. QED
    BY <2>2, <2>5, <2>6, OthersKeepTheRun
<1>5. ASSUME NEW n \in Launch, Truncate(n)
      PROVE  IInv'
  <2>1. /\ cut' = [cut EXCEPT ![n] = written[n]]
        /\ cut[n] < written[n]
        /\ UNCHANGED <<owner, proc, kind, ttml, toFile, written, launches, scanVars, loopVars>>
        /\ UNCHANGED monitorVars
    BY <1>5 DEF Truncate
  <2>2. /\ written \in [Launch -> 0..MaxLines] /\ cut \in [Launch -> 0..MaxLines]
        /\ \A m \in Launch : written[m] \in Nat
    BY Numbers DEF IInv, TypeOK
  <2>3. /\ cut' \in [Launch -> 0..MaxLines]
        /\ \A m \in Launch : cut'[m] = IF m = n THEN written[n] ELSE cut[m]
    BY <2>1, <2>2
  <2>4. TypeOK'
    BY <2>1, <2>3 DEF IInv, TypeOK, monitorVars
  <2>5. OneResult' /\ LogsOnlyGrow
    BY <2>1, <2>2, <2>3 DEF IInv, OneResult, LogsOnlyGrow
  <2>6. QED
    BY <2>1, <2>4, <2>5, OthersKeepTheRun
<1>6. QED
  BY <1>1, <1>2, <1>3, <1>4, <1>5

\* What the finder remembers of a pid keeps its type over a scan.
LEMMA ProbesTyped ==
  ASSUME TypeOK, NEW reached
  PROVE  ProbesAfter(reached) \in [Pid -> Probe \cup {None}]
<1>1. SUFFICES ASSUME NEW p \in Pid
               PROVE  ProbesAfter(reached)[p] \in Probe \cup {None}
  BY DEF ProbesAfter
<1>2. RetryScans \in Nat \ {0} /\ 0 \in 0..(RetryScans - 1)
  BY TrainAssumption
<1>3. probes[p] \in Probe \cup {None} /\ proc[p] \in Launch \cup {Unknown}
  BY DEF TypeOK, Probe
<1>4. CASE p \notin Listed
  BY <1>4 DEF ProbesAfter
<1>5. CASE p \in Listed /\ p \in reached /\ IsPython(p) /\ ~Cached(p)
  <2>1. ProbesAfter(reached)[p] = [loaded |-> proc[p] \in ttml, age |-> 0, start |-> proc[p]]
    BY <1>5 DEF ProbesAfter
  <2>2. QED
    BY <1>2, <1>3, <2>1 DEF Probe
<1>6. CASE /\ p \in Listed /\ ~(p \in reached /\ IsPython(p) /\ ~Cached(p))
           /\ probes[p] = None \/ probes[p].loaded
  BY <1>3, <1>6 DEF ProbesAfter
<1>7. CASE /\ p \in Listed /\ ~(p \in reached /\ IsPython(p) /\ ~Cached(p))
           /\ ~(probes[p] = None \/ probes[p].loaded)
  <2> DEFINE older == IF probes[p].age + 1 < RetryScans THEN probes[p].age + 1 ELSE probes[p].age
  <2>1. ProbesAfter(reached)[p] = [probes[p] EXCEPT !.age = older]
    BY <1>7 DEF ProbesAfter
  <2>2. probes[p] \in Probe /\ probes[p].age \in 0..(RetryScans - 1)
    BY <1>3, <1>7 DEF Probe
  <2>3. older \in 0..(RetryScans - 1)
    BY <1>2, <2>2
  <2> HIDE DEF older
  <2>4. QED
    BY <2>1, <2>2, <2>3 DEF Probe
<1>8. QED
  BY <1>4, <1>5, <1>6, <1>7

LEMMA ScanPreserves ==
  ASSUME IInv, \/ AskForTrainer \/ TakeList \/ Find \/ TakeResult \/ ChangeView
  PROVE  IInv'
<1> USE DEF osVars
<1>1. CASE AskForTrainer
  <2>1. TypeOK' /\ OneResult' /\ LogsOnlyGrow
    BY <1>1, LogsUnchanged DEF AskForTrainer, IInv, TypeOK, OneResult, monitorVars, loopVars
  <2>2. QED
    BY <1>1, <2>1, OthersKeepTheRun DEF AskForTrainer
<1>2. CASE TakeList
  <2>1. TypeOK' /\ OneResult' /\ LogsOnlyGrow
    BY <1>2, LogsUnchanged DEF TakeList, IInv, TypeOK, OneResult, monitorVars, loopVars
  <2>2. QED
    BY <1>2, <2>1, OthersKeepTheRun DEF TakeList
<1>3. CASE Find
  <2>1. /\ answer' \in Candidate \cup {None}
        /\ probes' \in [Pid -> Probe \cup {None}]
    <3> DEFINE found == {p \in Listed : Matches(p)}
    <3>1. CASE found = {}
      BY <1>3, <3>1, ProbesTyped DEF Find, IInv
    <3>2. CASE found # {}
      <4>1. PICK p \in found, before \in SUBSET (Listed \ found) :
              /\ answer' = [pid |-> p, start |-> proc[p]]
              /\ probes' = ProbesAfter(before \cup {p})
        BY <1>3, <3>2 DEF Find
      <4>2. p \in Pid /\ proc[p] \in Launch \cup {Unknown}
        BY DEF Listed, IInv, TypeOK
      <4>3. QED
        BY <4>1, <4>2, ProbesTyped DEF Candidate, IInv
    <3>3. QED
      BY <3>1, <3>2
  <2>2. /\ scan' = "answered" /\ list' = NoList
        /\ UNCHANGED <<osVars, loopVars, monitorVars>>
    BY <1>3 DEF Find
  <2>3. list' \in [Pid -> Launch \cup {Unknown}]
    BY <2>2 DEF NoList
  <2>4. TypeOK'
    BY <2>1, <2>2, <2>3 DEF IInv, TypeOK, Probe, monitorVars, loopVars
  <2>5. OneResult' /\ LogsOnlyGrow
    BY <2>2, LogsUnchanged DEF IInv, OneResult, loopVars
  <2>6. QED
    BY <2>2, <2>4, <2>5, OthersKeepTheRun
<1>4. CASE TakeResult
  <2>1. /\ scan' = "idle" /\ latest' = <<answer>> /\ answer' = None
        /\ UNCHANGED <<osVars, list, probes, onScreen, polling, monitorVars>>
        /\ answer \in Candidate \cup {None}
    BY <1>4 DEF TakeResult, IInv, TypeOK
  <2>2. OneResult' /\ latest'[1] \in Candidate \cup {None}
    BY <2>1 DEF OneResult
  <2>3. TypeOK'
    BY <2>1, <2>2 DEF IInv, TypeOK, monitorVars
  <2>4. LogsOnlyGrow
    BY <2>1, LogsUnchanged
  <2>5. QED
    BY <2>1, <2>2, <2>3, <2>4, OthersKeepTheRun
<1>5. CASE ChangeView
  <2>1. TypeOK' /\ OneResult' /\ LogsOnlyGrow
    BY <1>5, LogsUnchanged DEF ChangeView, IInv, TypeOK, OneResult, monitorVars, scanVars
  <2>2. QED
    BY <1>5, <2>1, OthersKeepTheRun DEF ChangeView
<1>6. QED
  BY <1>1, <1>2, <1>3, <1>4, <1>5

-----------------------------------------------------------------------------
(***************************************************************************)
(* The loop thread.                                                        *)
(***************************************************************************)
LEMMA UpdatePreserves ==
  ASSUME IInv, Update
  PROVE  IInv'
<1>1. /\ polling' = TRUE /\ latest' = <<>>
      /\ UNCHANGED <<osVars, scanVars>> /\ onScreen' \in BOOLEAN
  BY DEF Update, IInv, TypeOK
<1>2. LoopTyped
  BY <1>1 DEF LoopTyped, OneResult
<1>3. \/ UNCHANGED monitorVars
      \/ Detach
      \/ latest # <<>> /\ latest # <<None>> /\ Attach(latest[1], tailer)
  BY DEF Update
<1>4. latest # <<>> /\ latest # <<None>> => latest[1] \in Candidate
  BY DEF IInv, OneResult
<1>5. QED
  BY <1>1, <1>2, <1>3, <1>4, AttachPreserves, DetachPreserves, MonitorStays

LEMMA PollAttachedPreserves ==
  ASSUME IInv, PollAttached
  PROVE  IInv'
<1>1. /\ polling' = FALSE /\ UNCHANGED <<osVars, scanVars>>
      /\ onScreen' \in BOOLEAN /\ latest' = latest
  BY DEF PollAttached, IInv, TypeOK
<1>2. LoopTyped
  BY <1>1 DEF LoopTyped, IInv, OneResult
<1>3. UNCHANGED monitorVars \/ Detach \/ Ingest
  BY DEF PollAttached
<1>4. QED
  BY <1>1, <1>2, <1>3, DetachPreserves, MonitorStays, IngestPreserves

LEMMA PollPreserves ==
  ASSUME IInv, Poll
  PROVE  IInv'
<1>1. UNCHANGED <<osVars, scanVars, loopVars>>
  BY DEF Poll
<1>2. LoopTyped
  BY <1>1 DEF LoopTyped, IInv, OneResult, TypeOK, loopVars
<1>3. Detach \/ Ingest \/ \E p \in ScanForProcess : Attach(p, None)
  BY DEF Poll
<1>4. ScanForProcess \subseteq Candidate
  BY DEF ScanForProcess, Candidate
<1>5. QED
  BY <1>1, <1>2, <1>3, <1>4, AttachPreserves, DetachPreserves, IngestPreserves

LEMMA NextPreserves == IInv /\ [Next]_vars => IInv'
<1> SUFFICES ASSUME IInv, [Next]_vars
             PROVE  IInv'
  OBVIOUS
<1>1. CASE Environment
  BY <1>1, SystemPreserves, ScanPreserves DEF Environment
<1>2. CASE Worker
  BY <1>2, ScanPreserves DEF Worker
<1>3. CASE Loop
  BY <1>3, ScanPreserves, UpdatePreserves, PollAttachedPreserves DEF Loop
<1>4. CASE Poll
  BY <1>4, PollPreserves
<1>5. CASE UNCHANGED vars
  <2>1. LoopTyped
    BY <1>5 DEF vars, loopVars, LoopTyped, IInv, OneResult, TypeOK
  <2>2. QED
    BY <1>5, <2>1, MonitorStays DEF vars
<1>6. QED
  BY <1>1, <1>2, <1>3, <1>4, <1>5 DEF Next

LEMMA InvariantHolds == Spec => []IInv
  BY InitEstablishes, NextPreserves, PTL DEF Spec

\* Every variable keeps its type, and no log is read past its end, however
\* processes, pids, truncations, scans and views interleave.
THEOREM FollowTypes == Spec => []TypeOK
<1>1. IInv => TypeOK
  BY DEF IInv
<1>2. QED
  BY <1>1, InvariantHolds, PTL

\* Tailer::read_new repeats no line and skips none, for any number of
\* processes and lines and wherever between two reads the log is truncated.
THEOREM FollowCountsLinesOnce == Spec => []LinesOnce
<1>1. IInv => LinesOnce
  BY DEF IInv
<1>2. QED
  BY <1>1, InvariantHolds, PTL

\* attach, detach and reset_run_anchors keep what is drawn to one attachment,
\* for any number of pids and whatever process takes one over.
THEOREM FollowShowsOneRun == Spec => []OneRun
<1>1. IInv => OneRun
  BY DEF IInv
<1>2. QED
  BY <1>1, InvariantHolds, PTL
=============================================================================
