------------------------- MODULE HybridBackendProofs ------------------------
(***************************************************************************)
(* Theorems about HybridBackend, for every set of devices, every set of    *)
(* documents, every number of polls and every expiry age.                  *)
(***************************************************************************)
EXTENDS HybridBackend, TLAPS

LEMMA TypeInit == Init => TypeOK
<1> SUFFICES ASSUME Init PROVE TypeOK
  OBVIOUS
<1> USE HybridAssumption DEF Init, AnyPoll
<1>1. docs \in [Poll -> Doc]
  BY DEF Doc, EmptyDoc
<1>2. smbusStamp \in Stamp /\ metaStamp \in Stamp
  BY DEF Stamp, NoStamp
<1>3. rpc \in ReaderPc /\ upc \in RenderPc
  BY DEF ReaderPc, RenderPc
<1>4. /\ blended \in [Dev -> AnyPoll]
      /\ static \in [Dev -> AnyPoll]
      /\ boardPower \in [Dev -> AnyPoll]
  BY DEF Nothing
<1>5. /\ polls \in AnyPoll /\ smbusShared \in AnyPoll /\ metaShared \in AnyPoll
      /\ lastRaw \in AnyPoll /\ smbusLatest \in AnyPoll
      /\ metaForPower \in AnyPoll
      /\ clock \in Nat /\ generation \in Nat /\ genSeen \in Nat
      /\ snapshotGen \in Nat /\ now \in Nat
      /\ stampedAt \in [Poll -> Nat]
  OBVIOUS
<1>6. stopFlag \in BOOLEAN /\ overlap \in BOOLEAN /\ ema \subseteq Dev
  OBVIOUS
<1>7. QED
  BY ONLY <1>1, <1>2, <1>3, <1>4, <1>5, <1>6 DEF TypeOK

\* What a step of the reader leaves of the type invariant.
LEMMA TypeReader ==
  ASSUME TypeOK, ReaderRuns \/ TtSmiReturns
  PROVE  TypeOK'
<1> USE HybridAssumption DEF TypeOK, Poll, AnyPoll, Stamp, Doc, ReaderPc,
        Publishing, ReaderGoes, worldVars, sharedVars, renderVars
<1>1. CASE PollLoopHead       BY <1>1 DEF PollLoopHead
<1>2. CASE ParkedReaderStops  BY <1>2 DEF ParkedReaderStops
<1>3. CASE BackoffEnds        BY <1>3 DEF BackoffEnds
<1>4. CASE Nap                BY <1>4 DEF Nap
<1>5. CASE StoreMeta          BY <1>5 DEF StoreMeta
<1>6. CASE StampMeta          BY <1>6 DEF StampMeta
<1>7. CASE StoreSmbus         BY <1>7 DEF StoreSmbus
<1>8. CASE StampSmbus         BY <1>8 DEF StampSmbus
<1>9. CASE BumpGeneration     BY <1>9 DEF BumpGeneration
<1>10. CASE \E doc \in Docs : TtSmiSucceeds(doc)
  <2> PICK doc \in Docs : TtSmiSucceeds(doc)  BY <1>10
  <2>1. FirstStore(doc) \in ReaderPc  BY DEF FirstStore
  <2>2. QED  BY <2>1 DEF TtSmiSucceeds
<1>11. CASE TtSmiExitsNonZero BY <1>11 DEF TtSmiExitsNonZero
<1>12. CASE TtSmiSpawnFails   BY <1>12 DEF TtSmiSpawnFails
<1>13. QED
  BY <1>1, <1>2, <1>3, <1>4, <1>5, <1>6, <1>7, <1>8, <1>9, <1>10, <1>11,
     <1>12 DEF ReaderRuns, TtSmiReturns

LEMMA TypeRender ==
  ASSUME TypeOK, BeginUpdate \/ UpdateStep \/ BeginDrop \/ JoinReader
  PROVE  TypeOK'
<1> USE HybridAssumption DEF TypeOK, AnyPoll, RenderPc, Updating, Nothing,
        worldVars, sharedVars
<1>1. CASE BeginUpdate   BY <1>1 DEF BeginUpdate
<1>2. CASE AdoptSmbus    BY <1>2 DEF AdoptSmbus
<1>3. CASE AdoptMeta     BY <1>3 DEF AdoptMeta
<1>4. CASE ReadClock     BY <1>4 DEF ReadClock
<1>5. CASE Blend
  <2>1. DocOf(smbusLatest).smbus \subseteq Dev
    BY DEF DocOf, Doc, EmptyDoc, Poll
  <2>2. QED  BY <1>5, <2>1 DEF Blend, BlendIf, BlendIf
<1>6. CASE LoadMeta      BY <1>6 DEF LoadMeta
<1>7. CASE OverlayPower  BY <1>7 DEF OverlayPower
<1>8. CASE BeginDrop     BY <1>8 DEF BeginDrop
<1>9. CASE JoinReader    BY <1>9 DEF JoinReader
<1>10. QED
  BY <1>1, <1>2, <1>3, <1>4, <1>5, <1>6, <1>7, <1>8, <1>9 DEF UpdateStep

LEMMA TypeStep == TypeOK /\ [Next]_vars => TypeOK'
<1> SUFFICES ASSUME TypeOK, [Next]_vars PROVE TypeOK'
  OBVIOUS
<1>1. CASE ReaderRuns \/ TtSmiReturns  BY <1>1, TypeReader
<1>2. CASE BeginUpdate \/ UpdateStep \/ BeginDrop \/ JoinReader
  BY <1>2, TypeRender
<1>3. CASE Tick
  BY <1>3 DEF Tick, TypeOK, sharedVars, renderVars
<1>4. CASE UNCHANGED vars
  BY <1>4 DEF TypeOK, vars, worldVars, sharedVars, renderVars
<1>5. QED  BY <1>1, <1>2, <1>3, <1>4 DEF Next, Dropped

\* Every variable of the backend keeps its type.
THEOREM TypeCorrect == Safety => []TypeOK
  BY TypeInit, TypeStep, PTL DEF Safety

-----------------------------------------------------------------------------
(***************************************************************************)
(* The inductive invariant, conjunct by conjunct.                          *)
(***************************************************************************)
ReaderActions ==
  \/ ReaderRuns
  \/ TtSmiReturns

RenderActions ==
  \/ BeginUpdate \/ UpdateStep \/ BeginDrop \/ JoinReader

LEMMA StepCases ==
  ASSUME [Next]_vars
  PROVE  ReaderActions \/ RenderActions \/ Tick \/ UNCHANGED vars
  BY DEF Next, ReaderActions, RenderActions, Dropped

LEMMA InvInit == Init => IInv
<1> SUFFICES ASSUME Init PROVE IInv
  OBVIOUS
<1> USE DEF Init, Nothing, Publishing, Updating
<1>1. TypeOK
  BY TypeInit
<1>2. PollsFlow
  BY DEF PollsFlow
<1>3. StampsFollow
  BY DEF StampsFollow, NoStamp, Poll
<1>4. GenerationsFollow
  BY DEF GenerationsFollow, NoSnapshotLost, CaughtUp, DocOf, EmptyDoc
<1>5. BlendFollows
  BY DEF BlendFollows
<1>6. FreshFollows
  BY DEF FreshFollows, FreshUnlessOverlapped
<1>7. QED
  BY <1>1, <1>2, <1>3, <1>4, <1>5, <1>6 DEF IInv

LEMMA DocTyped ==
  ASSUME TypeOK, NEW p \in AnyPoll
  PROVE  DocOf(p) \in Doc
<1>1. p = 0 \/ p \in Poll
  BY HybridAssumption DEF AnyPoll, Poll
<1>2. EmptyDoc \in Doc
  BY DEF EmptyDoc, Doc
<1>3. QED  BY <1>1, <1>2 DEF DocOf, TypeOK

\* A recorded document is never rewritten.
LEMMA DocsKept ==
  ASSUME TypeOK, PollsFlow, [Next]_vars,
         NEW p \in AnyPoll, p <= polls
  PROVE  DocOf(p)' = DocOf(p)
<1> USE DEF worldVars, sharedVars, renderVars
<1>1. CASE UNCHANGED docs  BY <1>1 DEF DocOf
<1>2. CASE \E doc \in Docs : TtSmiSucceeds(doc)
  <2> PICK doc \in Docs : TtSmiSucceeds(doc)  BY <1>2
  <2>1. p # polls + 1
    BY DEF TypeOK, AnyPoll
  <2>2. p = 0 \/ p \in Poll
    BY DEF AnyPoll, Poll
  <2>3. p # 0 => docs'[p] = docs[p]
    BY <2>1, <2>2 DEF TtSmiSucceeds, TypeOK
  <2>4. QED  BY <2>3 DEF DocOf
<1>3. CASE ReaderActions /\ ~(\E doc \in Docs : TtSmiSucceeds(doc))
  BY <1>1, <1>3 DEF ReaderActions, ReaderRuns, TtSmiReturns, PollLoopHead,
     ParkedReaderStops, BackoffEnds, Nap, StoreMeta, StampMeta, StoreSmbus,
     StampSmbus, BumpGeneration, TtSmiExitsNonZero, TtSmiSpawnFails
<1>4. CASE RenderActions
  BY <1>1, <1>4 DEF RenderActions, UpdateStep, BeginUpdate, AdoptSmbus,
     AdoptMeta, ReadClock, Blend, BlendIf, LoadMeta, OverlayPower, BeginDrop,
     JoinReader
<1>5. CASE Tick             BY <1>1, <1>5 DEF Tick
<1>6. CASE UNCHANGED vars   BY <1>1, <1>6 DEF vars
<1>7. QED
  BY <1>2, <1>3, <1>4, <1>5, <1>6, StepCases

LEMMA PollsFlowReader ==
  ASSUME TypeOK, PollsFlow, ReaderActions
  PROVE  PollsFlow'
<1> USE HybridAssumption DEF TypeOK, PollsFlow, Poll, AnyPoll, Publishing,
        ReaderGoes, worldVars, sharedVars, renderVars
<1>1. CASE PollLoopHead       BY <1>1 DEF PollLoopHead
<1>2. CASE ParkedReaderStops  BY <1>2 DEF ParkedReaderStops
<1>3. CASE BackoffEnds        BY <1>3 DEF BackoffEnds
<1>4. CASE Nap                BY <1>4 DEF Nap
<1>5. CASE StoreMeta          BY <1>5 DEF StoreMeta
<1>6. CASE StampMeta          BY <1>6 DEF StampMeta
<1>7. CASE StoreSmbus         BY <1>7 DEF StoreSmbus
<1>8. CASE StampSmbus         BY <1>8 DEF StampSmbus
<1>9. CASE BumpGeneration     BY <1>9 DEF BumpGeneration
<1>10. CASE \E doc \in Docs : TtSmiSucceeds(doc)
  BY <1>10 DEF TtSmiSucceeds, FirstStore
<1>11. CASE TtSmiExitsNonZero BY <1>11 DEF TtSmiExitsNonZero
<1>12. CASE TtSmiSpawnFails   BY <1>12 DEF TtSmiSpawnFails
<1>13. QED
  BY <1>1, <1>2, <1>3, <1>4, <1>5, <1>6, <1>7, <1>8, <1>9, <1>10, <1>11,
     <1>12 DEF ReaderActions, ReaderRuns, TtSmiReturns

LEMMA PollsFlowRender ==
  ASSUME TypeOK, PollsFlow, RenderActions
  PROVE  PollsFlow'
<1> USE HybridAssumption DEF TypeOK, PollsFlow, AnyPoll, Nothing,
        worldVars, sharedVars
<1>1. CASE BeginUpdate   BY <1>1 DEF BeginUpdate
<1>2. CASE AdoptSmbus    BY <1>2 DEF AdoptSmbus
<1>3. CASE AdoptMeta     BY <1>3 DEF AdoptMeta
<1>4. CASE ReadClock     BY <1>4 DEF ReadClock
<1>5. CASE Blend         BY <1>5 DEF Blend, BlendIf, BlendIf
<1>6. CASE LoadMeta      BY <1>6 DEF LoadMeta
<1>7. CASE OverlayPower  BY <1>7 DEF OverlayPower
<1>8. CASE BeginDrop     BY <1>8 DEF BeginDrop
<1>9. CASE JoinReader    BY <1>9 DEF JoinReader
<1>10. QED
  BY <1>1, <1>2, <1>3, <1>4, <1>5, <1>6, <1>7, <1>8, <1>9
     DEF RenderActions, UpdateStep

LEMMA PollsFlowStep == TypeOK /\ PollsFlow /\ [Next]_vars => PollsFlow'
<1> SUFFICES ASSUME TypeOK, PollsFlow, [Next]_vars PROVE PollsFlow'
  OBVIOUS
<1>1. CASE ReaderActions   BY <1>1, PollsFlowReader
<1>2. CASE RenderActions   BY <1>2, PollsFlowRender
<1>3. CASE Tick            BY <1>3 DEF Tick, PollsFlow, sharedVars, renderVars
<1>4. CASE UNCHANGED vars
  BY <1>4 DEF PollsFlow, vars, worldVars, sharedVars, renderVars
<1>5. QED  BY <1>1, <1>2, <1>3, <1>4, StepCases

-----------------------------------------------------------------------------
LEMMA StampsFollowReader ==
  ASSUME TypeOK, PollsFlow, StampsFollow, ReaderActions
  PROVE  StampsFollow'
<1> USE HybridAssumption DEF TypeOK, PollsFlow, StampsFollow, Poll, AnyPoll,
        Stamp, Publishing, ReaderGoes, worldVars, sharedVars, renderVars
<1>1. CASE PollLoopHead       BY <1>1 DEF PollLoopHead
<1>2. CASE ParkedReaderStops  BY <1>2 DEF ParkedReaderStops
<1>3. CASE BackoffEnds        BY <1>3 DEF BackoffEnds
<1>4. CASE Nap                BY <1>4 DEF Nap
<1>5. CASE StoreMeta          BY <1>5 DEF StoreMeta
<1>6. CASE StampMeta
  <2>1. polls \in Poll /\ metaStamp' = [poll |-> polls, at |-> clock]
    BY <1>6 DEF StampMeta
  <2>2. /\ stampedAt'[polls] = clock
        /\ \A p \in Poll : p # polls => stampedAt'[p] = stampedAt[p]
    BY <1>6, <2>1 DEF StampMeta
  <2>3. smbusStamp.poll # 0 => /\ smbusStamp.poll \in Poll
                               /\ smbusStamp.at <= stampedAt'[smbusStamp.poll]
    BY <2>1, <2>2
  <2>4. \A p \in Poll : stampedAt'[p] <= clock'
    BY <1>6, <2>2 DEF StampMeta
  <2>5. polls = metaShared /\ UNCHANGED <<polls, smbusShared, metaShared>>
    BY <1>6 DEF StampMeta
  <2>6. QED
    BY <1>6, <2>1, <2>2, <2>3, <2>4, <2>5 DEF StampMeta
<1>7. CASE StoreSmbus         BY <1>7 DEF StoreSmbus
<1>8. CASE StampSmbus
  <2>1. polls \in Poll /\ smbusStamp' = [poll |-> polls, at |-> clock]
    BY <1>8 DEF StampSmbus
  <2>2. /\ stampedAt'[polls] = clock
        /\ \A p \in Poll : p # polls => stampedAt'[p] = stampedAt[p]
    BY <1>8, <2>1 DEF StampSmbus
  <2>3. metaStamp.poll # 0 => /\ metaStamp.poll \in Poll
                              /\ metaStamp.at <= stampedAt'[metaStamp.poll]
    BY <2>1, <2>2
  <2>4. \A p \in Poll : stampedAt'[p] <= clock'
    BY <1>8, <2>2 DEF StampSmbus
  <2>5. polls = smbusShared /\ UNCHANGED <<polls, smbusShared, metaShared>>
    BY <1>8 DEF StampSmbus
  <2>6. QED
    BY <1>8, <2>1, <2>2, <2>3, <2>4, <2>5 DEF StampSmbus
<1>9. CASE BumpGeneration     BY <1>9 DEF BumpGeneration
<1>10. CASE \E doc \in Docs : TtSmiSucceeds(doc)
  BY <1>10 DEF TtSmiSucceeds, FirstStore
<1>11. CASE TtSmiExitsNonZero BY <1>11 DEF TtSmiExitsNonZero
<1>12. CASE TtSmiSpawnFails   BY <1>12 DEF TtSmiSpawnFails
<1>13. QED
  BY <1>1, <1>2, <1>3, <1>4, <1>5, <1>6, <1>7, <1>8, <1>9, <1>10, <1>11,
     <1>12 DEF ReaderActions, ReaderRuns, TtSmiReturns

LEMMA StampsFollowStep ==
  TypeOK /\ PollsFlow /\ StampsFollow /\ [Next]_vars => StampsFollow'
<1> SUFFICES ASSUME TypeOK, PollsFlow, StampsFollow, [Next]_vars
             PROVE  StampsFollow'
  OBVIOUS
<1>1. CASE ReaderActions   BY <1>1, StampsFollowReader
<1>2. CASE RenderActions
  <2>1. UNCHANGED <<metaShared, smbusShared, metaStamp, smbusStamp,
                    stampedAt, polls, clock, rpc>>
    BY <1>2 DEF RenderActions, UpdateStep, BeginUpdate, AdoptSmbus, AdoptMeta,
       ReadClock, Blend, BlendIf, LoadMeta, OverlayPower, BeginDrop, JoinReader,
       worldVars, sharedVars
  <2>2. QED  BY <2>1 DEF StampsFollow
<1>3. CASE Tick
  BY <1>3 DEF Tick, TypeOK, StampsFollow, sharedVars, renderVars
<1>4. CASE UNCHANGED vars
  BY <1>4 DEF StampsFollow, vars, worldVars, sharedVars, renderVars
<1>5. QED  BY <1>1, <1>2, <1>3, <1>4, StepCases

-----------------------------------------------------------------------------
\* The part of GenerationsFollow that is about the counters only.
LEMMA CountersReader ==
  ASSUME TypeOK, GenerationsFollow, ReaderActions
  PROVE  /\ snapshotGen' <= genSeen' /\ genSeen' <= generation'
         /\ (snapshotGen' = generation' /\ rpc' \notin Publishing) =>
              /\ snapshotGen = generation /\ rpc \notin Publishing
              /\ UNCHANGED <<smbusShared, metaShared, smbusLatest, static, upc>>
<1> USE HybridAssumption DEF TypeOK, GenerationsFollow, Publishing, ReaderGoes,
        worldVars, sharedVars, renderVars
<1>1. CASE PollLoopHead       BY <1>1 DEF PollLoopHead
<1>2. CASE ParkedReaderStops  BY <1>2 DEF ParkedReaderStops
<1>3. CASE BackoffEnds        BY <1>3 DEF BackoffEnds
<1>4. CASE Nap                BY <1>4 DEF Nap
<1>5. CASE StoreMeta          BY <1>5 DEF StoreMeta
<1>6. CASE StampMeta          BY <1>6 DEF StampMeta
<1>7. CASE StoreSmbus         BY <1>7 DEF StoreSmbus
<1>8. CASE StampSmbus         BY <1>8 DEF StampSmbus
<1>9. CASE BumpGeneration     BY <1>9 DEF BumpGeneration
<1>10. CASE \E doc \in Docs : TtSmiSucceeds(doc)
  BY <1>10 DEF TtSmiSucceeds, FirstStore
<1>11. CASE TtSmiExitsNonZero BY <1>11 DEF TtSmiExitsNonZero
<1>12. CASE TtSmiSpawnFails   BY <1>12 DEF TtSmiSpawnFails
<1>13. QED
  BY <1>1, <1>2, <1>3, <1>4, <1>5, <1>6, <1>7, <1>8, <1>9, <1>10, <1>11,
     <1>12 DEF ReaderActions, ReaderRuns, TtSmiReturns

LEMMA GenerationsFollowRender ==
  ASSUME TypeOK, GenerationsFollow, RenderActions
  PROVE  GenerationsFollow'
<1> USE DEF TypeOK, GenerationsFollow, NoSnapshotLost, CaughtUp, worldVars,
        sharedVars
<1>1. CASE BeginUpdate   BY <1>1 DEF BeginUpdate, DocOf
<1>2. CASE AdoptSmbus    BY <1>2 DEF AdoptSmbus
<1>3. CASE AdoptMeta
  <2>1. DocOf(metaShared)' = DocOf(metaShared)
    BY <1>3 DEF AdoptMeta, DocOf
  <2>2. DocOf(metaShared).static \subseteq Dev
    BY DocTyped DEF Doc
  <2>3. QED  BY <1>3, <2>1, <2>2 DEF AdoptMeta
<1>4. CASE ReadClock     BY <1>4 DEF ReadClock, DocOf
<1>5. CASE Blend         BY <1>5 DEF Blend, BlendIf, DocOf
<1>6. CASE LoadMeta      BY <1>6 DEF LoadMeta, DocOf
<1>7. CASE OverlayPower  BY <1>7 DEF OverlayPower, DocOf
<1>8. CASE BeginDrop     BY <1>8 DEF BeginDrop, DocOf
<1>9. CASE JoinReader    BY <1>9 DEF JoinReader, DocOf
<1>10. QED
  BY <1>1, <1>2, <1>3, <1>4, <1>5, <1>6, <1>7, <1>8, <1>9
     DEF RenderActions, UpdateStep

LEMMA GenerationsFollowStep ==
  TypeOK /\ PollsFlow /\ GenerationsFollow /\ [Next]_vars => GenerationsFollow'
<1> SUFFICES ASSUME TypeOK, PollsFlow, GenerationsFollow, [Next]_vars
             PROVE  GenerationsFollow'
  OBVIOUS
<1>1. DocOf(metaShared)' = DocOf(metaShared) \/ metaShared' # metaShared
  <2>1. metaShared \in AnyPoll /\ metaShared <= polls
    BY DEF TypeOK, PollsFlow
  <2>2. DocOf(metaShared) = EmptyDoc \/ metaShared \in Poll
    BY <2>1 DEF DocOf, AnyPoll, Poll
  <2>3. ASSUME metaShared' = metaShared
        PROVE  DocOf(metaShared)' = DocOf(metaShared)
    <3>1. PICK p \in AnyPoll : p = metaShared
      BY <2>1
    <3>2. DocOf(p)' = DocOf(p)
      BY <2>1, <3>1, DocsKept
    <3>3. QED  BY <2>3, <3>1, <3>2 DEF DocOf
  <2>4. QED  BY <2>3
<1>2. CASE ReaderActions
  BY <1>1, <1>2, CountersReader DEF GenerationsFollow, NoSnapshotLost, CaughtUp
<1>3. CASE RenderActions   BY <1>3, GenerationsFollowRender
<1>4. CASE Tick
  BY <1>1, <1>4 DEF Tick, GenerationsFollow, NoSnapshotLost, CaughtUp,
     sharedVars, renderVars
<1>5. CASE UNCHANGED vars
  BY <1>1, <1>5 DEF GenerationsFollow, NoSnapshotLost, CaughtUp, vars,
     worldVars, sharedVars, renderVars
<1>6. QED  BY <1>2, <1>3, <1>4, <1>5, StepCases

-----------------------------------------------------------------------------
\* The reader leaves the render thread's state alone.
LEMMA ReaderFrame ==
  ASSUME ReaderActions
  PROVE  UNCHANGED <<renderVars, clock, stopFlag>>
  BY DEF ReaderActions, ReaderRuns, TtSmiReturns, PollLoopHead,
     ParkedReaderStops, BackoffEnds, Nap, StoreMeta, StampMeta, StoreSmbus,
     StampSmbus, BumpGeneration, TtSmiSucceeds, TtSmiExitsNonZero,
     TtSmiSpawnFails, worldVars, sharedVars

LEMMA BlendFollowsRender ==
  ASSUME TypeOK, BlendFollows, RenderActions
  PROVE  BlendFollows'
<1> USE DEF TypeOK, BlendFollows, worldVars, sharedVars
<1>1. CASE BeginUpdate   BY <1>1 DEF BeginUpdate, DocOf
<1>2. CASE AdoptSmbus
  <2>1. DocOf(smbusLatest)' = DocOf(smbusShared)
    BY <1>2 DEF AdoptSmbus, DocOf
  <2>2. QED  BY <1>2, <2>1 DEF AdoptSmbus
<1>3. CASE AdoptMeta     BY <1>3 DEF AdoptMeta, DocOf
<1>4. CASE ReadClock     BY <1>4 DEF ReadClock, DocOf
<1>5. CASE Blend
  <2> DEFINE target == DocOf(smbusLatest).smbus
  <2>1. DocOf(smbusLatest)' = DocOf(smbusLatest) /\ smbusLatest' = smbusLatest
    BY <1>5 DEF Blend, BlendIf, DocOf
  <2>2. target \subseteq Dev
    BY DocTyped DEF Doc
  <2>3. smbusLatest = 0 => target = {}
    BY DEF DocOf, EmptyDoc
  <2>4. CASE IsFresh(smbusStamp, now)
    <3>1. /\ \A d \in Dev : blended'[d] = IF d \in target THEN smbusLatest
                                                          ELSE blended[d]
          /\ ema' = ema \cup target
      BY <1>5, <2>4 DEF Blend, BlendIf, BlendIf
    <3>2. \A d \in Dev : d \notin target => blended'[d] = 0
      BY <3>1
    <3>3. QED  BY <2>1, <2>2, <2>3, <3>1, <3>2
  <2>5. CASE ~IsFresh(smbusStamp, now)
    <3>1. \A d \in Dev : blended'[d] = 0
      BY <1>5, <2>5 DEF Blend, BlendIf, Nothing
    <3>2. ema' = {}
      BY <1>5, <2>5 DEF Blend, BlendIf, Nothing
    <3>3. QED  BY <3>1, <3>2
  <2>6. QED  BY <2>4, <2>5
<1>6. CASE LoadMeta      BY <1>6 DEF LoadMeta, DocOf
<1>7. CASE OverlayPower  BY <1>7 DEF OverlayPower, DocOf
<1>8. CASE BeginDrop     BY <1>8 DEF BeginDrop, DocOf
<1>9. CASE JoinReader    BY <1>9 DEF JoinReader, DocOf
<1>10. QED
  BY <1>1, <1>2, <1>3, <1>4, <1>5, <1>6, <1>7, <1>8, <1>9
     DEF RenderActions, UpdateStep

LEMMA BlendFollowsStep ==
  TypeOK /\ PollsFlow /\ BlendFollows /\ [Next]_vars => BlendFollows'
<1> SUFFICES ASSUME TypeOK, PollsFlow, BlendFollows, [Next]_vars
             PROVE  BlendFollows'
  OBVIOUS
<1>1. smbusLatest \in AnyPoll /\ smbusLatest <= polls
  BY HybridAssumption DEF TypeOK, PollsFlow, AnyPoll
<1>2. ASSUME UNCHANGED <<smbusLatest, blended, ema, upc>>
      PROVE  BlendFollows'
  <2>1. PICK p \in AnyPoll : p = smbusLatest /\ p <= polls
    BY <1>1
  <2>2. DocOf(p)' = DocOf(p)
    BY <2>1, DocsKept
  <2>3. DocOf(smbusLatest)' = DocOf(smbusLatest)
    BY <1>2, <2>1, <2>2 DEF DocOf
  <2>4. QED  BY <1>2, <2>3 DEF BlendFollows
<1>3. CASE ReaderActions   BY <1>2, <1>3, ReaderFrame DEF renderVars
<1>4. CASE RenderActions   BY <1>4, BlendFollowsRender
<1>5. CASE Tick            BY <1>2, <1>5 DEF Tick, renderVars
<1>6. CASE UNCHANGED vars  BY <1>2, <1>6 DEF vars, renderVars
<1>7. QED  BY <1>3, <1>4, <1>5, <1>6, StepCases

-----------------------------------------------------------------------------
\* The time a poll was stamped only ever moves forward.
LEMMA StampedLater ==
  ASSUME TypeOK, PollsFlow, StampsFollow, [Next]_vars, NEW p \in Poll
  PROVE  stampedAt[p] <= stampedAt'[p]
<1> USE DEF TypeOK, StampsFollow, worldVars, sharedVars, renderVars
<1>1. CASE UNCHANGED stampedAt  BY <1>1
<1>2. CASE \E doc \in Docs : TtSmiSucceeds(doc)
  BY <1>2 DEF TtSmiSucceeds
<1>3. CASE StampMeta   BY <1>3 DEF StampMeta
<1>4. CASE StampSmbus  BY <1>4 DEF StampSmbus
<1>5. CASE ReaderActions /\ ~StampMeta /\ ~StampSmbus
           /\ ~(\E doc \in Docs : TtSmiSucceeds(doc))
  BY <1>1, <1>5 DEF ReaderActions, ReaderRuns, TtSmiReturns, PollLoopHead,
     ParkedReaderStops, BackoffEnds, Nap, StoreMeta, StoreSmbus,
     BumpGeneration, TtSmiExitsNonZero, TtSmiSpawnFails
<1>6. CASE RenderActions
  BY <1>1, <1>6 DEF RenderActions, UpdateStep, BeginUpdate, AdoptSmbus,
     AdoptMeta, ReadClock, Blend, BlendIf, LoadMeta, OverlayPower, BeginDrop,
     JoinReader
<1>7. CASE Tick            BY <1>1, <1>7 DEF Tick
<1>8. CASE UNCHANGED vars  BY <1>1, <1>8 DEF vars
<1>9. QED
  BY <1>2, <1>3, <1>4, <1>5, <1>6, <1>7, <1>8, StepCases

\* A reader step that begins or continues a publication during an update is
\* recorded in overlap; any other keeps the reader out of Publishing.
LEMMA ReaderOverlap ==
  ASSUME TypeOK, ReaderActions, upc \in Updating, ~overlap',
         rpc \notin Publishing
  PROVE  ~overlap /\ rpc' \notin Publishing /\ UNCHANGED <<generation, metaShared>>
<1>1. ~overlap /\ rpc' \notin Publishing
  BY DEF TypeOK, ReaderActions, ReaderRuns, TtSmiReturns, PollLoopHead,
     ParkedReaderStops, BackoffEnds, Nap, StoreMeta, StampMeta, StoreSmbus,
     StampSmbus, BumpGeneration, TtSmiSucceeds, TtSmiExitsNonZero,
     TtSmiSpawnFails, ReaderGoes
<1>2. UNCHANGED <<generation, metaShared>>
  BY DEF Publishing, ReaderActions, ReaderRuns, TtSmiReturns, PollLoopHead,
     ParkedReaderStops, BackoffEnds, Nap, StoreMeta, StampMeta, StoreSmbus,
     StampSmbus, BumpGeneration, TtSmiSucceeds, TtSmiExitsNonZero,
     TtSmiSpawnFails, sharedVars
<1>3. QED  BY <1>1, <1>2


LEMMA OverlapKept ==
  ASSUME TypeOK, ReaderActions, ~overlap'
  PROVE  ~overlap
  BY DEF TypeOK, ReaderActions, ReaderRuns, TtSmiReturns, PollLoopHead,
     ParkedReaderStops, BackoffEnds, Nap, StoreMeta, StampMeta, StoreSmbus,
     StampSmbus, BumpGeneration, TtSmiSucceeds, TtSmiExitsNonZero,
     TtSmiSpawnFails, ReaderGoes

\* What was fresh stays fresh while the instant it was judged at stands.
LEMMA FreshKept ==
  ASSUME TypeOK, PollsFlow, StampsFollow, [Next]_vars, now' = now,
         NEW p \in AnyPoll, p # 0 => now < stampedAt[p] + MaxAge
  PROVE  p # 0 => now' < stampedAt'[p] + MaxAge
<1> SUFFICES ASSUME p # 0 PROVE now' < stampedAt'[p] + MaxAge
  OBVIOUS
<1>1. p \in Poll
  BY DEF AnyPoll, Poll
<1>2. stampedAt[p] <= stampedAt'[p]
  BY <1>1, StampedLater
<1>3. TypeOK'
  BY TypeStep
<1>4. stampedAt[p] \in Nat /\ stampedAt'[p] \in Nat /\ now \in Nat
  BY <1>1, <1>3 DEF TypeOK
<1>5. QED  BY <1>2, <1>4, HybridAssumption

LEMMA FreshFollowsReader ==
  ASSUME TypeOK, PollsFlow, StampsFollow, FreshFollows, ReaderActions,
         [Next]_vars
  PROVE  FreshFollows'
<1>1. UNCHANGED <<upc, genSeen, snapshotGen, blended, now, metaForPower,
                  boardPower>>
  BY ReaderFrame DEF renderVars
<1>2. ASSUME ~overlap'
      PROVE  ~overlap
  BY <1>2, OverlapKept
<1>3. (upc \in Updating /\ ~overlap)' =>
         /\ rpc' \notin Publishing
         /\ genSeen' = generation'
         /\ upc' # "adoptSmbus" => snapshotGen' = generation'
         /\ upc' = "power" => metaForPower' = metaShared'
  BY <1>1, <1>2, ReaderOverlap DEF FreshFollows
<1>4. ASSUME NEW d \in Dev
      PROVE  /\ blended[d] \in AnyPoll /\ blended'[d] = blended[d]
             /\ boardPower[d] \in AnyPoll /\ boardPower'[d] = boardPower[d]
  BY <1>1 DEF TypeOK
<1>5. (upc \notin {"adoptSmbus", "adoptMeta", "clock", "blend"} /\ ~overlap)' =>
         \A d \in Dev : blended'[d] # 0 => now' < stampedAt'[blended'[d]] + MaxAge
  BY <1>1, <1>2, <1>4, FreshKept DEF FreshFollows
<1>6. FreshUnlessOverlapped'
  BY <1>1, <1>2, <1>4, FreshKept DEF FreshFollows, FreshUnlessOverlapped
<1>7. QED  BY <1>3, <1>5, <1>6 DEF FreshFollows

\* During an update that nothing overlaps, each payload carries its own stamp.
LEMMA QuietStamps ==
  ASSUME TypeOK, PollsFlow, StampsFollow, GenerationsFollow, FreshFollows,
         upc \in Updating, ~overlap
  PROVE  /\ metaStamp.poll = metaShared
         /\ smbusStamp.poll = smbusShared
         /\ upc # "adoptSmbus" => smbusLatest = smbusShared
  BY DEF FreshFollows, StampsFollow, GenerationsFollow, Publishing

LEMMA FreshFollowsRender ==
  ASSUME TypeOK, PollsFlow, StampsFollow, GenerationsFollow, BlendFollows,
         FreshFollows, RenderActions
  PROVE  FreshFollows'
<1> USE DEF TypeOK, FreshFollows, FreshUnlessOverlapped, Updating, worldVars,
        sharedVars
<1>1. CASE BeginUpdate   BY <1>1 DEF BeginUpdate, GenerationsFollow
<1>2. CASE AdoptSmbus    BY <1>2 DEF AdoptSmbus
<1>3. CASE AdoptMeta     BY <1>3 DEF AdoptMeta
<1>4. CASE ReadClock     BY <1>4 DEF ReadClock
<1>5. CASE Blend
  <2>1. ASSUME ~overlap, NEW d \in Dev, blended'[d] # 0
        PROVE  now < stampedAt[blended'[d]] + MaxAge
    <3>1. IsFresh(smbusStamp, now)
      BY <1>5, <2>1 DEF Blend, BlendIf, Nothing
    <3>2. d \in DocOf(smbusLatest).smbus => blended'[d] = smbusLatest
      BY <1>5, <3>1 DEF Blend, BlendIf, BlendIf
    <3>3. d \notin DocOf(smbusLatest).smbus => blended'[d] = 0
      BY <1>5, <3>1 DEF Blend, BlendIf, BlendFollows
    <3>4. blended'[d] = smbusStamp.poll
      BY <1>5, <2>1, <3>2, <3>3, QuietStamps DEF Blend, BlendIf, BlendIf
    <3>5. smbusStamp.poll \in Poll /\ smbusStamp.at \in Nat
      BY <2>1, <3>4 DEF Stamp, AnyPoll, Poll
    <3>6. /\ now < smbusStamp.at + MaxAge
          /\ smbusStamp.at <= stampedAt[smbusStamp.poll]
      BY <2>1, <3>1, <3>4 DEF IsFresh, StampsFollow
    <3>7. stampedAt[smbusStamp.poll] \in Nat
      BY <3>5
    <3>8. QED  BY <3>4, <3>5, <3>6, <3>7, HybridAssumption
  <2>2. QED  BY <1>5, <2>1 DEF Blend, BlendIf, BlendIf
<1>6. CASE LoadMeta      BY <1>6 DEF LoadMeta
<1>7. CASE OverlayPower
  <2>1. ASSUME ~overlap, NEW d \in Dev, boardPower'[d] # 0
        PROVE  now < stampedAt[boardPower'[d]] + MaxAge
    <3>1. boardPower'[d] = metaForPower /\ IsFresh(metaStamp, now)
      BY <1>7, <2>1 DEF OverlayPower
    <3>2. boardPower'[d] = metaStamp.poll
      BY <1>7, <2>1, <3>1, QuietStamps DEF OverlayPower
    <3>3. metaStamp.poll \in Poll /\ metaStamp.at \in Nat
      BY <2>1, <3>2 DEF Stamp, AnyPoll, Poll
    <3>4. /\ now < metaStamp.at + MaxAge
          /\ metaStamp.at <= stampedAt[metaStamp.poll]
      BY <2>1, <3>1, <3>2 DEF IsFresh, StampsFollow
    <3>5. stampedAt[metaStamp.poll] \in Nat
      BY <3>3
    <3>6. QED  BY <3>2, <3>3, <3>4, <3>5, HybridAssumption
  <2>2. QED  BY <1>7, <2>1 DEF OverlayPower
<1>8. CASE BeginDrop     BY <1>8 DEF BeginDrop
<1>9. CASE JoinReader    BY <1>9 DEF JoinReader
<1>10. QED
  BY <1>1, <1>2, <1>3, <1>4, <1>5, <1>6, <1>7, <1>8, <1>9
     DEF RenderActions, UpdateStep

LEMMA FreshFollowsStep ==
  /\ TypeOK /\ PollsFlow /\ StampsFollow /\ GenerationsFollow /\ BlendFollows
  /\ FreshFollows /\ [Next]_vars
  => FreshFollows'
<1> SUFFICES ASSUME TypeOK, PollsFlow, StampsFollow, GenerationsFollow,
                    BlendFollows, FreshFollows, [Next]_vars
             PROVE  FreshFollows'
  OBVIOUS
<1>1. CASE ReaderActions   BY <1>1, FreshFollowsReader
<1>2. CASE RenderActions   BY <1>2, FreshFollowsRender
<1>3. CASE Tick
  BY <1>3 DEF Tick, FreshFollows, FreshUnlessOverlapped, sharedVars, renderVars
<1>4. CASE UNCHANGED vars
  BY <1>4 DEF FreshFollows, FreshUnlessOverlapped, vars, worldVars, sharedVars,
     renderVars
<1>5. QED  BY <1>1, <1>2, <1>3, <1>4, StepCases

-----------------------------------------------------------------------------
LEMMA StopFlagStep ==
  ASSUME stopFlag => upc \in {"joining", "gone"}, [Next]_vars
  PROVE  (stopFlag => upc \in {"joining", "gone"})'
<1>1. CASE ReaderActions   BY <1>1, ReaderFrame DEF renderVars
<1>2. CASE RenderActions
  BY <1>2 DEF RenderActions, UpdateStep, BeginUpdate, AdoptSmbus, AdoptMeta,
     ReadClock, Blend, BlendIf, LoadMeta, OverlayPower, BeginDrop, JoinReader, sharedVars
<1>3. CASE Tick            BY <1>3 DEF Tick, sharedVars, renderVars
<1>4. CASE UNCHANGED vars  BY <1>4 DEF vars, sharedVars, renderVars
<1>5. QED  BY <1>1, <1>2, <1>3, <1>4, StepCases

\* The inductive invariant holds in every reachable state.
THEOREM InductiveInvariant == Safety => []IInv
<1>1. IInv /\ [Next]_vars => IInv'
  BY TypeStep, PollsFlowStep, StampsFollowStep, GenerationsFollowStep,
     BlendFollowsStep, FreshFollowsStep, StopFlagStep DEF IInv
<1>2. QED  BY <1>1, InvInit, PTL DEF Safety

\* No snapshot is lost between the reader and the render thread: a render
\* thread that has caught up with the generation counter, while no
\* publication is under way, shows the last payload of either kind.
THEOREM SnapshotsAreNotLost == Safety => []NoSnapshotLost
<1>1. IInv => NoSnapshotLost
  BY DEF IInv, GenerationsFollow
<1>2. QED  BY <1>1, InductiveInvariant, PTL

\* Between updates all blended rows come from one poll, and the EMA
\* accumulators are exactly theirs.
THEOREM BlendIsOneSnapshot == Safety => []OneSnapshot
<1>1. IInv => OneSnapshot
  BY DEF IInv, BlendFollows, OneSnapshot, Updating
<1>2. QED  BY <1>1, InductiveInvariant, PTL

\* An update() that no publication overlaps leaves no expired measurement on
\* the screen.
THEOREM MeasurementsExpire == Safety => []FreshUnlessOverlapped
<1>1. IInv => FreshUnlessOverlapped
  BY DEF IInv, FreshFollows
<1>2. QED  BY <1>1, InductiveInvariant, PTL

\* What snapshot_json() relays is at least as new as every row shown.
THEOREM RelayIsNewest == Safety => []RelayNotBehindScreen
<1>1. IInv => RelayNotBehindScreen
  <2> SUFFICES ASSUME IInv, NEW d \in Dev
               PROVE  /\ blended[d] <= lastRaw
                      /\ static[d] <= lastRaw
                      /\ boardPower[d] <= lastRaw
    BY DEF RelayNotBehindScreen
  <2>1. /\ blended[d] \in Nat /\ static[d] \in Nat /\ boardPower[d] \in Nat
        /\ smbusLatest \in Nat /\ smbusShared \in Nat /\ metaShared \in Nat
        /\ polls \in Nat
    BY HybridAssumption DEF IInv, TypeOK, AnyPoll
  <2>2. QED  BY <2>1 DEF IInv, PollsFlow
<1>2. QED  BY <1>1, InductiveInvariant, PTL


\* The screen never goes back in time.
THEOREM TimeMovesForward == Safety => NeverBackInTime
<1>1. IInv /\ [Next]_vars =>
        [/\ smbusLatest' >= smbusLatest
         /\ \A d \in Dev : static'[d] >= static[d]]_vars
  <2> SUFFICES ASSUME IInv, [Next]_vars
               PROVE  /\ smbusLatest' >= smbusLatest
                      /\ \A d \in Dev : static'[d] >= static[d]
    OBVIOUS
  <2>1. /\ smbusLatest \in Nat /\ smbusShared \in Nat /\ metaShared \in Nat
        /\ \A d \in Dev : static[d] \in Nat
        /\ smbusLatest <= smbusShared
        /\ \A d \in Dev : static[d] <= metaShared
    BY HybridAssumption DEF IInv, TypeOK, AnyPoll, PollsFlow
  <2>2. CASE UNCHANGED <<smbusLatest, static>>
    BY <2>1, <2>2
  <2>3. CASE AdoptSmbus  BY <2>1, <2>3 DEF AdoptSmbus
  <2>4. CASE AdoptMeta   BY <2>1, <2>4 DEF AdoptMeta
  <2>5. CASE ReaderActions  BY <2>2, <2>5, ReaderFrame DEF renderVars
  <2>6. CASE RenderActions /\ ~AdoptSmbus /\ ~AdoptMeta
    BY <2>2, <2>6 DEF RenderActions, UpdateStep, BeginUpdate, ReadClock, Blend, BlendIf,
       LoadMeta, OverlayPower, BeginDrop, JoinReader
  <2>7. CASE Tick            BY <2>2, <2>7 DEF Tick, renderVars
  <2>8. CASE UNCHANGED vars  BY <2>2, <2>8 DEF vars, renderVars
  <2>9. QED  BY <2>3, <2>4, <2>5, <2>6, <2>7, <2>8, StepCases
<1>2. QED  BY <1>1, InductiveInvariant, PTL DEF Safety, NeverBackInTime

\* HybridBackend implements the safety part of SnapshotFeed: storing an SMBUS
\* map is a Produce step, adopting one is a Show step, BeginDrop is Close.
THEOREM ImplementsFeed == Safety => Feed!FeedSafety
<1>1. Init => Feed!FeedInit
  BY DEF Init, Feed!FeedInit
<1>2. IInv /\ [Next]_vars => [Feed!FeedNext]_(Feed!feedVars)
  <2> SUFFICES ASSUME IInv, [Next]_vars
               PROVE  [Feed!FeedNext]_(Feed!feedVars)
    OBVIOUS
  <2> USE DEF Feed!FeedNext, Feed!feedVars, worldVars, sharedVars
  <2>1. CASE UNCHANGED <<smbusShared, smbusLatest, stopFlag>>
    BY <2>1
  <2>2. CASE StoreSmbus
    <3>1. /\ smbusShared \in Nat /\ polls \in Nat
          /\ smbusShared < polls
      BY <2>2, HybridAssumption
         DEF StoreSmbus, IInv, TypeOK, AnyPoll, PollsFlow
    <3>2. UNCHANGED <<smbusLatest, stopFlag>> /\ smbusShared' = polls
      BY <2>2 DEF StoreSmbus, renderVars
    <3>3. QED  BY <3>1, <3>2 DEF Feed!Produce
  <2>3. CASE AdoptSmbus
    <3>1. /\ smbusShared \in Nat /\ smbusLatest \in Nat
          /\ smbusLatest <= smbusShared
      BY HybridAssumption DEF IInv, TypeOK, AnyPoll, PollsFlow
    <3>2. ~stopFlag
      BY <2>3 DEF AdoptSmbus, IInv
    <3>3. smbusLatest' = smbusShared /\ UNCHANGED <<smbusShared, stopFlag>>
      BY <2>3 DEF AdoptSmbus
    <3>4. QED  BY <3>1, <3>2, <3>3 DEF Feed!Show
  <2>4. CASE BeginDrop
    <3>1. ~stopFlag
      BY <2>4 DEF BeginDrop, IInv
    <3>2. stopFlag' = TRUE /\ UNCHANGED <<smbusShared, smbusLatest>>
      BY <2>4 DEF BeginDrop
    <3>3. QED  BY <3>1, <3>2 DEF Feed!Close
  <2>5. CASE ReaderActions /\ ~StoreSmbus
    <3>1. UNCHANGED <<smbusLatest, stopFlag>>
      BY <2>5, ReaderFrame DEF renderVars
    <3>2. UNCHANGED smbusShared
      BY <2>5 DEF ReaderActions, ReaderRuns, TtSmiReturns, PollLoopHead,
         ParkedReaderStops, BackoffEnds, Nap, StoreMeta, StampMeta, StampSmbus,
         BumpGeneration, TtSmiSucceeds, TtSmiExitsNonZero, TtSmiSpawnFails
    <3>3. QED  BY <2>1, <3>1, <3>2
  <2>6. CASE RenderActions /\ ~AdoptSmbus /\ ~BeginDrop
    BY <2>1, <2>6 DEF RenderActions, UpdateStep, BeginUpdate, AdoptMeta,
       ReadClock, Blend, BlendIf, LoadMeta, OverlayPower, JoinReader
  <2>7. CASE Tick            BY <2>1, <2>7 DEF Tick, renderVars
  <2>8. CASE UNCHANGED vars  BY <2>1, <2>8 DEF vars, renderVars
  <2>9. QED  BY <2>2, <2>3, <2>4, <2>5, <2>6, <2>7, <2>8, StepCases
<1>3. QED  BY <1>1, <1>2, InductiveInvariant, PTL DEF Safety, Feed!FeedSafety

=============================================================================
