---------------------------- MODULE PartsProofs ----------------------------
(***************************************************************************)
(* Theorems about SnapshotJoin, for every set of positions, cards and bus  *)
(* ids, about TermWindow, for every set of window sizes and every length   *)
(* of text, and about TrainSteps, for every style, length of chunk and     *)
(* length of run.                                                          *)
(***************************************************************************)
EXTENDS SnapshotJoin, TermWindow, TrainSteps, SequenceTheorems, WellFoundedInduction, TLAPS

-----------------------------------------------------------------------------
(***************************************************************************)
(* The join.                                                               *)
(***************************************************************************)
\* mapping and claimed are the two directions of one relation.
Linked ==
  \A p \in Pos, i \in Index : mapping[p] = i <=> claimed[i] = p

\* Ids belong to mentioned positions, and the loops ascend.
Walk ==
  /\ \A p \in Pos : busIds[p] # None => p \in positions
  /\ todo \subseteq positions
  /\ \A p \in positions \ todo, q \in todo : p < q

Guess(p, i) ==
  /\ Owner(i) = {}
  /\ p = i
  /\ p \in positions
  /\ busIds[p] = None

\* Every join made so far is one the finished mapping keeps, made by the loop
\* that has passed the position.
Justified ==
  \A p \in Pos, i \in Index : mapping[p] = i =>
    \/ p \in Owner(i) /\ (pass = "bus" => p \notin todo)
    \/ Guess(p, i) /\ p \notin todo /\ pass \in {"position", "done"}

\* The first loop leaves no named card unclaimed behind it, the second one no
\* positional target.
BusSettled(reached) ==
  \A p \in reached : Target(p) # None => claimed[Target(p)] # None

PositionSettled(reached) ==
  \A p \in reached : busIds[p] = None => claimed[p] # None

Progress ==
  /\ pass = "start" => \A p \in Pos : mapping[p] = None
  /\ pass = "bus" => BusSettled(positions \ todo)
  /\ pass = "position" => BusSettled(positions) /\ PositionSettled(positions \ todo)
  /\ pass = "done" =>
       BusSettled(positions) /\ PositionSettled(positions) /\ todo = {}

\* Until a bus id is resolved there is nothing to claim about cards.
SomeCard == \E b \in Bus : busToIndex[b] # None

IInv ==
  /\ TypeOK
  /\ Linked
  /\ Walk
  /\ pass \in {"bus", "position"} => SomeCard
  /\ SomeCard => Justified
  /\ SomeCard => Progress

-----------------------------------------------------------------------------
LEMMA TypeInit == Init => TypeOK
  BY DEF Init, TypeOK

LEMMA TypeStep == TypeOK /\ [Next]_vars => TypeOK'
<1> SUFFICES ASSUME TypeOK, [Next]_vars PROVE TypeOK'
  OBVIOUS
<1> USE JoinAssumption DEF TypeOK, inputs, Takes, Claim, Drop, Target
<1>1. CASE KeepPositions      BY <1>1 DEF KeepPositions
<1>2. CASE BeginBusPass       BY <1>2 DEF BeginBusPass
<1>3. CASE BeginPositionPass  BY <1>3 DEF BeginPositionPass
<1>4. CASE Finish             BY <1>4 DEF Finish
<1>5. CASE Done               BY <1>5 DEF Done, vars
<1>6. ASSUME NEW p \in Pos, JoinByBus(p)
      PROVE  TypeOK'
  BY <1>6 DEF JoinByBus
<1>7. ASSUME NEW p \in Pos, JoinByPosition(p)
      PROVE  TypeOK'
  BY <1>7 DEF JoinByPosition
<1>8. CASE UNCHANGED vars     BY <1>8 DEF vars
<1>9. QED
  BY <1>1, <1>2, <1>3, <1>4, <1>5, <1>6, <1>7, <1>8 DEF Next

\* The inputs of the join never change, so neither does what they determine.
LEMMA InputsKept ==
  ASSUME [Next]_vars
  PROVE  /\ UNCHANGED inputs
         /\ SomeCard' = SomeCard
         /\ \A p : Target(p)' = Target(p)
         /\ \A i : Owner(i)' = Owner(i)
         /\ \A p, i : Guess(p, i)' = Guess(p, i)
<1>1. UNCHANGED inputs
  BY DEF Next, vars, KeepPositions, BeginBusPass, BeginPositionPass, Finish,
         Done, JoinByBus, JoinByPosition
<1>2. UNCHANGED <<busToIndex, positions, busIds>>
  BY <1>1 DEF inputs
<1>3. \A p : Target(p)' = Target(p)
  BY <1>2 DEF Target
<1>4. \A i : Owner(i)' = Owner(i)
  BY <1>2, <1>3 DEF Owner
<1>5. QED
  BY <1>1, <1>2, <1>3, <1>4 DEF SomeCard, Guess

LEMMA WalkStep ==
  ASSUME TypeOK, Walk, [Next]_vars
  PROVE  Walk'
<1> USE JoinAssumption DEF TypeOK, Walk, inputs
<1>1. UNCHANGED <<busToIndex, positions, busIds>>
  BY InputsKept
<1>2. CASE todo' = {}
  BY <1>1, <1>2
<1>3. CASE todo' = positions
  BY <1>1, <1>3
<1>4. CASE todo' = todo
  BY <1>1, <1>4
<1>5. ASSUME NEW p \in Pos, Takes(p)
      PROVE  Walk'
  <2>1. \A q \in todo' : p < q
    BY <1>5 DEF Takes
  <2>2. QED  BY <1>1, <1>5, <2>1 DEF Takes
<1>6. QED
  BY <1>2, <1>3, <1>4, <1>5 DEF Next, vars, KeepPositions, BeginBusPass,
     BeginPositionPass, Finish, Done, JoinByBus, JoinByPosition

\* A free card joined to a position that has none keeps the relation.
LEMMA ClaimLinks ==
  ASSUME TypeOK, Linked, NEW p \in Pos, NEW i \in Index,
         mapping[p] = None, claimed[i] = None, Claim(p, i)
  PROVE  Linked'
  BY JoinAssumption DEF TypeOK, Linked, Claim

\* The joining step of either loop, and the steps that move on.
LEMMA JoinStep ==
  ASSUME IInv, NEW p \in Pos, JoinByBus(p) \/ JoinByPosition(p)
  PROVE  Linked' /\ (SomeCard => Justified' /\ Progress')
<1> USE JoinAssumption DEF IInv, TypeOK
<1>0. /\ SomeCard
      /\ UNCHANGED <<busToIndex, positions, busIds, pass>>
      /\ pass \in {"bus", "position"}
      /\ Takes(p)
  BY DEF JoinByBus, JoinByPosition, inputs
<1>1. /\ \A q : Target(q)' = Target(q)
      /\ \A i : Owner(i)' = Owner(i)
      /\ \A q, i : Guess(q, i)' = Guess(q, i)
  BY InputsKept DEF Next
<1>2. /\ p \in todo
      /\ p \in positions
      /\ todo' = todo \ {p}
      /\ \A q \in positions : q < p => q \in positions \ todo
      /\ positions \ todo' = (positions \ todo) \cup {p}
  <2>1. p \in todo /\ todo' = todo \ {p} /\ \A q \in todo : p <= q
    BY <1>0 DEF Takes
  <2>2. QED  BY <2>1 DEF Walk
<1>3. \A q \in Pos : Target(q) \in Index \cup {None}
  BY DEF Target
<1>4. CASE JoinByBus(p) /\ Target(p) # None /\ claimed[Target(p)] = None
  <2> DEFINE i == Target(p)
  <2>1. i \in Index /\ Claim(p, i) /\ pass = "bus"
    BY <1>3, <1>4 DEF JoinByBus
  <2>2. mapping[p] = None
    BY <1>0, <1>2, <2>1 DEF Justified
  <2>3. p \in Owner(i)
    <3>1. \A q \in positions \ todo : Target(q) # i
      BY <1>0, <1>4, <2>1 DEF Progress, BusSettled
    <3>2. \A q \in positions : Target(q) = i => p <= q
      BY <1>2, <3>1
    <3>3. QED  BY <1>2, <3>2 DEF Owner
  <2>4. Linked'
    BY <1>4, <2>1, <2>2, ClaimLinks
  <2>5. Justified'
    <3> SUFFICES ASSUME NEW q \in Pos, NEW j \in Index, mapping'[q] = j
                 PROVE  q \in Owner(j) /\ q \notin todo'
      BY <1>1 DEF Justified
    <3>1. CASE q = p
      BY <1>2, <2>1, <2>3, <3>1 DEF Claim
    <3>2. CASE q # p
      <4>1. mapping[q] = j
        BY <2>1, <3>2 DEF Claim
      <4>2. QED  BY <1>0, <1>2, <2>1, <4>1 DEF Justified
    <3>3. QED  BY <3>1, <3>2
  <2>6. BusSettled(positions \ todo)'
    <3> SUFFICES ASSUME NEW q \in positions, q \notin todo', Target(q) # None
                 PROVE  claimed'[Target(q)] # None
      BY <1>0, <1>1 DEF BusSettled
    <3>1. CASE q = p
      BY <2>1, <3>1 DEF Claim
    <3>2. CASE q # p
      <4>1. claimed[Target(q)] # None
        BY <1>0, <1>2, <2>1, <3>2 DEF Progress, BusSettled
      <4>2. QED  BY <1>3, <2>1, <4>1 DEF Claim
    <3>3. QED  BY <3>1, <3>2
  <2>7. Progress'
    BY <1>0, <2>1, <2>6 DEF Progress
  <2>8. QED  BY <2>4, <2>5, <2>7
<1>5. CASE JoinByBus(p) /\ ~(Target(p) # None /\ claimed[Target(p)] = None)
  <2>1. UNCHANGED <<mapping, claimed>> /\ pass = "bus"
    BY <1>5 DEF JoinByBus, Drop
  <2>2. Linked'
    BY <2>1 DEF Linked
  <2>3. Justified'
    BY <1>0, <1>1, <1>2, <2>1 DEF Justified
  <2>4. BusSettled(positions \ todo)'
    BY <1>0, <1>1, <1>2, <1>5, <2>1 DEF Progress, BusSettled
  <2>5. QED  BY <1>0, <2>1, <2>2, <2>3, <2>4 DEF Progress
<1>6. CASE JoinByPosition(p) /\ busIds[p] = None /\ claimed[p] = None
  <2>1. p \in Index /\ Claim(p, p) /\ pass = "position"
    BY <1>6 DEF JoinByPosition
  <2>2. Target(p) = None
    BY <1>6 DEF Target
  <2>3. mapping[p] = None
    <3>1. \A i \in Index : p \notin Owner(i)
      BY <2>2 DEF Owner
    <3>2. QED  BY <1>0, <1>2, <3>1 DEF Justified
  <2>4. Guess(p, p)
    <3>1. \A q \in positions : Target(q) # p
      BY <1>0, <1>6, <2>1 DEF Progress, BusSettled
    <3>2. QED  BY <1>2, <1>6, <3>1 DEF Guess, Owner
  <2>5. Linked'
    BY <1>6, <2>1, <2>3, ClaimLinks
  <2>6. Justified'
    <3> SUFFICES ASSUME NEW q \in Pos, NEW j \in Index, mapping'[q] = j
                 PROVE  q \in Owner(j) \/ (Guess(q, j) /\ q \notin todo')
      BY <1>0, <1>1, <2>1 DEF Justified
    <3>1. CASE q = p
      BY <1>2, <2>1, <2>4, <3>1 DEF Claim
    <3>2. CASE q # p
      <4>1. mapping[q] = j
        BY <2>1, <3>2 DEF Claim
      <4>2. QED  BY <1>0, <1>2, <4>1 DEF Justified
    <3>3. QED  BY <3>1, <3>2
  <2>7. \A i \in Index : claimed[i] # None => claimed'[i] # None
    BY <2>1 DEF Claim
  <2>8. claimed'[p] # None
    BY <2>1 DEF Claim
  <2>9. BusSettled(positions)'
    BY <1>0, <1>1, <1>3, <2>1, <2>7 DEF Progress, BusSettled
  <2>10. PositionSettled(positions \ todo)'
    BY <1>0, <1>2, <2>1, <2>7, <2>8 DEF Progress, PositionSettled
  <2>11. QED  BY <1>0, <2>1, <2>5, <2>6, <2>9, <2>10 DEF Progress
<1>7. CASE JoinByPosition(p) /\ ~(busIds[p] = None /\ claimed[p] = None)
  <2>1. UNCHANGED <<mapping, claimed>> /\ pass = "position"
    BY <1>7 DEF JoinByPosition, Drop
  <2>2. Linked'
    BY <2>1 DEF Linked
  <2>3. Justified'
    BY <1>0, <1>1, <1>2, <2>1 DEF Justified
  <2>4. BusSettled(positions)'
    BY <1>0, <1>1, <2>1 DEF Progress, BusSettled
  <2>5. PositionSettled(positions \ todo)'
    BY <1>0, <1>2, <1>7, <2>1 DEF Progress, PositionSettled
  <2>6. QED  BY <1>0, <2>1, <2>2, <2>3, <2>4, <2>5 DEF Progress
<1>8. QED  BY <1>4, <1>5, <1>6, <1>7

LEMMA InvInit == Init => IInv
<1> SUFFICES ASSUME Init PROVE IInv
  OBVIOUS
<1>1. TypeOK
  BY TypeInit
<1>2. QED
  BY <1>1, JoinAssumption DEF Init, IInv, Linked, Walk, Justified, Progress

LEMMA InvStep == IInv /\ [Next]_vars => IInv'
<1> SUFFICES ASSUME IInv, [Next]_vars PROVE IInv'
  OBVIOUS
<1>1. TypeOK' /\ Walk'
  BY TypeStep, WalkStep DEF IInv
<1>2. SomeCard' = SomeCard
  BY InputsKept
<1>3. /\ \A q : Target(q)' = Target(q)
      /\ \A i : Owner(i)' = Owner(i)
      /\ \A q, i : Guess(q, i)' = Guess(q, i)
  BY InputsKept
<1>4. CASE KeepPositions
  <2>1. ~SomeCard
    BY <1>4 DEF KeepPositions, SomeCard
  <2>2. Linked'
    BY <1>4, JoinAssumption DEF KeepPositions, Linked, IInv, TypeOK
  <2>3. QED  BY <1>1, <1>2, <1>4, <2>1, <2>2 DEF KeepPositions, IInv
<1>5. CASE BeginBusPass
  <2>1. /\ UNCHANGED <<busToIndex, positions, busIds, mapping, claimed>>
        /\ pass = "start" /\ pass' = "bus" /\ todo' = positions /\ SomeCard
    BY <1>5 DEF BeginBusPass, inputs, SomeCard
  <2>2. Linked'
    BY <2>1 DEF Linked, IInv
  <2>3. Justified'
    BY <2>1, JoinAssumption DEF IInv, Progress, Justified
  <2>4. Progress'
    BY <2>1 DEF Progress, BusSettled
  <2>5. QED  BY <1>1, <1>2, <2>1, <2>2, <2>3, <2>4 DEF IInv
<1>6. CASE BeginPositionPass
  <2>1. /\ UNCHANGED <<busToIndex, positions, busIds, mapping, claimed>>
        /\ pass = "bus" /\ pass' = "position" /\ todo = {}
        /\ todo' = positions /\ SomeCard
    BY <1>6 DEF BeginPositionPass, inputs, IInv
  <2>2. Linked'
    BY <2>1 DEF Linked, IInv
  <2>3. Justified'
    BY <1>3, <2>1 DEF IInv, Justified
  <2>4. BusSettled(positions)'
    BY <1>3, <2>1 DEF IInv, Progress, BusSettled
  <2>5. Progress'
    BY <2>1, <2>4 DEF Progress, PositionSettled
  <2>6. QED  BY <1>1, <1>2, <2>1, <2>2, <2>3, <2>5 DEF IInv
<1>7. CASE Finish
  <2>1. /\ UNCHANGED <<busToIndex, positions, busIds, mapping, claimed, todo>>
        /\ pass = "position" /\ pass' = "done" /\ todo = {}
    BY <1>7 DEF Finish, inputs
  <2>2. Linked'
    BY <2>1 DEF Linked, IInv
  <2>3. SomeCard => Justified'
    BY <1>3, <2>1 DEF IInv, Justified
  <2>4. SomeCard => (BusSettled(positions) /\ PositionSettled(positions))'
    BY <1>3, <2>1 DEF IInv, Progress, BusSettled, PositionSettled
  <2>5. QED
    BY <1>1, <1>2, <2>1, <2>2, <2>3, <2>4 DEF IInv, Progress
<1>8. ASSUME NEW p \in Pos, JoinByBus(p) \/ JoinByPosition(p)
      PROVE  IInv'
  <2>1. pass' = pass
    BY <1>8 DEF JoinByBus, JoinByPosition
  <2>2. QED  BY <1>1, <1>2, <1>8, <2>1, JoinStep DEF IInv
<1>9. CASE UNCHANGED vars
  BY <1>1, <1>2, <1>3, <1>9 DEF vars, inputs, IInv, Linked, Justified,
     Progress, BusSettled, PositionSettled
<1>10. QED
  BY <1>4, <1>5, <1>6, <1>7, <1>8, <1>9 DEF Next, Done

\* The strengthening the theorems below rest on: mapping and claimed stay one
\* relation, and every join made is one the finished mapping keeps.
THEOREM InductiveInvariant == Spec => []IInv
  BY InvInit, InvStep, PTL DEF Spec

\* No card is ever given the data of two document entries.
THEOREM JoinIsInjective == Spec => []Injective
<1>1. ASSUME IInv PROVE Injective
  <2> SUFFICES ASSUME NEW p \in Pos, NEW q \in Pos,
                      mapping[p] # None, mapping[p] = mapping[q]
               PROVE  p = q
    BY DEF Injective
  <2>1. mapping[p] \in Index
    BY <1>1 DEF IInv, TypeOK
  <2>2. claimed[mapping[p]] = p /\ claimed[mapping[p]] = q
    BY <1>1, <2>1 DEF IInv, Linked
  <2>3. QED  BY <2>2
<1>2. QED  BY <1>1, InductiveInvariant, PTL

\* A finished join gives every card the first entry that names it, or the
\* anonymous entry at its position when none does, and nothing else.
THEOREM JoinFindsRightCard == Spec => []RightCard
<1>1. ASSUME IInv PROVE RightCard
  <2> USE <1>1 DEF IInv
  <2> SUFFICES ASSUME pass = "done", SomeCard, NEW p \in Pos, NEW i \in Index
               PROVE  mapping[p] = i <=> (p \in Owner(i) \/ Guess(p, i))
    BY DEF RightCard, SomeCard, Guess
  <2>1. mapping[p] = i => p \in Owner(i) \/ Guess(p, i)
    BY DEF Justified
  <2>2. ASSUME p \in Owner(i) PROVE mapping[p] = i
    <3>1. Target(p) = i /\ p \in positions
      BY <2>2 DEF Owner
    <3>2. claimed[i] # None
      BY <3>1, JoinAssumption DEF Progress, BusSettled
    <3>3. PICK r \in Pos : mapping[r] = i
      BY <3>2 DEF TypeOK, Linked
    <3>4. r \in Owner(i)
      BY <2>2, <3>3 DEF Justified, Guess
    <3>5. r = p
      BY <2>2, <3>4, JoinAssumption DEF Owner
    <3>6. QED  BY <3>3, <3>5
  <2>3. ASSUME Guess(p, i) PROVE mapping[p] = i
    <3>1. p = i /\ p \in positions /\ busIds[p] = None /\ Owner(i) = {}
      BY <2>3 DEF Guess
    <3>2. claimed[i] # None
      BY <3>1 DEF Progress, PositionSettled
    <3>3. PICK r \in Pos : mapping[r] = i
      BY <3>2 DEF TypeOK, Linked
    <3>4. r = p
      BY <3>1, <3>3 DEF Justified, Guess
    <3>5. QED  BY <3>3, <3>4
  <2>4. QED  BY <2>1, <2>2, <2>3
<1>2. QED  BY <1>1, InductiveInvariant, PTL

-----------------------------------------------------------------------------
(***************************************************************************)
(* The window: no program, whatever escape sequences it writes and         *)
(* whenever the window is resized between them, leaves the screen other    *)
(* than rows by columns, or the cursor outside it.                         *)
(*                                                                         *)
(* What is written into a cell plays no part, so no type of it is needed:  *)
(* Shaped says of a screen that it is a record of the right fields whose   *)
(* cells are a function on its rows of functions on its columns.           *)
(***************************************************************************)
SavedCursor == [col : Nat, row : Nat, wrap : BOOLEAN]

Screens(grids) ==
  [cols : Nat \ {0}, rows : Nat \ {0}, cells : grids, col : Nat, row : Nat, wrap : BOOLEAN,
   saved : SavedCursor]

IsGrid(grid, cols, rows) ==
  /\ grid = [r \in 1..rows |-> grid[r]]
  /\ \A r \in 1..rows : grid[r] = [c \in 1..cols |-> grid[r][c]]

Shaped(s) ==
  /\ s \in Screens({s.cells})
  /\ IsGrid(s.cells, s.cols, s.rows)
  /\ s.row < s.rows /\ s.col < s.cols

LEMMA LengthOfRow ==
  ASSUME NEW f, NEW n \in Nat, f = [c \in 1..n |-> f[c]] PROVE Len(f) = n
OBVIOUS

LEMMA ShapedIsWhole ==
  ASSUME NEW s, Shaped(s) PROVE Whole(s)
<1>1. Len(s.cells) = s.rows
  BY LengthOfRow DEF Shaped, Screens, IsGrid
<1>2. ASSUME NEW r \in 1..s.rows PROVE Len(s.cells[r]) = s.cols
  <2> DEFINE f == s.cells[r]
  <2>1. f = [c \in 1..s.cols |-> f[c]] /\ s.cols \in Nat  BY DEF Shaped, IsGrid, Screens
  <2> HIDE DEF f
  <2>2. Len(f) = s.cols  BY <2>1, LengthOfRow
  <2> QED  BY <2>2 DEF f
<1> QED  BY <1>1, <1>2 DEF Whole, Shaped

-----------------------------------------------------------------------------
(* The cursor. *)

LEMMA SameCells ==
  ASSUME NEW s, Shaped(s), NEW grids, NEW t \in Screens(grids), t.cells = s.cells,
         t.cols = s.cols, t.rows = s.rows, t.row < t.rows, t.col < t.cols
  PROVE  Shaped(t)
BY DEF Shaped, Screens

LEMMA Bounds ==
  /\ \A a, b \in Nat : Less(a, b) \in Nat /\ Less(a, b) <= a /\ Least(a, b) \in Nat /\ Least(a, b) <= b
  /\ \A n \in Nat : Count(n) \in Nat
BY DEF Less, Least, Count

\* Movements of the cursor leave the cells alone and stop at the edges.
LEMMA CursorMoves ==
  ASSUME NEW s, Shaped(s), NEW n \in Nat, NEW m \in Nat
  PROVE  /\ Shaped(CarriageReturn(s)) /\ Shaped(Backspace(s))
         /\ Shaped(CursorUp(s, n)) /\ Shaped(CursorDown(s, n))
         /\ Shaped(CursorForward(s, n)) /\ Shaped(CursorBack(s, n))
         /\ Shaped(CursorTo(s, n, m))
         /\ Shaped(SaveCursor(s)) /\ Shaped(RestoreCursor(s))
<1>1. PICK grids : s \in Screens(grids)
  BY DEF Shaped
<1>2. s.row < s.rows /\ s.col < s.cols
  BY DEF Shaped
<1>3. /\ s.cols - 1 \in Nat /\ s.rows - 1 \in Nat
      /\ s.row + Count(n) \in Nat /\ s.col + Count(n) \in Nat
      /\ s.saved.row \in Nat /\ s.saved.col \in Nat /\ s.saved.wrap \in BOOLEAN
  <2>1. Count(n) \in Nat  BY Bounds
  <2>2. s.cols - 1 \in Nat /\ s.rows - 1 \in Nat  BY <1>1 DEF Screens
  <2>3. s.row + Count(n) \in Nat /\ s.col + Count(n) \in Nat  BY <1>1, <2>1 DEF Screens
  <2>4. s.saved.row \in Nat /\ s.saved.col \in Nat /\ s.saved.wrap \in BOOLEAN
    BY <1>1 DEF Screens, SavedCursor
  <2> QED  BY <2>2, <2>3, <2>4
<1>4. Shaped(CarriageReturn(s))
  <2>1. CarriageReturn(s) \in Screens(grids)
    BY <1>1, <1>3, Bounds DEF CarriageReturn, Screens
  <2>2. /\ CarriageReturn(s).cells = s.cells
        /\ CarriageReturn(s).cols = s.cols /\ CarriageReturn(s).rows = s.rows
    BY <1>1 DEF CarriageReturn, Screens
  <2>3. CarriageReturn(s).row < s.rows /\ CarriageReturn(s).col < s.cols
    BY <1>1, <1>2, <1>3, Bounds DEF CarriageReturn, Screens
  <2> QED  BY <2>1, <2>2, <2>3, SameCells
<1>5. Shaped(Backspace(s))
  <2>1. Backspace(s) \in Screens(grids)
    BY <1>1, <1>3, Bounds DEF Backspace, Screens
  <2>2. /\ Backspace(s).cells = s.cells
        /\ Backspace(s).cols = s.cols /\ Backspace(s).rows = s.rows
    BY <1>1 DEF Backspace, Screens
  <2>3. Backspace(s).row < s.rows /\ Backspace(s).col < s.cols
    BY <1>1, <1>2, <1>3, Bounds DEF Backspace, Screens
  <2> QED  BY <2>1, <2>2, <2>3, SameCells
<1>6. Shaped(CursorUp(s, n))
  <2>1. CursorUp(s, n) \in Screens(grids)
    BY <1>1, <1>3, Bounds DEF CursorUp, Screens
  <2>2. /\ CursorUp(s, n).cells = s.cells
        /\ CursorUp(s, n).cols = s.cols /\ CursorUp(s, n).rows = s.rows
    BY <1>1 DEF CursorUp, Screens
  <2>3. CursorUp(s, n).row < s.rows /\ CursorUp(s, n).col < s.cols
    BY <1>1, <1>2, <1>3, Bounds DEF CursorUp, Screens
  <2> QED  BY <2>1, <2>2, <2>3, SameCells
<1>7. Shaped(CursorDown(s, n))
  <2>1. CursorDown(s, n) \in Screens(grids)
    BY <1>1, <1>3, Bounds DEF CursorDown, Screens
  <2>2. /\ CursorDown(s, n).cells = s.cells
        /\ CursorDown(s, n).cols = s.cols /\ CursorDown(s, n).rows = s.rows
    BY <1>1 DEF CursorDown, Screens
  <2>3. CursorDown(s, n).row < s.rows /\ CursorDown(s, n).col < s.cols
    BY <1>1, <1>2, <1>3, Bounds DEF CursorDown, Screens
  <2> QED  BY <2>1, <2>2, <2>3, SameCells
<1>8. Shaped(CursorForward(s, n))
  <2>1. CursorForward(s, n) \in Screens(grids)
    BY <1>1, <1>3, Bounds DEF CursorForward, Screens
  <2>2. /\ CursorForward(s, n).cells = s.cells
        /\ CursorForward(s, n).cols = s.cols /\ CursorForward(s, n).rows = s.rows
    BY <1>1 DEF CursorForward, Screens
  <2>3. CursorForward(s, n).row < s.rows /\ CursorForward(s, n).col < s.cols
    BY <1>1, <1>2, <1>3, Bounds DEF CursorForward, Screens
  <2> QED  BY <2>1, <2>2, <2>3, SameCells
<1>9. Shaped(CursorBack(s, n))
  <2>1. CursorBack(s, n) \in Screens(grids)
    BY <1>1, <1>3, Bounds DEF CursorBack, Screens
  <2>2. /\ CursorBack(s, n).cells = s.cells
        /\ CursorBack(s, n).cols = s.cols /\ CursorBack(s, n).rows = s.rows
    BY <1>1 DEF CursorBack, Screens
  <2>3. CursorBack(s, n).row < s.rows /\ CursorBack(s, n).col < s.cols
    BY <1>1, <1>2, <1>3, Bounds DEF CursorBack, Screens
  <2> QED  BY <2>1, <2>2, <2>3, SameCells
<1>10. Shaped(CursorTo(s, n, m))
  <2>1. CursorTo(s, n, m) \in Screens(grids)
    BY <1>1, <1>3, Bounds DEF CursorTo, Screens
  <2>2. /\ CursorTo(s, n, m).cells = s.cells
        /\ CursorTo(s, n, m).cols = s.cols /\ CursorTo(s, n, m).rows = s.rows
    BY <1>1 DEF CursorTo, Screens
  <2>3. CursorTo(s, n, m).row < s.rows /\ CursorTo(s, n, m).col < s.cols
    BY <1>1, <1>2, <1>3, Bounds DEF CursorTo, Screens
  <2> QED  BY <2>1, <2>2, <2>3, SameCells
<1>11. Shaped(SaveCursor(s))
  <2>1. SaveCursor(s) \in Screens(grids)
    BY <1>1, <1>3, Bounds DEF SaveCursor, Screens, SavedCursor
  <2>2. /\ SaveCursor(s).cells = s.cells
        /\ SaveCursor(s).cols = s.cols /\ SaveCursor(s).rows = s.rows
    BY <1>1 DEF SaveCursor, Screens
  <2>3. SaveCursor(s).row < s.rows /\ SaveCursor(s).col < s.cols
    BY <1>1, <1>2, <1>3, Bounds DEF SaveCursor, Screens
  <2> QED  BY <2>1, <2>2, <2>3, SameCells
<1>12. Shaped(RestoreCursor(s))
  <2>1. RestoreCursor(s) \in Screens(grids)
    BY <1>1, <1>3, Bounds DEF RestoreCursor, Screens
  <2>2. /\ RestoreCursor(s).cells = s.cells
        /\ RestoreCursor(s).cols = s.cols /\ RestoreCursor(s).rows = s.rows
    BY <1>1 DEF RestoreCursor, Screens
  <2>3. RestoreCursor(s).row < s.rows /\ RestoreCursor(s).col < s.cols
    BY <1>1, <1>2, <1>3, Bounds DEF RestoreCursor, Screens
  <2> QED  BY <2>1, <2>2, <2>3, SameCells
<1> QED  BY <1>4, <1>5, <1>6, <1>7, <1>8, <1>9, <1>10, <1>11, <1>12

(* The cells. *)

LEMMA NewCells ==
  ASSUME NEW s, Shaped(s), NEW grid, IsGrid(grid, s.cols, s.rows)
  PROVE  Shaped([s EXCEPT !.cells = grid])
BY DEF Shaped, Screens

LEMMA BlankIsRow ==
  ASSUME NEW cols \in Nat PROVE BlankRow(cols) = [c \in 1..cols |-> BlankRow(cols)[c]]
BY DEF BlankRow

\* A grid whose rows are each blank or a row of another one.
LEMMA RowsMove ==
  ASSUME NEW s, Shaped(s), NEW grid, grid = [r \in 1..s.rows |-> grid[r]],
         \A r \in 1..s.rows : grid[r] = BlankRow(s.cols) \/ \E q \in 1..s.rows : grid[r] = s.cells[q]
  PROVE  IsGrid(grid, s.cols, s.rows)
<1>1. ASSUME NEW r \in 1..s.rows PROVE grid[r] = [c \in 1..s.cols |-> grid[r][c]]
  <2>1. CASE grid[r] = BlankRow(s.cols)
    <3>1. s.cols \in Nat  BY DEF Shaped, Screens
    <3> QED  BY <2>1, <3>1, BlankIsRow
  <2>2. ASSUME NEW q \in 1..s.rows, grid[r] = s.cells[q]
        PROVE  grid[r] = [c \in 1..s.cols |-> grid[r][c]]
    <3>1. s.cells[q] = [c \in 1..s.cols |-> s.cells[q][c]]  BY DEF Shaped, IsGrid
    <3> QED  BY <2>2, <3>1
  <2> QED  BY <2>1, <2>2
<1> QED  BY <1>1 DEF IsGrid

LEMMA LinesGo ==
  ASSUME NEW s, Shaped(s), NEW top \in Nat, NEW n \in Nat
  PROVE  Shaped(DropLines(s, top, n))
<1> DEFINE grid == [r \in 1..s.rows |->
     IF r <= top THEN s.cells[r] ELSE IF r + n <= s.rows THEN s.cells[r + n] ELSE BlankRow(s.cols)]
<1>1. \A r \in 1..s.rows : grid[r] = BlankRow(s.cols) \/ \E q \in 1..s.rows : grid[r] = s.cells[q]
  <2>1. s.rows \in Nat  BY DEF Shaped, Screens
  <2>2. SUFFICES ASSUME NEW r \in 1..s.rows
                 PROVE  grid[r] = BlankRow(s.cols) \/ \E q \in 1..s.rows : grid[r] = s.cells[q]
    OBVIOUS
  <2>3. CASE r <= top  BY <2>3
  <2>4. CASE ~(r <= top) /\ r + n <= s.rows
    <3>1. r + n \in 1..s.rows  BY <2>1, <2>4
    <3> QED  BY <3>1, <2>4
  <2>5. CASE ~(r <= top) /\ ~(r + n <= s.rows)  BY <2>5
  <2> QED  BY <2>3, <2>4, <2>5
<1>2. grid = [r \in 1..s.rows |-> grid[r]]
  OBVIOUS
<1>3. DropLines(s, top, n) = [s EXCEPT !.cells = grid]
  BY DEF DropLines
<1> HIDE DEF grid
<1>4. IsGrid(grid, s.cols, s.rows)
  BY <1>1, <1>2, RowsMove
<1> QED  BY <1>3, <1>4, NewCells

LEMMA LinesCome ==
  ASSUME NEW s, Shaped(s), NEW n \in Nat PROVE Shaped(InsertLines(s, n))
<1> DEFINE grid == [r \in 1..s.rows |->
     IF r <= s.row THEN s.cells[r]
     ELSE IF r <= s.row + Count(n) THEN BlankRow(s.cols) ELSE s.cells[r - Count(n)]]
<1>1. \A r \in 1..s.rows : grid[r] = BlankRow(s.cols) \/ \E q \in 1..s.rows : grid[r] = s.cells[q]
  <2>1. s.rows \in Nat /\ s.row \in Nat /\ Count(n) \in Nat  BY Bounds DEF Shaped, Screens
  <2>2. SUFFICES ASSUME NEW r \in 1..s.rows
                 PROVE  grid[r] = BlankRow(s.cols) \/ \E q \in 1..s.rows : grid[r] = s.cells[q]
    OBVIOUS
  <2>3. CASE r <= s.row  BY <2>3
  <2>4. CASE ~(r <= s.row) /\ r <= s.row + Count(n)  BY <2>4
  <2>5. CASE ~(r <= s.row) /\ ~(r <= s.row + Count(n))
    <3>1. r - Count(n) \in 1..s.rows  BY <2>1, <2>5
    <3> QED  BY <3>1, <2>5
  <2> QED  BY <2>3, <2>4, <2>5
<1>2. grid = [r \in 1..s.rows |-> grid[r]]
  OBVIOUS
<1>3. InsertLines(s, n) = [s EXCEPT !.cells = grid]
  BY DEF InsertLines
<1> HIDE DEF grid
<1>4. IsGrid(grid, s.cols, s.rows)
  BY <1>1, <1>2, RowsMove
<1> QED  BY <1>3, <1>4, NewCells

LEMMA LinesMove ==
  ASSUME NEW s, Shaped(s), NEW n \in Nat
  PROVE  Shaped(ScrollUp(s, n)) /\ Shaped(DeleteLines(s, n))
<1>1. s.row \in Nat /\ Count(n) \in Nat  BY Bounds DEF Shaped, Screens
<1> QED  BY <1>1, LinesGo DEF ScrollUp, DeleteLines

LEMMA NewIsShaped ==
  ASSUME NEW cols \in Nat \ {0}, NEW rows \in Nat \ {0} PROVE Shaped(NewScreen(cols, rows))
BY DEF NewScreen, BlankRow, Shaped, Screens, SavedCursor, IsGrid

LEMMA ResizedIsShaped ==
  ASSUME NEW s, Shaped(s), NEW cols \in Nat \ {0}, NEW rows \in Nat \ {0}
  PROVE  Shaped(Resize(s, cols, rows))
<1> DEFINE grid == [r \in 1..rows |-> [c \in 1..cols |->
                         IF r <= s.rows /\ c <= s.cols THEN s.cells[r][c] ELSE Blank]]
           t == Resize(s, cols, rows)
<1>1. PICK grids : s \in Screens(grids)
  BY DEF Shaped
<1>2. IsGrid(grid, cols, rows)
  BY DEF IsGrid
<1>3. t.cells = grid /\ t.cols = cols /\ t.rows = rows
  BY <1>1 DEF Resize, Screens
<1>4. t \in Screens({grid})
  BY <1>1, Bounds, cols - 1 \in Nat, rows - 1 \in Nat DEF Resize, Screens
<1>5. t.row < rows /\ t.col < cols
  BY <1>1, Bounds, cols - 1 \in Nat, rows - 1 \in Nat DEF Resize, Screens
<1> HIDE DEF grid, t
<1>6. Shaped(t)
  BY <1>2, <1>3, <1>4, <1>5 DEF Shaped
<1> QED  BY <1>6 DEF t

LEMMA ErasedIsShaped ==
  ASSUME NEW s, Shaped(s), NEW n \in Nat
  PROVE  Shaped(EraseDisplay(s, n)) /\ Shaped(EraseLine(s, n))
<1>1. ASSUME NEW places PROVE Shaped(Erase(s, places))
  <2> DEFINE rest == [r \in 1..s.rows |-> [c \in 1..s.cols |->
                        IF <<r - 1, c - 1>> \in places THEN Blank ELSE s.cells[r][c]]]
  <2>1. IsGrid(rest, s.cols, s.rows)  BY DEF IsGrid
  <2>2. Erase(s, places) = [s EXCEPT !.cells = rest]  BY DEF Erase
  <2> HIDE DEF rest
  <2> QED  BY <2>1, <2>2, NewCells
<1> QED  BY <1>1 DEF EraseDisplay, EraseLine

\* Characters, line feeds and the reverse index.
LEMMA NextRowIsShaped ==
  ASSUME NEW s, Shaped(s) PROVE Shaped(NextRow(s)) /\ NextRow(s).rows = s.rows /\ NextRow(s).cols = s.cols
<1>1. PICK grids : s \in Screens(grids)
  BY DEF Shaped
<1>2. CASE s.row + 1 >= s.rows
  <2> DEFINE t == ScrollUp(s, 1)
  <2>1. Shaped(t)  BY LinesMove
  <2>2. t.cols = s.cols /\ t.rows = s.rows
    BY <1>1 DEF ScrollUp, DropLines, Screens
  <2>3. NextRow(s) = [t EXCEPT !.row = s.rows - 1]
    BY <1>2 DEF NextRow
  <2> HIDE DEF t
  <2>4. PICK others : t \in Screens(others)  BY <2>1 DEF Shaped
  <2>5. t.rows - 1 \in Nat  BY <2>4 DEF Screens
  <2>6. [t EXCEPT !.row = t.rows - 1] \in Screens(others)  BY <2>4, <2>5 DEF Screens
  <2>7. LET u == [t EXCEPT !.row = t.rows - 1]
        IN  u.cells = t.cells /\ u.cols = t.cols /\ u.rows = t.rows /\ u.row < t.rows /\ u.col = t.col
    BY <2>4 DEF Screens
  <2>8. t.col < t.cols  BY <2>1 DEF Shaped
  <2> QED  BY <2>1, <2>2, <2>3, <2>6, <2>7, <2>8, SameCells
<1>3. CASE ~(s.row + 1 >= s.rows)
  <2>1. NextRow(s) = [s EXCEPT !.row = @ + 1]
    BY <1>3 DEF NextRow
  <2>2. [s EXCEPT !.row = @ + 1] \in Screens(grids)  BY <1>1 DEF Screens
  <2>3. LET u == [s EXCEPT !.row = @ + 1]
        IN  u.cells = s.cells /\ u.cols = s.cols /\ u.rows = s.rows /\ u.row < s.rows /\ u.col = s.col
    BY <1>1, <1>3 DEF Screens
  <2>4. s.col < s.cols  BY DEF Shaped
  <2> QED  BY <2>1, <2>2, <2>3, <2>4, SameCells
<1> QED  BY <1>2, <1>3

LEMMA CharacterIsShaped ==
  ASSUME NEW s, Shaped(s), NEW glyph PROVE Shaped(PutChar(s, glyph))
<1> DEFINE wrapped == [s EXCEPT !.wrap = FALSE, !.col = 0]
           t == IF s.wrap THEN NextRow(wrapped) ELSE s
           grid == [t.cells EXCEPT ![t.row + 1][t.col + 1] = glyph]
           u == [t EXCEPT !.cells[t.row + 1][t.col + 1] = glyph]
           v == IF u.col + 1 >= u.cols THEN [u EXCEPT !.wrap = TRUE] ELSE [u EXCEPT !.col = @ + 1]
<1>1. Shaped(wrapped)
  <2>1. PICK grids : s \in Screens(grids)  BY DEF Shaped
  <2>2. wrapped \in Screens(grids)  BY <2>1 DEF Screens
  <2>3. wrapped.cells = s.cells /\ wrapped.cols = s.cols /\ wrapped.rows = s.rows
        /\ wrapped.col = 0 /\ wrapped.row = s.row
    BY <2>1 DEF Screens
  <2>4. s.row < s.rows /\ 0 < s.cols  BY <2>1 DEF Shaped, Screens
  <2> QED  BY <2>2, <2>3, <2>4, SameCells
<1>2. Shaped(t)
  BY <1>1, NextRowIsShaped
<1>3. PutChar(s, glyph) = v
  BY DEF PutChar
<1> HIDE DEF t, wrapped
<1>4. Shaped(u)
  <2>1. u = [t EXCEPT !.cells = grid]
    OBVIOUS
  <2>2. t.cells = [r \in 1..t.rows |-> t.cells[r]] /\ \A r \in 1..t.rows : t.cells[r] = [c \in 1..t.cols |-> t.cells[r][c]]
    BY <1>2 DEF Shaped, IsGrid
  <2>3. IsGrid(grid, t.cols, t.rows)
    <3>1. grid = [r \in 1..t.rows |-> grid[r]]
      BY <2>2
    <3>2. ASSUME NEW r \in 1..t.rows PROVE grid[r] = [c \in 1..t.cols |-> grid[r][c]]
      <4>1. CASE r = t.row + 1
        <5>1. grid[r] = [t.cells[r] EXCEPT ![t.col + 1] = glyph]  BY <4>1, <2>2
        <5>2. t.cells[r] = [c \in 1..t.cols |-> t.cells[r][c]]  BY <2>2
        <5> QED  BY <5>1, <5>2
      <4>2. CASE r # t.row + 1
        <5>1. grid[r] = t.cells[r]  BY <4>2, <2>2
        <5>2. t.cells[r] = [c \in 1..t.cols |-> t.cells[r][c]]  BY <2>2
        <5> QED  BY <5>1, <5>2
      <4> QED  BY <4>1, <4>2
    <3> QED  BY <3>1, <3>2 DEF IsGrid
  <2> HIDE DEF grid, u
  <2> QED  BY <1>2, <2>1, <2>3, NewCells
<1> HIDE DEF u
<1>5. PICK grids : u \in Screens(grids)
  BY <1>4 DEF Shaped
<1>6. u.row < u.rows /\ u.col < u.cols
  BY <1>4 DEF Shaped
<1>7. v \in Screens(grids)
  <2>1. [u EXCEPT !.wrap = TRUE] \in Screens(grids)  BY <1>5 DEF Screens
  <2>2. [u EXCEPT !.col = @ + 1] \in Screens(grids)  BY <1>5 DEF Screens
  <2> QED  BY <2>1, <2>2
<1>8. v.cells = u.cells /\ v.cols = u.cols /\ v.rows = u.rows /\ v.row = u.row
  BY <1>5 DEF Screens
<1>9. v.col < u.cols
  BY <1>5, <1>6 DEF Screens
<1> HIDE DEF v
<1> QED  BY <1>3, <1>4, <1>6, <1>7, <1>8, <1>9, SameCells

LEMMA FeedIsShaped ==
  ASSUME NEW s, Shaped(s) PROVE Shaped(LineFeed(s)) /\ Shaped(ReverseIndex(s))
<1>1. PICK grids : s \in Screens(grids)
  BY DEF Shaped
<1>2. s.row < s.rows /\ s.col < s.cols
  BY DEF Shaped
<1>3. Shaped([s EXCEPT !.wrap = FALSE])
  <2>1. [s EXCEPT !.wrap = FALSE] \in Screens(grids)  BY <1>1 DEF Screens
  <2>2. LET t == [s EXCEPT !.wrap = FALSE]
        IN  t.cells = s.cells /\ t.cols = s.cols /\ t.rows = s.rows /\ t.col = s.col /\ t.row = s.row
    BY <1>1 DEF Screens
  <2> QED  BY <1>2, <2>1, <2>2, SameCells
<1>4. Shaped(LineFeed(s))
  BY <1>3, NextRowIsShaped DEF LineFeed
<1>5. CASE s.row = 0
  <2>1. Shaped(InsertLines(s, 1))  BY LinesCome
  <2> QED  BY <1>4, <1>5, <2>1 DEF ReverseIndex
<1>6. CASE s.row # 0
  <2>1. [s EXCEPT !.row = @ - 1] \in Screens(grids)  BY <1>1, <1>6 DEF Screens
  <2>2. LET t == [s EXCEPT !.row = @ - 1]
        IN  t.cells = s.cells /\ t.cols = s.cols /\ t.rows = s.rows /\ t.col = s.col /\ t.row < s.rows
    BY <1>1, <1>2 DEF Screens
  <2>3. ReverseIndex(s) = [s EXCEPT !.row = @ - 1]  BY <1>6 DEF ReverseIndex
  <2> QED  BY <1>2, <1>4, <2>1, <2>2, <2>3, SameCells
<1> QED  BY <1>4, <1>5, <1>6

-----------------------------------------------------------------------------
(* The window. *)

WindowInv == termSize \in Size /\ Shaped(screen)

LEMMA InitIsShaped == WindowInit => WindowInv
<1> SUFFICES ASSUME WindowInit PROVE WindowInv
  OBVIOUS
<1>1. termSize \in Size /\ screen = NewScreen(termSize[1], termSize[2])
  BY DEF WindowInit
<1>2. termSize[1] \in Nat \ {0} /\ termSize[2] \in Nat \ {0}
  BY <1>1, WindowAssumption DEF Size
<1> QED  BY <1>1, <1>2, NewIsShaped DEF WindowInv

LEMMA StepIsShaped == WindowInv /\ [WindowNext]_windowVars => WindowInv'
<1> SUFFICES ASSUME WindowInv, [WindowNext]_windowVars PROVE WindowInv'
  OBVIOUS
<1> USE DEF WindowInv
<1>1. ASSUME NEW z \in Size, ResizeTerminal(z) PROVE WindowInv'
  BY <1>1 DEF ResizeTerminal
<1>2. CASE ResizeScreen
  <2>1. termSize[1] \in Nat \ {0} /\ termSize[2] \in Nat \ {0}
    BY WindowAssumption DEF Size
  <2> QED  BY <1>2, <2>1, ResizedIsShaped DEF ResizeScreen
<1>3. CASE DrawAll \/ DrawSome \/ ProgramEnds \/ ReadEnd \/ UNCHANGED windowVars
  BY <1>3 DEF DrawAll, DrawSome, ProgramEnds, ReadEnd, windowVars
<1>4. CASE ReadClear
  <2>1. Shaped(EraseDisplay(screen, 2))  BY ErasedIsShaped
  <2> QED  BY <1>4, <2>1 DEF ReadClear, Receives
<1>5. CASE ReadMove
  <2>1. PICK p \in Place : screen' = CursorTo(screen, p[1] + 1, p[2] + 1) /\ termSize' = termSize
    BY <1>5 DEF ReadMove, Receives
  <2>2. p[1] + 1 \in Nat /\ p[2] + 1 \in Nat
    BY WindowAssumption DEF Place, Size
  <2> QED  BY <2>1, <2>2, CursorMoves
<1>6. CASE ReadDraw
  <2>1. PICK p \in Place : screen' = PutChar(screen, p) /\ termSize' = termSize
    BY <1>6 DEF ReadDraw, Receives
  <2> QED  BY <2>1, CharacterIsShaped
<1>7. CASE WriteText
  <2>1. Shaped(PutChar(screen, Ink)) /\ Shaped(CarriageReturn(screen)) /\ Shaped(LineFeed(screen))
    BY CharacterIsShaped, CursorMoves, FeedIsShaped
  <2> QED  BY <1>7, <2>1 DEF WriteText, Writes
<1>8. CASE WriteSequence
  <2>1. Shaped(ReverseIndex(screen)) /\ Shaped(Backspace(screen))
        /\ Shaped(SaveCursor(screen)) /\ Shaped(RestoreCursor(screen))
    BY CursorMoves, FeedIsShaped
  <2>2. ASSUME NEW n \in Param
        PROVE  /\ Shaped(CursorUp(screen, n)) /\ Shaped(CursorDown(screen, n))
               /\ Shaped(CursorForward(screen, n)) /\ Shaped(CursorBack(screen, n))
               /\ Shaped(EraseDisplay(screen, n)) /\ Shaped(EraseLine(screen, n))
               /\ Shaped(InsertLines(screen, n)) /\ Shaped(DeleteLines(screen, n))
               /\ Shaped(ScrollUp(screen, n))
    <3>1. n \in Nat  BY WindowAssumption
    <3> QED  BY <3>1, CursorMoves, ErasedIsShaped, LinesCome, LinesMove
  <2>3. ASSUME NEW n \in Param, NEW m \in Param PROVE Shaped(CursorTo(screen, n, m))
    <3>1. n \in Nat /\ m \in Nat  BY WindowAssumption
    <3> QED  BY <3>1, CursorMoves
  <2>4. Shaped(screen')  BY <1>8, <2>1, <2>2, <2>3 DEF WriteSequence
  <2> QED  BY <1>8, <2>4 DEF WriteSequence, Writes
<1> QED  BY <1>1, <1>2, <1>3, <1>4, <1>5, <1>6, <1>7, <1>8 DEF WindowNext

\* Every handler of an escape sequence finds the cells it indexes, for every
\* size of the window, every order of sequences and every moment of a resize.
THEOREM GridStaysWhole == WindowSpec => []GridIsWhole
<1>1. WindowInv => GridIsWhole
  BY ShapedIsWhole DEF WindowInv, GridIsWhole
<1> QED  BY <1>1, InitIsShaped, StepIsShaped, PTL DEF WindowSpec

-----------------------------------------------------------------------------
(***************************************************************************)
(* What the window shows.  Two invariants, one for each kind of program.   *)
(*                                                                         *)
(* TextInv: while only text was written, the screen shows the last rows of *)
(* the paper and the cursor is behind the last character, on it when its   *)
(* row is full.  One more unit changes the last line by that unit          *)
(* (LinesOfMore), the last line's rows by a cell or a row (RowsGrow), the  *)
(* paper at its end (RowsGrowAtEnd), and the screen the same way.          *)
(*                                                                         *)
(* PictureInv: behind every clear on the wire come all cells of its size,  *)
(* each where the one before has left the cursor, and once a clear for the *)
(* screen's own size was read every cell shows its glyph or is still to    *)
(* come, before the next clear.                                            *)
(***************************************************************************)
(* Numbers. *)

\* A set of numbers that is not empty has a least element.
LEMMA LeastElement ==
  ASSUME NEW T, T \subseteq Nat, T # {}
  PROVE  \E x \in T : \A y \in T : x <= y
<1> DEFINE R == {p \in Nat \X Nat : p[1] < p[2]}
<1>1. R = OpToRel(<, Nat)
  BY DEF OpToRel
<1>2. IsWellFoundedOn(R, Nat)
  BY <1>1, NatLessThanWellFounded
<1> HIDE DEF R
<1>3. \E x \in T : \A y \in T : ~ (<<y, x>> \in R)
  BY <1>2, WFMin
<1>4. ASSUME NEW x \in Nat, NEW y \in Nat, y < x
      PROVE  <<y, x>> \in R
  BY <1>4 DEF R
<1>5. \A x, y \in Nat : ~(y < x) => x <= y
  OBVIOUS
<1>6. QED
  BY <1>3, <1>4, <1>5

\* What holds at a number and passes from each to the next holds from there on.
LEMMA Onwards ==
  ASSUME NEW T, NEW first \in Nat, first \in T, \A n \in Nat : first <= n /\ n \in T => n + 1 \in T
  PROVE  \A n \in Nat : first <= n => n \in T
<1> DEFINE Out == {n \in Nat : first <= n /\ n \notin T}
<1> SUFFICES ASSUME Out # {} PROVE FALSE
  OBVIOUS
<1>1. PICK n \in Out : \A m \in Out : n <= m
  <2>1. Out \subseteq Nat
    OBVIOUS
  <2> HIDE DEF Out
  <2> QED BY <2>1, LeastElement
<1>2. n \in Nat /\ first <= n /\ n \notin T
  OBVIOUS
<1>3. n # first /\ n - 1 \in Nat /\ first <= n - 1 /\ n - 1 + 1 = n /\ ~ (n <= n - 1)
  BY <1>2
<1>4. n - 1 \notin Out
  BY <1>1, <1>3
<1>5. n - 1 \in T
  BY <1>3, <1>4
<1> QED BY <1>2, <1>3, <1>5

-----------------------------------------------------------------------------
(* The lines of a text. *)

\* What one more character makes of them.
Longer(lines, unit) ==
  CASE unit = "ink" -> [lines EXCEPT ![Len(lines)] = @ + 1]
    [] unit = "feed" -> Append(lines, 0)
    [] unit = "return" -> lines

\* h counts the lines of the first n units, for every n up to there.
CountsLines(h, text, n) ==
  h = [k \in 0..n |-> IF k = 0 THEN <<0>> ELSE Longer(h[k - 1], text[k])]

\* A count exists for every number of units.
LEMMA LinesAreCounted ==
  ASSUME NEW text
  PROVE  \A n \in Nat : \E h : CountsLines(h, text, n)
<1> DEFINE T == {n \in Nat : \E h : CountsLines(h, text, n)}
<1>1. 0 \in T
  <2> DEFINE h == [k \in 0..0 |-> <<0>>]
  <2>1. h = [k \in 0..0 |-> IF k = 0 THEN <<0>> ELSE Longer(h[k - 1], text[k])]
    OBVIOUS
  <2> QED BY <2>1 DEF CountsLines
<1>2. ASSUME NEW n \in Nat, n \in T PROVE n + 1 \in T
  <2>1. PICK h : h = [k \in 0..n |-> IF k = 0 THEN <<0>> ELSE Longer(h[k - 1], text[k])]
    BY <1>2 DEF CountsLines
  <2> DEFINE e == [k \in 0..(n + 1) |-> IF k <= n THEN h[k] ELSE Longer(h[n], text[n + 1])]
  <2>2. ASSUME NEW k \in 0..(n + 1)
        PROVE  e[k] = IF k = 0 THEN <<0>> ELSE Longer(e[k - 1], text[k])
    <3>1. CASE k = 0
      <4>1. e[k] = h[0] /\ h[0] = <<0>>
        BY <3>1, <2>1
      <4> QED BY <3>1, <4>1
    <3>2. CASE k > 0 /\ k <= n
      <4>1. k \in 0..n /\ k - 1 \in 0..(n + 1) /\ k - 1 <= n
        BY <3>2
      <4>2. h[k] = Longer(h[k - 1], text[k])
        BY <4>1, <3>2, <2>1
      <4> QED BY <4>1, <4>2, <3>2
    <3>3. CASE k = n + 1
      <4>1. e[k] = Longer(h[n], text[k]) /\ e[n] = h[n] /\ k - 1 = n /\ k # 0
        BY <3>3
      <4> QED BY <4>1
    <3> QED BY <3>1, <3>2, <3>3
  <2>3. e = [k \in 0..(n + 1) |-> IF k = 0 THEN <<0>> ELSE Longer(e[k - 1], text[k])]
    <3> HIDE DEF e
    <3>1. e = [k \in 0..(n + 1) |-> e[k]]
      BY DEF e
    <3> QED BY <3>1, <2>2
  <2> HIDE DEF e
  <2>4. \E g : CountsLines(g, text, n + 1)
    BY <2>3 DEF CountsLines
  <2> QED BY <2>4
<1> HIDE DEF T
<1>3. \A n \in Nat : 0 <= n => n \in T
  BY <1>1, <1>2, Onwards
<1> QED BY <1>3 DEF T

\* And it is what LinesOf computes.
LEMMA LinesAreThoseCounted ==
  ASSUME NEW text, Len(text) \in Nat
  PROVE  \E h : CountsLines(h, text, Len(text)) /\ LinesOf(text) = h[Len(text)]
<1> DEFINE h == CHOOSE h : CountsLines(h, text, Len(text))
<1>1. CountsLines(h, text, Len(text))
  BY LinesAreCounted
<1>2. LinesOf(text) = h[Len(text)]
  BY DEF LinesOf, CountsLines, Longer
<1> QED BY <1>1, <1>2

\* Two texts count alike as long as they are alike.
LEMMA CountsAgree ==
  ASSUME NEW text, NEW other, NEW n \in Nat, NEW m \in Nat, n <= m,
         \A k \in 1..n : text[k] = other[k],
         NEW h, CountsLines(h, text, n), NEW g, CountsLines(g, other, m)
  PROVE  \A k \in 0..n : h[k] = g[k]
<1> DEFINE T == {k \in Nat : k \in 0..n => h[k] = g[k]}
<1>1. 0 \in T
  BY DEF CountsLines
<1>2. ASSUME NEW k \in Nat, k \in T PROVE k + 1 \in T
  <2> SUFFICES ASSUME k + 1 \in 0..n PROVE h[k + 1] = g[k + 1]
    OBVIOUS
  <2>1. k \in 0..n /\ k + 1 \in 0..m /\ k + 1 \in 1..n /\ k + 1 # 0 /\ k + 1 - 1 = k
    OBVIOUS
  <2>2. h[k + 1] = Longer(h[k], text[k + 1])
    BY <2>1 DEF CountsLines
  <2>3. g[k + 1] = Longer(g[k], other[k + 1])
    BY <2>1 DEF CountsLines
  <2> QED BY <1>2, <2>1, <2>2, <2>3
<1> HIDE DEF T
<1>3. \A k \in Nat : 0 <= k => k \in T
  BY <1>1, <1>2, Onwards
<1> QED BY <1>3 DEF T

\* No text is one line of no character.
LEMMA LinesOfNone == LinesOf(<<>>) = <<0>>
<1>1. Len(<<>>) = 0
  OBVIOUS
<1>2. PICK h : CountsLines(h, <<>>, 0) /\ LinesOf(<<>>) = h[0]
  BY <1>1, LinesAreThoseCounted
<1> QED BY <1>2 DEF CountsLines

\* One unit more changes the lines by that unit alone.
LEMMA LinesOfMore ==
  ASSUME NEW S, NEW text \in Seq(S), NEW unit \in S
  PROVE  LinesOf(Append(text, unit)) = Longer(LinesOf(text), unit)
<1> DEFINE n == Len(text)
           more == Append(text, unit)
<1>1. n \in Nat /\ Len(more) = n + 1 /\ more[n + 1] = unit /\ \A k \in 1..n : text[k] = more[k]
  OBVIOUS
<1>2. PICK h : CountsLines(h, text, n) /\ LinesOf(text) = h[n]
  BY <1>1, LinesAreThoseCounted
<1> HIDE DEF more, n
<1>3. PICK g : CountsLines(g, more, n + 1) /\ LinesOf(more) = g[n + 1]
  <2>1. Len(more) \in Nat
    BY <1>1
  <2> QED BY <1>1, <2>1, LinesAreThoseCounted
<1>4. h[n] = g[n]
  <2>1. n + 1 \in Nat /\ n <= n + 1 /\ n \in 0..n
    BY <1>1
  <2> QED BY <1>1, <1>2, <1>3, <2>1, CountsAgree
<1>5. g[n + 1] = Longer(g[n], more[n + 1])
  <2>1. n + 1 \in 0..(n + 1) /\ n + 1 # 0 /\ n + 1 - 1 = n
    BY <1>1
  <2>2. g[n + 1] = IF n + 1 = 0 THEN <<0>> ELSE Longer(g[n + 1 - 1], more[n + 1])
    BY <1>1, <1>3, <2>1 DEF CountsLines
  <2> QED BY <2>1, <2>2
<1> QED BY <1>1, <1>2, <1>3, <1>4, <1>5 DEF more

-----------------------------------------------------------------------------
(* Sequences laid end to end. *)

\* The same up to place n.
Alike(s, t, n) == \A i \in 1..n : s[i] = t[i]

\* Kept closed: what is joined need not be known to be sequences.
EndToEnd(a, b) == a \o b

\* h has the first i sequences of s end to end at i.
Flattens(h, s, n) == h = [i \in 1..n |-> IF i = 1 THEN s[i] ELSE EndToEnd(h[i - 1], s[i])]

\* There is one for every number of sequences.
LEMMA FlatExists ==
  ASSUME NEW s
  PROVE  \A n \in Nat : 1 <= n => \E h : Flattens(h, s, n)
<1> DEFINE T == {n \in Nat : \E h : Flattens(h, s, n)}
<1>1. 1 \in T
  <2> DEFINE h == [i \in 1..1 |-> s[i]]
  <2>1. h = [i \in 1..1 |-> IF i = 1 THEN s[i] ELSE EndToEnd(h[i - 1], s[i])]
    OBVIOUS
  <2> QED BY <2>1 DEF Flattens
<1>2. ASSUME NEW n \in Nat, 1 <= n, n \in T PROVE n + 1 \in T
  <2>1. PICK h : h = [i \in 1..n |-> IF i = 1 THEN s[i] ELSE EndToEnd(h[i - 1], s[i])]
    BY <1>2 DEF Flattens
  <2> DEFINE e == [i \in 1..(n + 1) |-> IF i <= n THEN h[i] ELSE EndToEnd(h[n], s[n + 1])]
  <2>2. ASSUME NEW i \in 1..(n + 1)
        PROVE  e[i] = IF i = 1 THEN s[i] ELSE EndToEnd(e[i - 1], s[i])
    <3>1. CASE i = 1
      <4>1. i \in 1..n
        BY <3>1, <1>2
      <4>2. e[i] = h[i] /\ h[i] = s[i]
        BY <3>1, <4>1, <2>1
      <4> QED BY <3>1, <4>2
    <3>2. CASE i > 1 /\ i <= n
      <4>1. i \in 1..n /\ i - 1 \in 1..(n + 1) /\ i - 1 <= n
        BY <3>2
      <4>2. h[i] = EndToEnd(h[i - 1], s[i])
        BY <4>1, <3>2, <2>1
      <4> QED BY <4>1, <4>2, <3>2
    <3>3. CASE i = n + 1
      <4>1. e[i] = EndToEnd(h[n], s[i]) /\ e[n] = h[n] /\ i - 1 = n /\ i # 1
        BY <3>3, <1>2
      <4> QED BY <4>1
    <3> QED BY <3>1, <3>2, <3>3
  <2>3. e = [i \in 1..(n + 1) |-> IF i = 1 THEN s[i] ELSE EndToEnd(e[i - 1], s[i])]
    <3> HIDE DEF e
    <3>1. e = [i \in 1..(n + 1) |-> e[i]]
      BY DEF e
    <3> QED BY <3>1, <2>2
  <2> HIDE DEF e
  <2>4. \E g : Flattens(g, s, n + 1)
    BY <2>3 DEF Flattens
  <2> QED BY <2>4
<1> HIDE DEF T
<1>3. \A n \in Nat : 1 <= n => n \in T
  BY <1>1, <1>2, Onwards
<1> QED BY <1>3 DEF T

\* And it is what FlattenSeq computes.
LEMMA FlatIs ==
  ASSUME NEW n \in Nat, 1 <= n, NEW s, s = [i \in 1..n |-> s[i]]
  PROVE  \E h : Flattens(h, s, n) /\ FlattenSeq(s) = h[n]
<1> DEFINE h == CHOOSE h : Flattens(h, s, n)
<1>1. Flattens(h, s, n)
  BY FlatExists
<1>2. Len(s) = n /\ n # 0
  BY LengthOfRow
<1>3. FlattenSeq(s) = h[n]
  BY <1>2 DEF FlattenSeq, Flattens, EndToEnd
<1> QED BY <1>1, <1>3

\* It depends on the sequences before a place only.
LEMMA FlatsAgree ==
  ASSUME NEW s, NEW t, NEW n \in Nat, NEW m \in Nat, n <= m, Alike(s, t, n),
         NEW h, Flattens(h, s, n), NEW g, Flattens(g, t, m)
  PROVE  Alike(h, g, n)
<1> DEFINE T == {i \in Nat : i \in 1..n => h[i] = g[i]}
<1>1. 1 \in T
  BY DEF Flattens, Alike
<1>2. ASSUME NEW i \in Nat, 1 <= i, i \in T PROVE i + 1 \in T
  <2> SUFFICES ASSUME i + 1 \in 1..n PROVE h[i + 1] = g[i + 1]
    OBVIOUS
  <2>1. i \in 1..n /\ i + 1 \in 1..m /\ i + 1 \in 1..n /\ i + 1 # 1 /\ i + 1 - 1 = i
    BY <1>2
  <2>2. h[i + 1] = EndToEnd(h[i], s[i + 1])
    BY <2>1 DEF Flattens
  <2>3. g[i + 1] = EndToEnd(g[i], t[i + 1])
    BY <2>1 DEF Flattens
  <2>4. s[i + 1] = t[i + 1]
    BY <2>1 DEF Alike
  <2> QED BY <1>2, <2>1, <2>2, <2>3, <2>4
<1> HIDE DEF T
<1>3. \A i \in Nat : 1 <= i => i \in T
  BY <1>1, <1>2, Onwards
<1> QED BY <1>3 DEF T, Alike

\* One sequence flattens to itself.
LEMMA FlatOfOne ==
  ASSUME NEW s, s = [i \in 1..1 |-> s[i]]
  PROVE  FlattenSeq(s) = s[1]
<1>1. 1 \in Nat /\ 1 <= 1
  OBVIOUS
<1>2. PICK h : Flattens(h, s, 1) /\ FlattenSeq(s) = h[1]
  BY <1>1, FlatIs
<1> QED BY <1>2 DEF Flattens

\* A sequence more comes behind the ones before it.
LEMMA FlatOfMore ==
  ASSUME NEW n \in Nat, 1 <= n, NEW s, s = [i \in 1..(n + 1) |-> s[i]]
  PROVE  FlattenSeq(s) = FlattenSeq([i \in 1..n |-> s[i]]) \o s[n + 1]
<1> DEFINE t == [i \in 1..n |-> s[i]]
<1>1. t = [i \in 1..n |-> t[i]] /\ \A i \in 1..n : t[i] = s[i]
  OBVIOUS
<1> HIDE DEF t
<1>2. PICK h : Flattens(h, t, n) /\ FlattenSeq(t) = h[n]
  BY <1>1, FlatIs
<1>3. PICK g : Flattens(g, s, n + 1) /\ FlattenSeq(s) = g[n + 1]
  <2>1. n + 1 \in Nat /\ 1 <= n + 1
    OBVIOUS
  <2> QED BY <2>1, FlatIs
<1>4. h[n] = g[n]
  <2>1. n + 1 \in Nat /\ n <= n + 1 /\ n \in 1..n
    OBVIOUS
  <2>2. Alike(t, s, n)
    BY <1>1 DEF Alike
  <2>3. Alike(h, g, n)
    <3>1. Flattens(h, t, n) /\ Flattens(g, s, n + 1)
      BY <1>2, <1>3
    <3>2. n + 1 \in Nat /\ n <= n + 1
      OBVIOUS
    <3> QED BY <3>1, <3>2, <2>2, FlatsAgree
  <2> QED BY <2>1, <2>3 DEF Alike
<1>5. g[n + 1] = EndToEnd(g[n], s[n + 1])
  <2>1. n + 1 \in 1..(n + 1) /\ n + 1 # 1 /\ n + 1 - 1 = n
    OBVIOUS
  <2>2. g[n + 1] = IF n + 1 = 1 THEN s[n + 1] ELSE EndToEnd(g[n + 1 - 1], s[n + 1])
    BY <1>3, <2>1 DEF Flattens
  <2> QED BY <2>1, <2>2
<1> QED BY <1>2, <1>3, <1>4, <1>5 DEF t, EndToEnd

\* Flattening keeps the type of the elements.
LEMMA FlatIsTyped ==
  ASSUME NEW S, NEW n \in Nat, 1 <= n, NEW s \in [1..n -> Seq(S)]
  PROVE  FlattenSeq(s) \in Seq(S)
<1> DEFINE T == {k \in Nat : \A t \in [1..k -> Seq(S)] : FlattenSeq(t) \in Seq(S)}
<1>1. 1 \in T
  <2> SUFFICES ASSUME NEW t \in [1..1 -> Seq(S)] PROVE FlattenSeq(t) \in Seq(S)
    OBVIOUS
  <2>1. t = [i \in 1..1 |-> t[i]] /\ t[1] \in Seq(S)
    OBVIOUS
  <2> QED BY <2>1, FlatOfOne
<1>2. ASSUME NEW k \in Nat, 1 <= k, k \in T PROVE k + 1 \in T
  <2> SUFFICES ASSUME NEW t \in [1..(k + 1) -> Seq(S)] PROVE FlattenSeq(t) \in Seq(S)
    OBVIOUS
  <2> DEFINE u == [i \in 1..k |-> t[i]]
  <2>1. u \in [1..k -> Seq(S)]
    OBVIOUS
  <2>2. FlattenSeq(u) \in Seq(S)
    BY <2>1, <1>2
  <2>3. t = [i \in 1..(k + 1) |-> t[i]] /\ t[k + 1] \in Seq(S)
    OBVIOUS
  <2>4. FlattenSeq(t) = FlattenSeq(u) \o t[k + 1]
    BY <1>2, <2>3, FlatOfMore
  <2> HIDE DEF u
  <2>5. FlattenSeq(u) \o t[k + 1] \in Seq(S)
    BY <2>2, <2>3, ConcatProperties
  <2> QED BY <2>4, <2>5
<1> HIDE DEF T
<1>3. \A k \in Nat : 1 <= k => k \in T
  BY <1>1, <1>2, Onwards
<1> QED BY <1>3 DEF T

-----------------------------------------------------------------------------
(* The rows of a line. *)

\* The rows that a line of n characters takes.
RowCount(n, cols) == Max({1, (n + cols - 1) \div cols})

\* A positive factor keeps the order.
LEMMA FactorKeepsOrder ==
  ASSUME NEW cols \in Nat, cols > 0, NEW a \in Int, NEW b \in Int
  PROVE  a <= b <=> cols * a <= cols * b
<1>1. ASSUME a <= b PROVE cols * a <= cols * b
  <2>1. b - a \in Nat /\ cols * (b - a) >= 0
    BY <1>1
  <2> QED BY <2>1
<1>2. ASSUME ~ (a <= b) PROVE cols * a > cols * b
  <2>1. a - b \in Nat /\ a - b >= 1
    BY <1>2
  <2>2. cols * (a - b) >= cols
    BY <2>1
  <2>3. cols * (a - b) = cols * a - cols * b
    OBVIOUS
  <2> QED BY <2>2, <2>3
<1>3. cols * a \in Int /\ cols * b \in Int
  OBVIOUS
<1> QED BY <1>1, <1>2, <1>3

\* They hold the line and one less would not.
LEMMA RowCountFacts ==
  ASSUME NEW n \in Nat, NEW cols \in Nat, cols > 0, NEW k, k = RowCount(n, cols)
  PROVE  /\ k \in Nat /\ k >= 1
         /\ cols * (k - 1) <= n /\ n <= cols * k
         /\ n > 0 => cols * (k - 1) < n
<1> DEFINE q == (n + cols - 1) \div cols
<1>1. q \in Nat /\ cols * q <= n + cols - 1 /\ n + cols - 1 < cols * q + cols
  <2>1. n + cols - 1 \in Nat
    OBVIOUS
  <2>2. q \in Int /\ n + cols - 1 = cols * q + ((n + cols - 1) % cols) /\ (n + cols - 1) % cols \in 0..(cols - 1)
    BY <2>1
  <2>3. cols * q \in Int
    BY <2>2
  <2>4. cols * q <= n + cols - 1 /\ n + cols - 1 < cols * q + cols
    BY <2>2, <2>3
  <2>5. q >= 0
    BY <2>1
  <2> QED BY <2>2, <2>4, <2>5
<1>2. k = Max({1, q})
  BY DEF RowCount
<1> HIDE DEF q
<1>3. k = IF 1 >= q THEN 1 ELSE q
  BY <1>1, <1>2 DEF Max
<1>4. cols * q \in Nat
  BY <1>1
<1>5. CASE q = 0
  <2>1. cols * q = 0
    BY <1>5
  <2>2. k = 1 /\ cols * (k - 1) = 0 /\ cols * k = cols
    BY <1>3, <1>5
  <2> QED BY <1>1, <2>1, <2>2
<1>6. CASE q >= 1
  <2>1. k = q
    BY <1>1, <1>3, <1>6
  <2>2. cols * (k - 1) = cols * q - cols
    BY <1>1, <2>1
  <2> QED BY <1>1, <1>4, <1>6, <2>1, <2>2
<1> QED BY <1>1, <1>5, <1>6

\* A number of rows that just holds the line is the number it takes.
LEMMA RowCountIs ==
  ASSUME NEW n \in Nat, NEW cols \in Nat, cols > 0, NEW j \in Nat, j >= 1,
         cols * (j - 1) < n, n <= cols * j
  PROVE  RowCount(n, cols) = j
<1> DEFINE k == RowCount(n, cols)
<1>1. cols * (j - 1) \in Nat /\ cols * j \in Nat /\ n > 0
  <2>1. j - 1 \in Nat /\ cols * (j - 1) \in Nat
    OBVIOUS
  <2> QED BY <2>1
<1>2. k \in Nat /\ k >= 1 /\ n <= cols * k /\ cols * (k - 1) < n
  BY <1>1, RowCountFacts
<1> HIDE DEF k
<1>3. cols * k \in Int /\ cols * (k - 1) \in Int /\ k - 1 \in Int /\ j - 1 \in Int
  BY <1>2
<1>4. ~ (cols * k <= cols * (j - 1)) /\ ~ (cols * j <= cols * (k - 1))
  BY <1>1, <1>2, <1>3
<1>5. ~ (k <= j - 1) /\ ~ (j <= k - 1)
  BY <1>2, <1>3, <1>4, FactorKeepsOrder
<1>6. k = j
  BY <1>2, <1>5
<1> QED BY <1>6 DEF k

\* All rows of a line but the last are full.
LEMMA RowsAre ==
  ASSUME NEW n \in Nat, NEW cols \in Nat, cols > 0
  PROVE  /\ RowsOf(n, cols) = [i \in 1..RowCount(n, cols) |-> RowsOf(n, cols)[i]]
         /\ \A i \in 1..(RowCount(n, cols) - 1) : RowsOf(n, cols)[i] = cols
         /\ RowsOf(n, cols)[RowCount(n, cols)] = n - cols * (RowCount(n, cols) - 1)
<1> DEFINE k == RowCount(n, cols)
<1>1. k \in Nat /\ k >= 1 /\ cols * (k - 1) <= n /\ n <= cols * k
  BY RowCountFacts
<1>2. RowsOf(n, cols) = [i \in 1..k |-> Least(cols, n - (i - 1) * cols)]
  BY DEF RowsOf, RowCount
<1> HIDE DEF k
<1>3. ASSUME NEW i \in 1..(k - 1) PROVE Least(cols, n - (i - 1) * cols) = cols
  <2>1. i \in Int /\ k - 1 \in Int /\ i <= k - 1
    BY <1>1
  <2>2. cols * i <= cols * (k - 1) /\ cols * i \in Int /\ cols * (k - 1) \in Int
    BY <2>1, FactorKeepsOrder
  <2>3. (i - 1) * cols = cols * i - cols
    BY <2>1
  <2>4. n - (i - 1) * cols \in Int /\ n - (i - 1) * cols >= cols
    BY <1>1, <2>2, <2>3
  <2> QED BY <2>4 DEF Least
<1>4. Least(cols, n - (k - 1) * cols) = n - cols * (k - 1)
  <2>1. (k - 1) * cols = cols * (k - 1) /\ cols * (k - 1) \in Int
    BY <1>1
  <2>2. cols * (k - 1) = cols * k - cols /\ cols * k \in Int
    BY <1>1
  <2>3. n - cols * (k - 1) \in Int /\ n - cols * (k - 1) <= cols
    BY <1>1, <2>1, <2>2
  <2> QED BY <2>1, <2>3 DEF Least
<1> QED BY <1>1, <1>2, <1>3, <1>4 DEF k

\* An empty line takes an empty row.
LEMMA RowsOfNone ==
  ASSUME NEW cols \in Nat, cols > 0
  PROVE  RowsOf(0, cols) = <<0>>
<1> DEFINE k == RowCount(0, cols)
           R == RowsOf(0, cols)
<1>1. k \in Nat /\ k >= 1 /\ cols * (k - 1) <= 0
  BY RowCountFacts
<1>2. R = [i \in 1..k |-> R[i]] /\ R[k] = 0 - cols * (k - 1)
  BY RowsAre
<1> HIDE DEF k, R
<1>3. k = 1
  <2>1. k - 1 \in Int /\ 0 \in Int /\ cols * 0 = 0
    BY <1>1
  <2>2. k - 1 <= 0
    BY <1>1, <2>1, FactorKeepsOrder
  <2> QED BY <1>1, <2>2
<1>4. R = [i \in 1..1 |-> 0]
  <2>1. R[1] = 0
    BY <1>2, <1>3
  <2> QED BY <1>2, <1>3, <2>1
<1> QED BY <1>4 DEF R

\* One more character goes into the last row, or begins a row when that is full.
LEMMA RowsGrow ==
  ASSUME NEW n \in Nat, NEW cols \in Nat, cols > 0, NEW m \in Nat, m = n + 1
  PROVE  LET R == RowsOf(n, cols)
         IN  /\ R \in Seq(0..cols) /\ R # <<>>
             /\ R[Len(R)] < cols => RowsOf(m, cols) = [R EXCEPT ![Len(R)] = @ + 1]
             /\ R[Len(R)] = cols => RowsOf(m, cols) = Append(R, 1)
<1> DEFINE R == RowsOf(n, cols)
           k == RowCount(n, cols)
           Q == RowsOf(m, cols)
           l == RowCount(m, cols)
<1>1. k \in Nat /\ k >= 1 /\ cols * (k - 1) <= n /\ n <= cols * k
  BY RowCountFacts
<1>2. /\ R = [i \in 1..k |-> R[i]]
      /\ \A i \in 1..(k - 1) : R[i] = cols
      /\ R[k] = n - cols * (k - 1)
  BY RowsAre
<1>3. PICK j \in Nat : j = k + 1
  BY <1>1
<1>4. /\ Q = [i \in 1..l |-> Q[i]]
      /\ \A i \in 1..(l - 1) : Q[i] = cols
      /\ Q[l] = m - cols * (l - 1)
  BY RowsAre
<1>5. cols * k \in Int /\ cols * (k - 1) \in Int /\ cols * (k - 1) = cols * k - cols
  BY <1>1
<1>6. l = IF n < cols * k THEN k ELSE j
  <2>1. CASE n < cols * k
    <3>1. cols * (k - 1) < m /\ m <= cols * k
      BY <1>1, <1>5, <2>1
    <3> QED BY <1>1, <2>1, <3>1, RowCountIs
  <2>2. CASE ~ (n < cols * k)
    <3>1. j >= 1 /\ cols * j = cols * k + cols /\ j - 1 = k
      BY <1>1, <1>3
    <3>2. cols * (j - 1) < m /\ m <= cols * j
      BY <1>1, <1>5, <2>2, <3>1
    <3> QED BY <2>2, <3>1, <3>2, RowCountIs
  <2> QED BY <2>1, <2>2
<1> HIDE DEF R, k, Q, l
<1>7. R[k] \in 0..cols
  BY <1>1, <1>2, <1>5
<1>8. R \in Seq(0..cols) /\ R # <<>> /\ Len(R) = k
  <2>1. \A i \in 1..k : R[i] \in 0..cols
    <3> SUFFICES ASSUME NEW i \in 1..k PROVE R[i] \in 0..cols
      OBVIOUS
    <3>1. CASE i = k
      BY <3>1, <1>7
    <3>2. CASE i # k
      <4>1. i \in 1..(k - 1)
        BY <3>2, <1>1
      <4>2. R[i] = cols
        BY <4>1, <1>2
      <4> QED BY <4>2
    <3> QED BY <3>1, <3>2
  <2>2. R \in [1..k -> 0..cols]
    BY <2>1, <1>2
  <2> HIDE <1>2
  <2> QED BY <2>2, <1>1
<1>9. R[k] < cols <=> n < cols * k
  BY <1>1, <1>2, <1>5
<1>10. ASSUME R[k] < cols PROVE Q = [R EXCEPT ![k] = @ + 1]
  <2>1. l = k
    BY <1>6, <1>9, <1>10
  <2>2. Q[k] = R[k] + 1
    BY <1>1, <1>2, <1>4, <1>5, <2>1
  <2>3. \A i \in 1..(k - 1) : Q[i] = R[i]
    BY <1>2, <1>4, <2>1
  <2>4. Q = [i \in 1..k |-> Q[i]]
    BY <1>4, <2>1
  <2>5. \A i \in 1..k : Q[i] = IF i = k THEN R[i] + 1 ELSE R[i]
    BY <1>1, <2>2, <2>3
  <2>6. R \in [1..k -> 0..cols]
    BY <1>8
  <2> QED BY <2>4, <2>5, <2>6
<1>11. ASSUME R[k] = cols PROVE Q = Append(R, 1)
  <2>1. l = j
    <3>1. ~ (R[k] < cols)
      BY <1>11
    <3>2. ~ (n < cols * k)
      BY <1>9, <3>1
    <3> QED BY <1>6, <3>2
  <2>2. n = cols * k
    <3>1. n - (cols * k - cols) = cols
      <4>1. R[k] = n - cols * (k - 1)
        BY <1>2
      <4>2. n - cols * (k - 1) = cols
        BY <1>11, <4>1
      <4> QED BY <1>5, <4>2
    <3> DEFINE x == cols * k
    <3>2. x \in Int /\ n - (x - cols) = cols
      BY <1>5, <3>1
    <3> HIDE DEF x
    <3>3. n = x
      BY <3>2
    <3> QED BY <3>3 DEF x
  <2>3. Q[j] = 1
    <3>1. j - 1 = k
      BY <1>1, <1>3
    <3>2. Q[j] = m - cols * (j - 1)
      BY <1>4, <2>1
    <3>3. cols * (j - 1) = n
      BY <2>2, <3>1
    <3> QED BY <3>2, <3>3
  <2>4. \A i \in 1..k : Q[i] = R[i]
    <3> SUFFICES ASSUME NEW i \in 1..k PROVE Q[i] = R[i]
      OBVIOUS
    <3>1. Q[i] = cols
      <4>1. i \in 1..(l - 1)
        BY <1>1, <1>3, <2>1
      <4> QED BY <1>4, <4>1
    <3>2. CASE i = k
      BY <1>11, <3>1, <3>2
    <3>3. CASE i # k
      <4>1. i \in 1..(k - 1)
        BY <3>3, <1>1
      <4> QED BY <1>2, <3>1, <4>1
    <3> QED BY <3>2, <3>3
  <2>5. Q = [i \in 1..j |-> Q[i]]
    BY <1>4, <2>1
  <2>6. Append(R, 1) = [i \in 1..j |-> IF i <= k THEN R[i] ELSE 1]
    <3>1. R \in Seq(Nat) /\ 1 \in Nat
      <4>1. 0..cols \subseteq Nat
        OBVIOUS
      <4> QED BY <1>8, <4>1
    <3> DEFINE A == Append(R, 1)
    <3>2. A \in Seq(Nat) /\ Len(A) = Len(R) + 1
      BY <3>1, AppendProperties
    <3>3. \A i \in 1..Len(R) : A[i] = R[i]
      BY <3>1, AppendProperties
    <3>4. A[Len(R) + 1] = 1
      BY <3>1, AppendProperties
    <3> HIDE DEF A
    <3>5. Len(R) = k /\ Len(R) + 1 = j /\ Len(A) = j
      BY <1>8, <1>3, <3>2
    <3>6. A = [i \in 1..j |-> A[i]]
      BY <3>2, <3>5
    <3>7. \A i \in 1..j : A[i] = IF i <= k THEN R[i] ELSE 1
      <4> SUFFICES ASSUME NEW i \in 1..j PROVE A[i] = IF i <= k THEN R[i] ELSE 1
        OBVIOUS
      <4>1. CASE i = j
        <5>1. ~ (i <= k) /\ A[i] = 1
          BY <4>1, <1>1, <1>3, <3>4, <3>5
        <5> QED BY <5>1
      <4>2. CASE i # j
        <5>1. i \in 1..k
          BY <4>2, <1>1, <1>3
        <5> QED BY <5>1, <3>3, <3>5
      <4> QED BY <4>1, <4>2
    <3>8. A = [i \in 1..j |-> IF i <= k THEN R[i] ELSE 1]
      BY <3>6, <3>7
    <3> QED BY <3>8 DEF A
  <2>7. \A i \in 1..j : Q[i] = IF i <= k THEN R[i] ELSE 1
    BY <1>1, <1>3, <2>3, <2>4
  <2> QED BY <2>5, <2>6, <2>7
<1> QED BY <1>8, <1>10, <1>11 DEF R, Q

(* The paper. *)

\* The rows that lines of these lengths take.
PaperOf(lines, cols) == FlattenSeq([i \in 1..Len(lines) |-> RowsOf(lines[i], cols)])

\* Rows that end with the ones of the last line.
EndsWith(P, front, R) == P = front \o R

\* One more in the last row.
OneMore(R) == [R EXCEPT ![Len(R)] = @ + 1]

\* No row is longer than the screen is wide.
LEMMA RowsAreRows ==
  ASSUME NEW n \in Nat, NEW cols \in Nat, cols > 0
  PROVE  RowsOf(n, cols) \in Seq(0..cols)
<1> PICK m \in Nat : m = n + 1
  OBVIOUS
<1> QED BY RowsGrow

\* One more character in the last of some rows, or a row for it, after others.
LEMMA RowsGrowAtEnd ==
  ASSUME NEW cols \in Nat, NEW F \in Seq(0..cols), NEW R \in Seq(0..cols), R # <<>>,
         NEW P, EndsWith(P, F, R)
  PROVE  /\ P \in Seq(0..cols) /\ P # <<>> /\ P[Len(P)] = R[Len(R)]
         /\ EndsWith(Append(P, 1), F, Append(R, 1))
         /\ R[Len(R)] < cols => EndsWith(OneMore(P), F, OneMore(R))
<1> DEFINE f == Len(F)
           l == Len(R)
<1>1. /\ P \in Seq(0..cols) /\ Len(P) = f + l
      /\ \A i \in 1..(f + l) : P[i] = IF i <= f THEN F[i] ELSE R[i - f]
  BY ConcatProperties DEF EndsWith
<1>2. f \in Nat /\ l \in Nat /\ l >= 1
  <2>1. l \in Nat \ {0}
    BY EmptySeq
  <2> QED BY <2>1
<1> HIDE DEF f, l
<1>3. P # <<>>
  BY <1>1, <1>2
<1>4. P[f + l] = R[l]
  <2>1. PICK z \in Nat : z = f + l
    BY <1>2
  <2>2. z \in 1..(f + l) /\ ~ (z <= f) /\ z - f = l
    BY <1>2, <2>1
  <2>3. P[z] = R[z - f]
    BY <1>1, <2>2
  <2> QED BY <2>1, <2>2, <2>3
<1>5. Append(P, 1) = F \o Append(R, 1)
  <2> DEFINE A == Append(P, 1)
             B == Append(R, 1)
             C == F \o B
  <2>1. F \in Seq(Nat) /\ R \in Seq(Nat) /\ P \in Seq(Nat)
    <3>1. 0..cols \subseteq Nat
      OBVIOUS
    <3> QED BY <1>1, <3>1, SeqMonotonic
  <2>2. A \in Seq(Nat) /\ Len(A) = f + l + 1 /\ (\A i \in 1..(f + l) : A[i] = P[i]) /\ A[f + l + 1] = 1
    BY <2>1, <1>1, AppendProperties
  <2>3. B \in Seq(Nat) /\ Len(B) = l + 1 /\ (\A i \in 1..l : B[i] = R[i]) /\ B[l + 1] = 1
    BY <2>1, AppendProperties DEF l
  <2> HIDE DEF A, B
  <2>4. /\ C \in Seq(Nat) /\ Len(C) = f + (l + 1)
        /\ \A i \in 1..(f + (l + 1)) : C[i] = IF i <= f THEN F[i] ELSE B[i - f]
    <3> HIDE DEF C
    <3>1. /\ C \in Seq(Nat) /\ Len(C) = Len(F) + Len(B)
          /\ \A i \in 1..(Len(F) + Len(B)) : C[i] = IF i <= Len(F) THEN F[i] ELSE B[i - Len(F)]
      BY <2>1, <2>3, ConcatProperties DEF C
    <3>2. Len(F) = f /\ Len(B) = l + 1
      BY <2>3 DEF f
    <3> QED BY <3>1, <3>2
  <2> HIDE DEF C
  <2>5. PICK z \in Nat : z = f + l + 1
    BY <1>2
  <2>6. PICK y \in Nat : y = l + 1
    BY <1>2
  <2>7. ASSUME NEW i \in 1..z PROVE A[i] = C[i]
    <3>1. CASE i <= f
      <4>1. i \in 1..(f + l) /\ i \in 1..(f + (l + 1))
        BY <3>1, <1>2
      <4> QED BY <3>1, <4>1, <2>2, <2>4, <1>1
    <3>2. CASE ~ (i <= f) /\ i # z
      <4>1. i \in 1..(f + l) /\ i \in 1..(f + (l + 1)) /\ i - f \in 1..l
        BY <3>2, <1>2, <2>5
      <4>2. C[i] = B[i - f] /\ B[i - f] = R[i - f]
        BY <3>2, <4>1, <2>3, <2>4
      <4>3. A[i] = P[i] /\ P[i] = R[i - f]
        BY <3>2, <4>1, <2>2, <1>1
      <4> QED BY <4>2, <4>3
    <3>3. CASE i = z
      <4>1. i \in 1..(f + (l + 1)) /\ i - f = y /\ ~ (i <= f)
        BY <3>3, <1>2, <2>5, <2>6
      <4>2. C[i] = B[i - f]
        BY <4>1, <2>4
      <4>3. B[y] = 1
        BY <2>3, <2>6
      <4>4. A[z] = 1
        BY <2>2, <2>5
      <4> QED BY <3>3, <4>1, <4>2, <4>3, <4>4
    <3> QED BY <3>1, <3>2, <3>3
  <2>8. Len(A) = z /\ Len(C) = z
    BY <1>2, <2>2, <2>4, <2>5
  <2>9. A = C
    BY <2>2, <2>4, <2>7, <2>8, SeqEqual
  <2> QED BY <2>9 DEF A, B, C
<1>6. ASSUME R[l] < cols PROVE F \o [R EXCEPT ![l] = @ + 1] = [P EXCEPT ![f + l] = @ + 1]
  <2> DEFINE x == R[l] + 1
             Q == [R EXCEPT ![l] = x]
             G == [P EXCEPT ![f + l] = x]
  <2>1. l \in 1..l /\ f + l \in 1..(f + l)
    BY <1>2
  <2>2. x \in 0..cols
    <3>1. R[l] \in 0..cols
      BY <2>1, ElementOfSeq DEF l
    <3> QED BY <3>1, <1>6
  <2>3. Q = [R EXCEPT ![l] = @ + 1] /\ G = [P EXCEPT ![f + l] = @ + 1]
    BY <1>4
  <2> HIDE DEF x
  <2>4. Q \in Seq(0..cols) /\ Len(Q) = l /\ \A j \in 1..l : Q[j] = IF j = l THEN x ELSE R[j]
    BY <2>1, <2>2, ExceptSeq DEF l
  <2>5. G \in Seq(0..cols) /\ Len(G) = f + l /\ \A j \in 1..(f + l) : G[j] = IF j = f + l THEN x ELSE P[j]
    <3>1. PICK z \in Nat : z = f + l
      BY <1>2
    <3>2. z \in 1..Len(P)
      BY <1>1, <2>1, <3>1
    <3> HIDE DEF x
    <3> DEFINE H == [P EXCEPT ![z] = x]
    <3>3. H \in Seq(0..cols) /\ Len(H) = Len(P) /\ \A j \in 1..Len(P) : H[j] = IF j = z THEN x ELSE P[j]
      BY <1>1, <2>2, <3>2, ExceptSeq
    <3>4. H = G
      BY <3>1
    <3> HIDE DEF H, G
    <3> QED BY <1>1, <3>1, <3>3, <3>4
  <2> HIDE DEF Q, G
  <2>6. /\ F \o Q \in Seq(0..cols) /\ Len(F \o Q) = f + l
        /\ \A i \in 1..(f + l) : (F \o Q)[i] = IF i <= f THEN F[i] ELSE Q[i - f]
    BY <2>4, ConcatProperties DEF f
  <2>7. ASSUME NEW i \in 1..(f + l) PROVE (F \o Q)[i] = G[i]
    <3>1. CASE i <= f
      <4>1. i # f + l
        BY <3>1, <1>2
      <4>2. G[i] = P[i] /\ P[i] = F[i]
        BY <2>5, <1>1, <3>1, <4>1
      <4>3. (F \o Q)[i] = F[i]
        BY <2>6, <3>1
      <4> QED BY <4>2, <4>3
    <3>2. CASE i > f /\ i # f + l
      <4>1. i - f \in 1..l /\ i - f # l /\ ~ (i <= f)
        BY <3>2, <1>2
      <4>2. G[i] = P[i] /\ P[i] = R[i - f]
        BY <2>5, <1>1, <3>2, <4>1
      <4>3. (F \o Q)[i] = Q[i - f] /\ Q[i - f] = R[i - f]
        BY <2>4, <2>6, <4>1
      <4> QED BY <4>2, <4>3
    <3>3. CASE i = f + l
      <4>1. i - f = l /\ ~ (i <= f)
        BY <3>3, <1>2
      <4>2. (F \o Q)[i] = Q[l] /\ Q[l] = x
        BY <2>1, <2>4, <2>6, <4>1
      <4>3. G[i] = x
        BY <2>5, <3>3
      <4> QED BY <4>2, <4>3
    <3>4. i <= f \/ (i > f /\ i # f + l) \/ i = f + l
      BY <1>2
    <3> QED BY <3>1, <3>2, <3>3, <3>4
  <2>8. F \o Q = G
    <3> DEFINE H == F \o Q
    <3>1. H \in Seq(0..cols) /\ G \in Seq(0..cols) /\ Len(H) = Len(G) /\ Len(H) = f + l
      BY <2>5, <2>6
    <3>2. \A i \in 1..(f + l) : H[i] = G[i]
      BY <2>7
    <3> HIDE DEF H
    <3>3. H = G
      BY <3>1, <3>2, SeqEqual
    <3> QED BY <3>3 DEF H
  <2> QED BY <2>3, <2>8
<1> QED BY <1>1, <1>3, <1>4, <1>5, <1>6 DEF f, l, OneMore, EndsWith

\* The rows of a text end with those of its last line, which follow those of the
\* lines before it.
LEMMA LastLineIsLast ==
  ASSUME NEW cols \in Nat, cols > 0, NEW L \in Seq(Nat), L # <<>>
  PROVE  \E F \in Seq(0..cols) : \A M \in Seq(Nat) :
           /\ Len(M) = Len(L)
           /\ \A i \in 1..(Len(L) - 1) : M[i] = L[i]
           => EndsWith(PaperOf(M, cols), F, RowsOf(M[Len(L)], cols))
<1> DEFINE n == Len(L)
<1>1. n \in Nat /\ n >= 1
  <2>1. n \in Nat \ {0}
    BY EmptySeq
  <2> QED BY <2>1
<1> HIDE DEF n
<1>2. CASE n = 1
  <2>1. <<>> \in Seq(0..cols)
    OBVIOUS
  <2>2. ASSUME NEW M \in Seq(Nat), Len(M) = n
        PROVE  EndsWith(PaperOf(M, cols), <<>>, RowsOf(M[n], cols))
    <3> DEFINE s == [i \in 1..Len(M) |-> RowsOf(M[i], cols)]
    <3>1. s = [i \in 1..1 |-> s[i]] /\ s[1] = RowsOf(M[n], cols)
      <4>1. Len(M) = 1 /\ n = 1
        BY <2>2, <1>2
      <4>2. s = [i \in 1..1 |-> RowsOf(M[i], cols)]
        BY <4>1
      <4>3. s = [i \in 1..1 |-> s[i]]
        BY <4>2
      <4>4. s[1] = RowsOf(M[1], cols)
        BY <4>2
      <4> QED BY <4>1, <4>3, <4>4
    <3>2. M[n] \in Nat
      <4>1. 1 \in 1..Len(M) /\ n = 1
        BY <2>2, <1>2
      <4>2. M[1] \in Nat
        BY <4>1, ElementOfSeq
      <4> QED BY <4>1, <4>2
    <3> HIDE DEF s
    <3>3. FlattenSeq(s) = RowsOf(M[n], cols)
      BY <3>1, FlatOfOne
    <3>4. RowsOf(M[n], cols) \in Seq(0..cols)
      BY <3>2, RowsAreRows
    <3>5. <<>> \o RowsOf(M[n], cols) = RowsOf(M[n], cols)
      BY <3>4, ConcatEmptySeq
    <3>6. FlattenSeq(s) = PaperOf(M, cols)
      BY DEF PaperOf, s
    <3> QED BY <3>3, <3>5, <3>6 DEF EndsWith
  <2> QED BY <2>1, <2>2 DEF n
<1>3. CASE n > 1
  <2>1. PICK k \in Nat : n = k + 1 /\ k >= 1
    <3>1. n - 1 \in Nat /\ n = (n - 1) + 1 /\ n - 1 >= 1
      BY <1>1, <1>3
    <3> QED BY <3>1
  <2> DEFINE front == [i \in 1..k |-> RowsOf(L[i], cols)]
             F == FlattenSeq(front)
  <2>2. F \in Seq(0..cols)
    <3>1. ASSUME NEW i \in 1..k PROVE front[i] \in Seq(0..cols)
      <4>1. i \in 1..n
        BY <2>1
      <4>2. L[i] \in Nat
        BY <4>1, ElementOfSeq DEF n
      <4> QED BY <4>2, RowsAreRows
    <3>2. front \in [1..k -> Seq(0..cols)]
      BY <3>1
    <3> HIDE DEF front
    <3> QED BY <3>2, <2>1, FlatIsTyped
  <2>3. ASSUME NEW M \in Seq(Nat), Len(M) = n, \A i \in 1..k : M[i] = L[i]
        PROVE  EndsWith(PaperOf(M, cols), F, RowsOf(M[n], cols))
    <3> DEFINE s == [i \in 1..(k + 1) |-> RowsOf(M[i], cols)]
    <3>1. s = [i \in 1..(k + 1) |-> s[i]] /\ s[k + 1] = RowsOf(M[n], cols)
      <4>1. k + 1 \in 1..(k + 1)
        BY <2>1
      <4> QED BY <2>1, <4>1
    <3>2. [i \in 1..k |-> s[i]] = front
      <4>1. \A i \in 1..k : i \in 1..(k + 1)
        BY <2>1
      <4> QED BY <4>1, <2>3
    <3>3. PaperOf(M, cols) = FlattenSeq(s)
      BY <2>3, <2>1 DEF PaperOf
    <3> HIDE DEF s, front
    <3>4. FlattenSeq(s) = FlattenSeq([i \in 1..k |-> s[i]]) \o s[k + 1]
      BY <3>1, <2>1, FlatOfMore
    <3> QED BY <3>1, <3>2, <3>3, <3>4 DEF EndsWith
  <2> HIDE DEF F
  <2>4. n - 1 = k
    BY <2>1
  <2> QED BY <2>2, <2>3, <2>4 DEF n
<1> QED BY <1>1, <1>2, <1>3

\* A character goes into the last row, or begins one when that is full.
LEMMA PaperInk ==
  ASSUME NEW cols \in Nat, cols > 0, NEW L \in Seq(Nat), L # <<>>,
         NEW P, P = PaperOf(L, cols), NEW Q, Q = PaperOf(OneMore(L), cols)
  PROVE  /\ P \in Seq(0..cols) /\ P # <<>>
         /\ P[Len(P)] < cols => Q = OneMore(P)
         /\ P[Len(P)] = cols => Q = Append(P, 1)
<1> DEFINE n == Len(L)
           x == L[n] + 1
           M == [L EXCEPT ![n] = x]
<1>1. n \in Nat /\ n >= 1 /\ n \in 1..n
  <2>1. n \in Nat \ {0}
    BY EmptySeq
  <2> QED BY <2>1
<1>2. L[n] \in Nat
  BY <1>1, ElementOfSeq
<1>3. M = OneMore(L)
  BY DEF OneMore
<1> HIDE DEF n
<1>4. x \in Nat
  BY <1>2
<1>5. M \in Seq(Nat) /\ Len(M) = n /\ M[n] = x /\ \A i \in 1..(n - 1) : M[i] = L[i]
  <2> HIDE DEF x
  <2>1. M \in Seq(Nat) /\ Len(M) = n /\ \A i \in 1..n : M[i] = IF i = n THEN x ELSE L[i]
    BY <1>1, <1>4, ExceptSeq DEF n
  <2> HIDE DEF M
  <2>2. \A i \in 1..(n - 1) : i \in 1..n /\ i # n
    BY <1>1
  <2> QED BY <1>1, <2>1, <2>2
<1> HIDE DEF M
<1>6. PICK F \in Seq(0..cols) :
        EndsWith(P, F, RowsOf(L[n], cols)) /\ EndsWith(Q, F, RowsOf(x, cols))
  <2>1. PICK F \in Seq(0..cols) : \A N \in Seq(Nat) :
          /\ Len(N) = n
          /\ \A i \in 1..(n - 1) : N[i] = L[i]
          => EndsWith(PaperOf(N, cols), F, RowsOf(N[n], cols))
    BY LastLineIsLast DEF n
  <2>2. EndsWith(PaperOf(L, cols), F, RowsOf(L[n], cols))
    BY <2>1 DEF n
  <2>3. EndsWith(PaperOf(M, cols), F, RowsOf(M[n], cols))
    BY <2>1, <1>5
  <2> QED BY <2>2, <2>3, <1>3, <1>5
<1> DEFINE R == RowsOf(L[n], cols)
<1>7. /\ R \in Seq(0..cols) /\ R # <<>>
      /\ R[Len(R)] < cols => RowsOf(x, cols) = OneMore(R)
      /\ R[Len(R)] = cols => RowsOf(x, cols) = Append(R, 1)
  BY <1>2, <1>4, RowsGrow DEF OneMore
<1> HIDE DEF R, x
<1>8. EndsWith(P, F, R) /\ EndsWith(Q, F, RowsOf(x, cols))
  BY <1>6 DEF R
<1>9. /\ P \in Seq(0..cols) /\ P # <<>> /\ P[Len(P)] = R[Len(R)]
      /\ EndsWith(Append(P, 1), F, Append(R, 1))
      /\ R[Len(R)] < cols => EndsWith(OneMore(P), F, OneMore(R))
  BY <1>7, <1>8, RowsGrowAtEnd
<1> QED BY <1>7, <1>8, <1>9 DEF EndsWith

\* A line feed begins a row.
LEMMA PaperFeed ==
  ASSUME NEW cols \in Nat, cols > 0, NEW L \in Seq(Nat), L # <<>>
  PROVE  PaperOf(Append(L, 0), cols) = Append(PaperOf(L, cols), 0)
<1> DEFINE n == Len(L)
           M == Append(L, 0)
           s == [i \in 1..(n + 1) |-> RowsOf(M[i], cols)]
           P == PaperOf(L, cols)
<1>1. n \in Nat /\ n >= 1
  <2>1. n \in Nat \ {0}
    BY EmptySeq
  <2> QED BY <2>1
<1>2. Len(M) = n + 1 /\ M[n + 1] = 0 /\ \A i \in 1..n : M[i] = L[i]
  BY AppendProperties
<1>3. P \in Seq(0..cols)
  BY PaperInk
<1>4. PaperOf(M, cols) = FlattenSeq(s)
  BY <1>2 DEF PaperOf
<1>5. FlattenSeq([i \in 1..n |-> s[i]]) = P
  <2>1. \A i \in 1..n : i \in 1..(n + 1)
    BY <1>1
  <2>2. [i \in 1..n |-> s[i]] = [i \in 1..Len(L) |-> RowsOf(L[i], cols)]
    BY <2>1, <1>2
  <2> QED BY <2>2 DEF PaperOf
<1>6. s = [i \in 1..(n + 1) |-> s[i]] /\ s[n + 1] = <<0>>
  <2>1. n + 1 \in 1..(n + 1)
    BY <1>1
  <2>2. s[n + 1] = RowsOf(0, cols)
    BY <2>1, <1>2
  <2> QED BY <2>2, RowsOfNone
<1> HIDE DEF n, s, P
<1>7. FlattenSeq(s) = P \o <<0>>
  BY <1>1, <1>5, <1>6, FlatOfMore
<1>8. P \o <<0>> = Append(P, 0)
  BY <1>3
<1> QED BY <1>4, <1>7, <1>8 DEF P, M

\* The paper of no text is one empty row.
LEMMA PaperOfNone ==
  ASSUME NEW cols \in Nat, cols > 0
  PROVE  PaperOf(<<0>>, cols) = <<0>>
<1> DEFINE s == [i \in 1..1 |-> RowsOf(<<0>>[i], cols)]
<1>1. s = [i \in 1..1 |-> s[i]] /\ s[1] = <<0>>
  BY RowsOfNone
<1>2. PaperOf(<<0>>, cols) = FlattenSeq(s)
  BY DEF PaperOf
<1> HIDE DEF s
<1> QED BY <1>1, <1>2, FlatOfOne

(* What the operations do to each field and each cell. *)

\* Cells that are what a rule says of each make the grid of that rule.
LEMMA CellsMakeGrid ==
  ASSUME NEW s, Shaped(s), NEW grid, IsGrid(grid, s.cols, s.rows),
         \A r \in 1..s.rows, c \in 1..s.cols : s.cells[r][c] = grid[r][c]
  PROVE  s.cells = grid
<1>1. /\ s.cells = [r \in 1..s.rows |-> s.cells[r]]
      /\ \A r \in 1..s.rows : s.cells[r] = [c \in 1..s.cols |-> s.cells[r][c]]
  BY DEF Shaped, IsGrid
<1>2. /\ grid = [r \in 1..s.rows |-> grid[r]]
      /\ \A r \in 1..s.rows : grid[r] = [c \in 1..s.cols |-> grid[r][c]]
  BY DEF IsGrid
<1>3. ASSUME NEW r \in 1..s.rows PROVE s.cells[r] = grid[r]
  <2>1. s.cells[r] = [c \in 1..s.cols |-> s.cells[r][c]] /\ grid[r] = [c \in 1..s.cols |-> grid[r][c]]
    BY <1>1, <1>2
  <2>2. \A c \in 1..s.cols : s.cells[r][c] = grid[r][c]
    OBVIOUS
  <2> QED BY <2>1, <2>2
<1> QED BY <1>1, <1>2, <1>3

\* The fields of a screen are of their types.
LEMMA Fields ==
  ASSUME NEW s, Shaped(s)
  PROVE  /\ s.cols \in Nat /\ s.rows \in Nat /\ s.row \in Nat /\ s.col \in Nat /\ s.wrap \in BOOLEAN
         /\ s.row < s.rows /\ s.col < s.cols /\ s.cols > 0 /\ s.rows > 0
<1>1. PICK grids : s \in Screens(grids)
  BY DEF Shaped
<1>2. s.row < s.rows /\ s.col < s.cols
  BY DEF Shaped
<1> QED BY <1>1, <1>2 DEF Screens

\* t is s with the cursor at a place and these cells.
NowAt(t, s, row, col, wrap) ==
  /\ t.cols = s.cols /\ t.rows = s.rows
  /\ t.row = row /\ t.col = col /\ t.wrap = wrap

\* The cells are those of s.
SameCellsAs(t, s) == \A r \in 1..s.rows, c \in 1..s.cols : t.cells[r][c] = s.cells[r][c]

\* A carriage return takes the cursor to the first column.
LEMMA ReturnFacts ==
  ASSUME NEW s, Shaped(s), NEW t, t = CarriageReturn(s)
  PROVE  Shaped(t) /\ NowAt(t, s, s.row, 0, FALSE) /\ SameCellsAs(t, s)
<1>1. PICK grids : s \in Screens(grids)
  BY DEF Shaped
<1>2. NowAt(t, s, s.row, 0, FALSE) /\ t.cells = s.cells
  BY <1>1 DEF CarriageReturn, Screens, NowAt
<1>3. 0 \in Nat
  OBVIOUS
<1>4. Shaped(t)
  BY <1>3, CursorMoves
<1> QED BY <1>2, <1>4 DEF SameCellsAs

\* The screen with no wrap due, at the first column.
LEMMA UnwrappedFacts ==
  ASSUME NEW s, Shaped(s), NEW t, t = [s EXCEPT !.wrap = FALSE, !.col = 0]
  PROVE  Shaped(t) /\ NowAt(t, s, s.row, 0, FALSE) /\ SameCellsAs(t, s)
<1>1. PICK grids : s \in Screens(grids)
  BY DEF Shaped
<1>2. NowAt(t, s, s.row, 0, FALSE) /\ t.cells = s.cells
  BY <1>1 DEF Screens, NowAt
<1>3. t \in Screens(grids)
  BY <1>1 DEF Screens
<1>4. t.row < t.rows /\ t.col < t.cols /\ t.cols = s.cols /\ t.rows = s.rows
  <2>1. s.row < s.rows /\ 0 < s.cols
    BY Fields
  <2> QED BY <1>2, <2>1 DEF NowAt
<1>5. Shaped(t)
  BY <1>2, <1>3, <1>4, SameCells
<1> QED BY <1>2, <1>5 DEF SameCellsAs

\* At the last row the cells move up.
Scrolls(t, s) ==
  \A r \in 1..s.rows, c \in 1..s.cols :
    t.cells[r][c] = IF r < s.rows THEN s.cells[r + 1][c] ELSE Blank

\* The next row is below, or scrolls in.
LEMMA NextRowFacts ==
  ASSUME NEW s, Shaped(s), NEW t, t = NextRow(s)
  PROVE  /\ Shaped(t)
         /\ s.row + 1 >= s.rows => NowAt(t, s, s.rows - 1, s.col, s.wrap) /\ Scrolls(t, s)
         /\ s.row + 1 < s.rows => NowAt(t, s, s.row + 1, s.col, s.wrap) /\ SameCellsAs(t, s)
<1>1. PICK grids : s \in Screens(grids)
  BY DEF Shaped
<1>2. Shaped(t)
  BY NextRowIsShaped
<1>3. ASSUME s.row + 1 >= s.rows
      PROVE  NowAt(t, s, s.rows - 1, s.col, s.wrap) /\ Scrolls(t, s)
  <2> DEFINE grid == [r \in 1..s.rows |->
                        IF r <= 0 THEN s.cells[r] ELSE IF r + 1 <= s.rows THEN s.cells[r + 1] ELSE BlankRow(s.cols)]
  <2>1. t = [[s EXCEPT !.cells = grid] EXCEPT !.row = s.rows - 1]
    BY <1>3 DEF NextRow, ScrollUp, DropLines, Count
  <2> HIDE DEF grid
  <2>2. NowAt(t, s, s.rows - 1, s.col, s.wrap) /\ t.cells = grid
    BY <1>1, <2>1 DEF Screens, NowAt
  <2>3. ASSUME NEW r \in 1..s.rows, NEW c \in 1..s.cols
        PROVE  grid[r][c] = IF r < s.rows THEN s.cells[r + 1][c] ELSE Blank
    <3>1. s.rows \in Nat /\ s.cols \in Nat
      BY Fields
    <3>2. CASE r < s.rows
      <4>1. ~ (r <= 0) /\ r + 1 <= s.rows
        BY <3>1, <3>2
      <4>2. grid[r] = s.cells[r + 1]
        BY <4>1 DEF grid
      <4> QED BY <3>2, <4>2
    <3>3. CASE ~ (r < s.rows)
      <4>1. ~ (r <= 0) /\ ~ (r + 1 <= s.rows)
        BY <3>1, <3>3
      <4>2. grid[r] = BlankRow(s.cols)
        BY <4>1 DEF grid
      <4>3. BlankRow(s.cols)[c] = Blank
        BY DEF BlankRow
      <4> QED BY <3>3, <4>2, <4>3
    <3> QED BY <3>2, <3>3
  <2> QED BY <2>2, <2>3 DEF Scrolls
<1>4. ASSUME s.row + 1 < s.rows
      PROVE  NowAt(t, s, s.row + 1, s.col, s.wrap) /\ SameCellsAs(t, s)
  <2>1. ~ (s.row + 1 >= s.rows)
    BY <1>1, <1>4 DEF Screens
  <2>2. t = [s EXCEPT !.row = @ + 1]
    BY <2>1 DEF NextRow
  <2>3. NowAt(t, s, s.row + 1, s.col, s.wrap) /\ t.cells = s.cells
    BY <1>1, <2>2 DEF Screens, NowAt
  <2> QED BY <2>3 DEF SameCellsAs
<1> QED BY <1>2, <1>3, <1>4

\* A glyph at the cursor.
Puts(t, s, glyph) ==
  \A r \in 1..s.rows, c \in 1..s.cols :
    t.cells[r][c] = IF r = s.row + 1 /\ c = s.col + 1 THEN glyph ELSE s.cells[r][c]

\* Without a wrap due a character changes one cell, and the last column makes one due.
LEMMA PutFacts ==
  ASSUME NEW s, Shaped(s), ~ s.wrap, NEW glyph, NEW t, t = PutChar(s, glyph)
  PROVE  /\ Shaped(t) /\ Puts(t, s, glyph)
         /\ s.col + 1 >= s.cols => NowAt(t, s, s.row, s.col, TRUE)
         /\ s.col + 1 < s.cols => NowAt(t, s, s.row, s.col + 1, FALSE)
<1>1. PICK grids : s \in Screens(grids)
  BY DEF Shaped
<1>2. Shaped(t)
  BY CharacterIsShaped
<1> DEFINE grid == [s.cells EXCEPT ![s.row + 1][s.col + 1] = glyph]
           u == [s EXCEPT !.cells = grid]
<1>3. t = IF u.col + 1 >= u.cols THEN [u EXCEPT !.wrap = TRUE] ELSE [u EXCEPT !.col = @ + 1]
  BY DEF PutChar
<1>4. \A r \in 1..s.rows, c \in 1..s.cols :
        grid[r][c] = IF r = s.row + 1 /\ c = s.col + 1 THEN glyph ELSE s.cells[r][c]
  <2>1. /\ s.cells = [r \in 1..s.rows |-> s.cells[r]]
        /\ \A r \in 1..s.rows : s.cells[r] = [c \in 1..s.cols |-> s.cells[r][c]]
    BY DEF Shaped, IsGrid
  <2> SUFFICES ASSUME NEW r \in 1..s.rows, NEW c \in 1..s.cols
               PROVE  grid[r][c] = IF r = s.row + 1 /\ c = s.col + 1 THEN glyph ELSE s.cells[r][c]
    OBVIOUS
  <2>2. CASE r = s.row + 1
    <3>1. grid[r] = [s.cells[r] EXCEPT ![s.col + 1] = glyph]
      BY <2>1, <2>2
    <3>2. s.cells[r] = [x \in 1..s.cols |-> s.cells[r][x]]
      BY <2>1
    <3> HIDE DEF grid
    <3>3. grid[r][c] = IF c = s.col + 1 THEN glyph ELSE s.cells[r][c]
      BY <3>1, <3>2
    <3> QED BY <2>2, <3>3
  <2>3. CASE r # s.row + 1
    <3>1. grid[r] = s.cells[r]
      BY <2>1, <2>3
    <3> QED BY <2>3, <3>1
  <2> QED BY <2>2, <2>3
<1> HIDE DEF grid
<1>5. /\ u.cols = s.cols /\ u.rows = s.rows /\ u.row = s.row /\ u.col = s.col /\ u.wrap = s.wrap
      /\ u.cells = grid /\ u \in Screens({grid})
  BY <1>1 DEF Screens
<1> HIDE DEF u
<1>6. ASSUME s.col + 1 >= s.cols PROVE NowAt(t, s, s.row, s.col, TRUE) /\ t.cells = grid
  <2>1. t = [u EXCEPT !.wrap = TRUE]
    BY <1>3, <1>5, <1>6
  <2> QED BY <1>5, <2>1 DEF Screens, NowAt
<1>7. ASSUME s.col + 1 < s.cols PROVE NowAt(t, s, s.row, s.col + 1, FALSE) /\ t.cells = grid
  <2>1. ~ (u.col + 1 >= u.cols)
    BY <1>1, <1>5, <1>7 DEF Screens
  <2>2. t = [u EXCEPT !.col = @ + 1]
    BY <1>3, <2>1
  <2>3. s.wrap = FALSE
    BY <1>1 DEF Screens
  <2> QED BY <1>5, <2>2, <2>3 DEF Screens, NowAt
<1>8. t.cells = grid
  <2>1. s.col + 1 >= s.cols \/ s.col + 1 < s.cols
    BY <1>1 DEF Screens
  <2> QED BY <2>1, <1>6, <1>7
<1> QED BY <1>2, <1>4, <1>6, <1>7, <1>8 DEF Puts

\* When a wrap is due, the glyph goes to the next row.
LEMMA PutAfterWrap ==
  ASSUME NEW s, Shaped(s), s.wrap, NEW glyph
  PROVE  PutChar(s, glyph) = PutChar(NextRow([s EXCEPT !.wrap = FALSE, !.col = 0]), glyph)
<1> DEFINE w == [s EXCEPT !.wrap = FALSE, !.col = 0]
           t == NextRow(w)
<1>1. Shaped(w) /\ w.wrap = FALSE
  <2> HIDE DEF w
  <2>1. w = [s EXCEPT !.wrap = FALSE, !.col = 0]
    BY DEF w
  <2> QED BY <2>1, UnwrappedFacts DEF NowAt
<1> HIDE DEF w
<1>2. t.wrap = FALSE
  <2>1. w.row + 1 >= w.rows \/ w.row + 1 < w.rows
    BY <1>1, Fields
  <2> QED BY <1>1, <2>1, NextRowFacts DEF NowAt
<1>3. PutChar(s, glyph) =
        LET u == [t EXCEPT !.cells[t.row + 1][t.col + 1] = glyph]
        IN IF u.col + 1 >= u.cols THEN [u EXCEPT !.wrap = TRUE] ELSE [u EXCEPT !.col = @ + 1]
  BY DEF PutChar, w
<1> HIDE DEF t
<1>4. PutChar(t, glyph) =
        LET u == [t EXCEPT !.cells[t.row + 1][t.col + 1] = glyph]
        IN IF u.col + 1 >= u.cols THEN [u EXCEPT !.wrap = TRUE] ELSE [u EXCEPT !.col = @ + 1]
  BY <1>2 DEF PutChar
<1> QED BY <1>3, <1>4 DEF t, w

(* Text. *)

\* The last rows of the paper are on the screen and the cursor is in the last.
Shows(s, P) ==
  /\ s.row = Least(Len(P), s.rows) - 1
  /\ \A r \in 1..s.rows, c \in 1..s.cols :
       s.cells[r][c] = IF c <= LastRows(P, s.rows)[r] THEN Ink ELSE Blank

\* The cursor follows the last row's characters, on the last one when it is full.
AtEnd(s, P) ==
  IF P[Len(P)] = s.cols THEN s.col = s.cols - 1 /\ s.wrap ELSE s.col = P[Len(P)] /\ ~ s.wrap

\* A sequence that is not empty has a last place.
LEMMA NotEmpty ==
  ASSUME NEW S, NEW P \in Seq(S), P # <<>>
  PROVE  Len(P) \in Nat /\ Len(P) >= 1 /\ Len(P) \in 1..Len(P)
<1>1. Len(P) \in Nat \ {0}
  BY EmptySeq
<1> QED BY <1>1

\* A paper that fits shows from its first row on.
LEMMA LastRowsFit ==
  ASSUME NEW P, NEW rows \in Nat, NEW r \in 1..rows, NEW k \in Nat, Len(P) = k, k <= rows
  PROVE  LastRows(P, rows)[r] = IF r <= k THEN P[r] ELSE 0
<1>1. Less(Len(P), rows) = 0
  BY DEF Less
<1>2. LastRows(P, rows)[r] = IF 0 + r <= Len(P) THEN P[0 + r] ELSE 0
  BY <1>1 DEF LastRows
<1>3. 0 + r = r
  OBVIOUS
<1> QED BY <1>2, <1>3

\* One that does not fit shows its last rows.
LEMMA LastRowsOver ==
  ASSUME NEW P, NEW rows \in Nat, NEW r \in 1..rows, NEW k \in Nat, Len(P) = k, k > rows,
         NEW i \in Nat, i = k - rows + r
  PROVE  LastRows(P, rows)[r] = P[i]
<1>1. Less(Len(P), rows) = k - rows
  BY DEF Less
<1>2. LastRows(P, rows)[r] = IF (k - rows) + r <= Len(P) THEN P[(k - rows) + r] ELSE 0
  BY <1>1 DEF LastRows
<1>3. (k - rows) + r <= Len(P) /\ (k - rows) + r = i
  OBVIOUS
<1> QED BY <1>2, <1>3

\* Q has one more row, an empty one.
IsAppended(Q, P) == Q = Append(P, 0)

\* A new row, and the cells that move up for it when there is no room.
LEMMA RowGoesOn ==
  ASSUME NEW s, Shaped(s), NEW P \in Seq(Nat), P # <<>>, Shows(s, P), NEW t, t = NextRow(s),
         NEW Q, IsAppended(Q, P)
  PROVE  Shows(t, Q)
<1> DEFINE k == Len(P)
           rows == s.rows
<1>1. k \in Nat /\ k >= 1
  BY NotEmpty
<1>2. Q \in Seq(Nat) /\ Q # <<>> /\ Len(Q) = k + 1 /\ (\A i \in 1..k : Q[i] = P[i]) /\ Q[k + 1] = 0
  BY AppendProperties DEF IsAppended
<1>3. s.cols \in Nat /\ rows \in Nat /\ rows > 0 /\ s.row = Least(k, rows) - 1
  BY Fields DEF Shows
<1>4. PICK j \in Nat : j = k + 1 /\ j = Len(Q)
  BY <1>1, <1>2
<1>5. \A r \in 1..rows, c \in 1..s.cols :
        s.cells[r][c] = IF c <= LastRows(P, rows)[r] THEN Ink ELSE Blank
  BY DEF Shows
<1> HIDE DEF k, rows
<1>6. CASE k >= rows
  <2>1. s.row + 1 >= rows /\ j > rows
    BY <1>1, <1>3, <1>4, <1>6 DEF Least
  <2>2. NowAt(t, s, rows - 1, s.col, s.wrap) /\ Scrolls(t, s)
    BY <2>1, NextRowFacts DEF rows
  <2>3. t.row = rows - 1 /\ t.cols = s.cols /\ t.rows = rows
    BY <2>2 DEF NowAt, rows
  <2>4. t.row = Least(Len(Q), t.rows) - 1
    BY <2>1, <2>3, <1>2, <1>3, <1>4 DEF Least
  <2>5. ASSUME NEW r \in 1..rows, NEW c \in 1..s.cols
        PROVE  t.cells[r][c] = IF c <= LastRows(Q, rows)[r] THEN Ink ELSE Blank
    <3>1. t.cells[r][c] = IF r < rows THEN s.cells[r + 1][c] ELSE Blank
      BY <2>2 DEF Scrolls, rows
    <3> PICK i \in Nat : i = j - rows + r
      BY <1>3, <1>4, <2>1
    <3>2. LastRows(Q, rows)[r] = Q[i]
      <4>1. Len(Q) = j
        BY <1>4
      <4> QED BY <1>3, <2>1, <4>1, LastRowsOver
    <3>3. CASE r < rows
      <4>1. PICK q \in 1..rows : q = r + 1
        BY <1>3, <3>3
      <4>2. j - rows + r = k - rows + q /\ k - rows + q \in 1..k
        BY <1>1, <1>3, <1>4, <1>6, <4>1
      <4>3. Q[i] = P[k - rows + q]
        BY <1>2, <4>2
      <4>4. LastRows(P, rows)[q] = P[k - rows + q]
        <5>1. CASE k > rows
          <6>1. PICK z \in Nat : z = k - rows + q
            BY <1>1, <1>3, <4>2
          <6>2. LastRows(P, rows)[q] = P[z]
            BY <1>1, <1>3, <5>1, <6>1, LastRowsOver DEF k
          <6> QED BY <6>1, <6>2
        <5>2. CASE k = rows
          <6>1. k <= rows /\ q <= k /\ k - rows + q = q
            BY <1>3, <5>2
          <6>2. LastRows(P, rows)[q] = IF q <= k THEN P[q] ELSE 0
            BY <1>1, <1>3, <6>1, LastRowsFit DEF k
          <6> QED BY <6>1, <6>2
        <5> QED BY <1>1, <1>3, <1>6, <5>1, <5>2
      <4>5. t.cells[r][c] = s.cells[q][c]
        BY <3>1, <3>3, <4>1
      <4> QED BY <1>5, <3>2, <4>3, <4>4, <4>5
    <3>4. CASE ~ (r < rows)
      <4>1. j - rows + r = j
        BY <1>3, <1>4, <3>4
      <4>2. LastRows(Q, rows)[r] = 0
        BY <1>2, <1>4, <3>2, <4>1
      <4>3. ~ (c <= 0)
        BY <1>3
      <4> QED BY <3>1, <3>4, <4>2, <4>3
    <3> QED BY <3>3, <3>4
  <2> QED BY <2>3, <2>4, <2>5 DEF Shows
<1>7. CASE k < rows
  <2>1. s.row + 1 < rows /\ s.row + 1 = k /\ j <= rows
    BY <1>1, <1>3, <1>4, <1>7 DEF Least
  <2>2. NowAt(t, s, s.row + 1, s.col, s.wrap) /\ SameCellsAs(t, s)
    BY <2>1, NextRowFacts DEF rows
  <2>3. t.row = k /\ t.cols = s.cols /\ t.rows = rows
    BY <2>1, <2>2 DEF NowAt, rows
  <2>4. t.row = Least(Len(Q), t.rows) - 1
    BY <2>1, <2>3, <1>1, <1>2, <1>3, <1>4 DEF Least
  <2>5. ASSUME NEW r \in 1..rows, NEW c \in 1..s.cols
        PROVE  t.cells[r][c] = IF c <= LastRows(Q, rows)[r] THEN Ink ELSE Blank
    <3>1. t.cells[r][c] = s.cells[r][c]
      BY <2>2 DEF SameCellsAs, rows
    <3>2. LastRows(Q, rows)[r] = IF r <= j THEN Q[r] ELSE 0
      BY <1>3, <1>4, <2>1, LastRowsFit
    <3>3. LastRows(P, rows)[r] = IF r <= k THEN P[r] ELSE 0
      <4>1. k <= rows
        BY <1>1, <1>3, <1>7
      <4> QED BY <1>1, <1>3, <4>1, LastRowsFit DEF k
    <3>4. LastRows(Q, rows)[r] = LastRows(P, rows)[r]
      <4>1. CASE r <= k
        <5>1. r \in 1..k /\ r <= j
          BY <1>1, <1>3, <1>4, <4>1
        <5>2. Q[r] = P[r]
          BY <1>2, <5>1
        <5> QED BY <3>2, <3>3, <4>1, <5>1, <5>2
      <4>2. CASE r = j
        <5>1. ~ (r <= k) /\ r <= j
          BY <1>1, <1>4, <4>2
        <5>2. Q[r] = 0
          BY <1>2, <1>4, <4>2
        <5> QED BY <3>2, <3>3, <5>1, <5>2
      <4>3. CASE ~ (r <= k) /\ r # j
        <5>1. ~ (r <= j)
          BY <1>1, <1>3, <1>4, <4>3
        <5> QED BY <3>2, <3>3, <4>3, <5>1
      <4> QED BY <4>1, <4>2, <4>3
    <3> QED BY <1>5, <3>1, <3>4
  <2> QED BY <2>3, <2>4, <2>5 DEF Shows
<1>8. k >= rows \/ k < rows
  BY <1>1, <1>3
<1> QED BY <1>6, <1>7, <1>8

\* A character in a row that has room for it.
LEMMA InkGoesIn ==
  ASSUME NEW s, Shaped(s), ~ s.wrap, NEW P \in Seq(0..s.cols), P # <<>>, Shows(s, P),
         s.col = P[Len(P)], P[Len(P)] < s.cols, NEW t, t = PutChar(s, Ink), NEW Q, Q = OneMore(P)
  PROVE  Shows(t, Q) /\ AtEnd(t, Q)
<1> DEFINE k == Len(P)
           rows == s.rows
           x == P[k] + 1
<1>1. k \in Nat /\ k >= 1 /\ k \in 1..k
  BY NotEmpty
<1>2. s.cols \in Nat /\ s.cols > 0 /\ rows \in Nat /\ rows > 0 /\ s.row = Least(k, rows) - 1 /\ s.col \in Nat
  BY Fields DEF Shows
<1>3. x = s.col + 1 /\ x \in 0..s.cols
  BY <1>2
<1> DEFINE R == [P EXCEPT ![k] = x]
<1>4. Q = R
  BY DEF OneMore
<1> HIDE DEF x
<1>5. R \in Seq(0..s.cols) /\ Len(R) = k /\ \A i \in 1..k : R[i] = IF i = k THEN x ELSE P[i]
  BY <1>1, <1>3, ExceptSeq
<1> HIDE DEF R
<1>6. P \in Seq(Nat) /\ Q \in Seq(Nat) /\ Q # <<>>
  <2>1. 0..s.cols \subseteq Nat
    OBVIOUS
  <2>2. P \in Seq(Nat) /\ R \in Seq(Nat)
    BY <2>1, <1>5, SeqMonotonic
  <2> HIDE DEF k
  <2>3. R # <<>>
    BY <1>1, <1>5
  <2> QED BY <1>4, <2>2, <2>3
<1>7. Puts(t, s, Ink) /\ t.cols = s.cols /\ t.rows = rows /\ t.row = s.row
  <2>1. s.col + 1 >= s.cols \/ s.col + 1 < s.cols
    BY <1>2
  <2> QED BY <2>1, PutFacts DEF NowAt
<1>8. \A r \in 1..rows, c \in 1..s.cols :
        s.cells[r][c] = IF c <= LastRows(P, rows)[r] THEN Ink ELSE Blank
  BY DEF Shows
<1>9. AtEnd(t, Q)
  <2>1. Q[Len(Q)] = x
    BY <1>1, <1>4, <1>5
  <2>2. CASE x = s.cols
    <3>1. s.col + 1 >= s.cols /\ s.col = s.cols - 1
      BY <1>2, <1>3, <2>2
    <3>2. NowAt(t, s, s.row, s.col, TRUE)
      BY <3>1, PutFacts
    <3> QED BY <2>1, <2>2, <3>1, <3>2 DEF AtEnd, NowAt
  <2>3. CASE x # s.cols
    <3>1. s.col + 1 < s.cols
      BY <1>2, <1>3, <2>3
    <3>2. NowAt(t, s, s.row, s.col + 1, FALSE)
      BY <3>1, PutFacts
    <3> QED BY <1>3, <2>1, <2>3, <3>2 DEF AtEnd, NowAt
  <2> QED BY <2>2, <2>3
<1> HIDE DEF k, rows
<1>10. t.row = Least(Len(Q), t.rows) - 1
  BY <1>2, <1>4, <1>5, <1>7
<1>11. ASSUME NEW r \in 1..rows, NEW c \in 1..s.cols
       PROVE  t.cells[r][c] = IF c <= LastRows(Q, rows)[r] THEN Ink ELSE Blank
  <2>1. t.cells[r][c] = IF r = s.row + 1 /\ c = s.col + 1 THEN Ink ELSE s.cells[r][c]
    BY <1>7 DEF Puts, rows
  <2>2. s.cells[r][c] = IF c <= LastRows(P, rows)[r] THEN Ink ELSE Blank
    BY <1>8
  \* The row of the paper that is row r of the screen.
  <2>3. PICK i \in Nat : i = IF k <= rows THEN r ELSE k - rows + r
    <3> DEFINE i == IF k <= rows THEN r ELSE k - rows + r
    <3>1. i \in Nat
      BY <1>1, <1>2
    <3> QED BY <3>1
  <2>4. LastRows(P, rows)[r] = IF i <= k THEN P[i] ELSE 0
    <3>1. CASE k <= rows
      <4>1. LastRows(P, rows)[r] = IF r <= k THEN P[r] ELSE 0
        BY <1>1, <1>2, <3>1, LastRowsFit DEF k
      <4> QED BY <2>3, <3>1, <4>1
    <3>2. CASE ~ (k <= rows)
      <4>1. k > rows
        BY <1>1, <1>2, <3>2
      <4>2. LastRows(P, rows)[r] = P[i]
        BY <1>1, <1>2, <2>3, <3>2, <4>1, LastRowsOver DEF k
      <4>3. i = k - rows + r /\ i <= k
        BY <1>1, <1>2, <2>3, <4>1
      <4> QED BY <4>2, <4>3
    <3> QED BY <3>1, <3>2
  <2>5. LastRows(Q, rows)[r] = IF i <= k THEN Q[i] ELSE 0
    <3>1. Len(Q) = k
      BY <1>4, <1>5
    <3>2. CASE k <= rows
      <4>1. LastRows(Q, rows)[r] = IF r <= k THEN Q[r] ELSE 0
        BY <1>1, <1>2, <3>1, <3>2, LastRowsFit
      <4> QED BY <2>3, <3>2, <4>1
    <3>3. CASE ~ (k <= rows)
      <4>1. k > rows
        BY <1>1, <1>2, <3>3
      <4>2. LastRows(Q, rows)[r] = Q[i]
        BY <1>1, <1>2, <2>3, <3>1, <3>3, <4>1, LastRowsOver
      <4>3. i = k - rows + r /\ i <= k
        BY <1>1, <1>2, <2>3, <4>1
      <4> QED BY <4>2, <4>3
    <3> QED BY <3>2, <3>3
  <2>6. i = k <=> r = s.row + 1
    BY <1>1, <1>2, <2>3 DEF Least
  <2>7. CASE i = k
    <3>1. LastRows(Q, rows)[r] = x /\ LastRows(P, rows)[r] = s.col
      <4>1. Q[k] = x /\ P[k] = s.col
        BY <1>1, <1>4, <1>5 DEF k
      <4> QED BY <1>1, <2>4, <2>5, <2>7, <4>1
    <3>2. r = s.row + 1
      BY <2>6, <2>7
    <3>3. c <= x <=> c = s.col + 1 \/ c <= s.col
      BY <1>2, <1>3
    <3> QED BY <2>1, <2>2, <3>1, <3>2, <3>3
  <2>8. CASE i # k
    <3>1. r # s.row + 1
      BY <2>6, <2>8
    <3>2. LastRows(Q, rows)[r] = LastRows(P, rows)[r]
      <4>1. CASE i <= k
        <5>1. i \in 1..k
          BY <1>1, <1>2, <2>3, <4>1
        <5>2. Q[i] = P[i]
          BY <1>4, <1>5, <2>8, <5>1
        <5> QED BY <2>4, <2>5, <4>1, <5>2
      <4>2. CASE ~ (i <= k)
        BY <2>4, <2>5, <4>2
      <4> QED BY <4>1, <4>2
    <3> QED BY <2>1, <2>2, <3>1, <3>2
  <2> QED BY <2>7, <2>8
<1>12. Shows(t, Q)
  BY <1>7, <1>10, <1>11 DEF Shows
<1> QED BY <1>9, <1>12

\* What text is made of.
Units == {"ink", "return", "feed"}

\* Where the cursor is: a carriage return has taken it to the first column.
InPlace(s, text, P) ==
  IF text # <<>> /\ Last(text) = "return" THEN s.col = 0 /\ ~ s.wrap ELSE AtEnd(s, P)

\* As long as only text was written, nothing else is on the way to the screen,
\* its rows are there, and the cursor is where the next character belongs.
TextIsShown(s, text) ==
  /\ text \in Seq(Units)
  /\ LinesOf(text) \in Seq(Nat) /\ LinesOf(text) # <<>>
  /\ Shows(s, PaperOf(LinesOf(text), s.cols))
  /\ InPlace(s, text, PaperOf(LinesOf(text), s.cols))

\* The invariant of a program that talks.
TextInv ==
  /\ program = "draws" => typed = Other
  /\ typed # Other => wire = <<>> /\ TextIsShown(screen, typed)

\* The paper of a text is that of its lines.
LEMMA PaperIsPaperOf ==
  ASSUME NEW text, NEW cols PROVE Paper(text, cols) = PaperOf(LinesOf(text), cols)
BY DEF Paper, PaperOf

\* The unit written last is the last one.
LEMMA LastOfMore ==
  ASSUME NEW text \in Seq(Units), NEW unit \in Units
  PROVE  /\ Append(text, unit) \in Seq(Units) /\ Append(text, unit) # <<>>
         /\ Last(Append(text, unit)) = unit
<1>1. /\ Append(text, unit) \in Seq(Units) /\ Append(text, unit) # <<>>
      /\ Len(Append(text, unit)) = Len(text) + 1 /\ Append(text, unit)[Len(text) + 1] = unit
  BY AppendProperties
<1> QED BY <1>1 DEF Last

\* What is shown are the cells alone, and where the cursor is.
LEMMA ShowsTheSame ==
  ASSUME NEW s, NEW t, NEW P, Shows(s, P), SameCellsAs(t, s),
         t.cols = s.cols, t.rows = s.rows, t.row = s.row
  PROVE  Shows(t, P)
BY DEF Shows, SameCellsAs

\* The first character of an empty row.
LEMMA OneMoreInNewRow ==
  ASSUME NEW P \in Seq(Nat) PROVE OneMore(Append(P, 0)) = Append(P, 1)
<1> DEFINE A == Append(P, 0)
           B == Append(P, 1)
<1>1. PICK z \in Nat : z = Len(P) + 1
  OBVIOUS
<1>2. A \in Seq(Nat) /\ Len(A) = z /\ (\A i \in 1..Len(P) : A[i] = P[i]) /\ A[z] = 0
  BY <1>1, AppendProperties
<1>3. B \in Seq(Nat) /\ Len(B) = z /\ (\A i \in 1..Len(P) : B[i] = P[i]) /\ B[z] = 1
  BY <1>1, AppendProperties
<1> HIDE DEF A, B
<1> DEFINE M == [A EXCEPT ![z] = 1]
<1>4. M = OneMore(A)
  BY <1>2 DEF OneMore
<1>5. M \in Seq(Nat) /\ Len(M) = z /\ \A j \in 1..z : M[j] = IF j = z THEN 1 ELSE A[j]
  <2>1. z \in 1..Len(A) /\ 1 \in Nat
    BY <1>1, <1>2
  <2> QED BY <1>2, <2>1, ExceptSeq
<1> HIDE DEF M
<1>6. ASSUME NEW j \in 1..z PROVE M[j] = B[j]
  <2>1. CASE j = z
    BY <1>3, <1>5, <2>1
  <2>2. CASE j # z
    <3>1. j \in 1..Len(P)
      BY <1>1, <2>2
    <3> QED BY <1>2, <1>3, <1>5, <2>2, <3>1
  <2> QED BY <2>1, <2>2
<1>7. M = B
  BY <1>3, <1>5, <1>6, SeqEqual
<1> QED BY <1>4, <1>7 DEF A, B

\* A character is shown behind the last one: in its row, in a row of its own when
\* that one is full and a wrap is due, below or, in the last row, after scrolling.
LEMMA InkIsShown ==
  ASSUME NEW s, Shaped(s), NEW text, TextIsShown(s, text), text # <<>> => Last(text) # "return"
  PROVE  TextIsShown(PutChar(s, Ink), Append(text, "ink"))
<1> DEFINE t == PutChar(s, Ink)
           L == LinesOf(text)
           P == PaperOf(L, s.cols)
           more == Append(text, "ink")
           Q == PaperOf(OneMore(L), s.cols)
<1>1. s.cols \in Nat /\ s.cols > 0 /\ s.rows \in Nat /\ s.col \in Nat
  BY Fields
<1>2. text \in Seq(Units) /\ L \in Seq(Nat) /\ L # <<>> /\ Shows(s, P) /\ AtEnd(s, P)
  BY DEF TextIsShown, InPlace
<1>3. more \in Seq(Units) /\ more # <<>> /\ Last(more) = "ink"
  <2>1. "ink" \in Units
    BY DEF Units
  <2> QED BY <1>2, <2>1, LastOfMore
<1>4. LinesOf(more) = OneMore(L)
  <2>1. "ink" \in Units
    BY DEF Units
  <2>2. LinesOf(more) = Longer(L, "ink")
    BY <1>2, <2>1, LinesOfMore
  <2> QED BY <2>2 DEF Longer, OneMore
<1>5. OneMore(L) \in Seq(Nat) /\ OneMore(L) # <<>>
  <2> DEFINE n == Len(L)
             x == L[n] + 1
  <2>1. n \in 1..n /\ n >= 1 /\ n \in Nat
    BY <1>2, NotEmpty
  <2>2. x \in Nat
    <3>1. L[n] \in Nat
      BY <1>2, <2>1, ElementOfSeq
    <3> QED BY <3>1
  <2> DEFINE M == [L EXCEPT ![n] = x]
  <2>3. M = OneMore(L)
    BY DEF OneMore
  <2> HIDE DEF x, L
  <2>4. M \in Seq(Nat) /\ Len(M) = n
    BY <1>2, <2>1, <2>2, ExceptSeq
  <2> HIDE DEF M, n
  <2>5. M # <<>>
    BY <2>1, <2>4
  <2> QED BY <2>3, <2>4, <2>5
<1> HIDE DEF L
<1>6. /\ P \in Seq(0..s.cols) /\ P # <<>>
      /\ P[Len(P)] < s.cols => Q = OneMore(P)
      /\ P[Len(P)] = s.cols => Q = Append(P, 1)
  BY <1>1, <1>2, PaperInk
<1>7. P[Len(P)] \in 0..s.cols
  <2>1. Len(P) \in 1..Len(P)
    BY <1>6, NotEmpty
  <2> QED BY <1>6, <2>1, ElementOfSeq
<1> HIDE DEF P, Q, more
<1>8. CASE P[Len(P)] < s.cols
  <2>1. P[Len(P)] # s.cols
    BY <1>1, <1>7, <1>8
  <2>2. s.col = P[Len(P)] /\ ~ s.wrap
    BY <1>2, <2>1 DEF AtEnd
  <2>3. Shows(t, Q) /\ AtEnd(t, Q)
    BY <1>2, <1>6, <1>8, <2>2, InkGoesIn
  <2>4. t.cols = s.cols
    <3>1. s.col + 1 >= s.cols \/ s.col + 1 < s.cols
      BY <1>1
    <3> QED BY <2>2, <3>1, PutFacts DEF NowAt
  <2> HIDE DEF t
  <2>5. InPlace(t, more, Q)
    BY <1>3, <2>3 DEF InPlace
  <2>6. TextIsShown(t, more)
    BY <1>3, <1>4, <1>5, <2>3, <2>4, <2>5 DEF TextIsShown, Q
  <2> QED BY <2>6 DEF t, more
<1>9. CASE P[Len(P)] = s.cols
  <2> DEFINE w == [s EXCEPT !.wrap = FALSE, !.col = 0]
             v == NextRow(w)
             R == Append(P, 0)
  <2>1. s.wrap
    BY <1>2, <1>9 DEF AtEnd
  <2>2. Shaped(w) /\ NowAt(w, s, s.row, 0, FALSE) /\ SameCellsAs(w, s)
    <3> HIDE DEF w
    <3>1. w = [s EXCEPT !.wrap = FALSE, !.col = 0]
      BY DEF w
    <3> QED BY <3>1, UnwrappedFacts
  <2>3. t = PutChar(v, Ink)
    BY <2>1, PutAfterWrap
  <2> HIDE DEF t, w
  <2>4. Shows(w, P)
    BY <1>2, <2>2, ShowsTheSame DEF NowAt
  <2>5. P \in Seq(Nat) /\ P \in Seq(0..s.cols)
    <3>1. 0..s.cols \subseteq Nat
      OBVIOUS
    <3> QED BY <1>6, <3>1, SeqMonotonic
  <2>6. Shows(v, R)
    <3>1. IsAppended(R, P)
      BY DEF IsAppended
    <3> HIDE DEF R, v
    <3>2. v = NextRow(w)
      BY DEF v
    <3> QED BY <1>6, <2>2, <2>4, <2>5, <3>1, <3>2, RowGoesOn
  <2>7. Shaped(v) /\ v.cols = w.cols /\ v.col = 0 /\ ~ v.wrap
    <3>1. w.row + 1 >= w.rows \/ w.row + 1 < w.rows
      BY <2>2, Fields
    <3> QED BY <2>2, <3>1, NextRowFacts DEF NowAt
  <2>8. v.cols = s.cols
    BY <2>2, <2>7 DEF NowAt
  <2>9. R \in Seq(0..v.cols) /\ R # <<>> /\ R[Len(R)] = 0 /\ Len(R) = Len(P) + 1
    <3>1. 0 \in 0..s.cols
      BY <1>1
    <3>2. /\ R \in Seq(0..s.cols) /\ R # <<>>
          /\ Len(R) = Len(P) + 1 /\ R[Len(P) + 1] = 0
      BY <2>5, <3>1, AppendProperties
    <3> HIDE DEF R, v
    <3> QED BY <2>8, <3>2
  <2>10. OneMore(R) = Append(P, 1)
    BY <2>5, OneMoreInNewRow
  <2> HIDE DEF R, v
  <2>11. Shows(t, OneMore(R)) /\ AtEnd(t, OneMore(R))
    BY <1>1, <2>3, <2>6, <2>7, <2>8, <2>9, InkGoesIn
  <2>12. Q = OneMore(R)
    BY <1>6, <1>9, <2>10
  <2>13. t.cols = s.cols
    <3>1. v.col + 1 >= v.cols \/ v.col + 1 < v.cols
      BY <2>7, Fields
    <3> QED BY <2>3, <2>7, <2>8, <3>1, PutFacts DEF NowAt
  <2>14. InPlace(t, more, Q)
    BY <1>3, <2>11, <2>12 DEF InPlace
  <2>15. TextIsShown(t, more)
    BY <1>3, <1>4, <1>5, <2>11, <2>12, <2>13, <2>14 DEF TextIsShown, Q
  <2> QED BY <2>15 DEF t, more
<1>10. P[Len(P)] < s.cols \/ P[Len(P)] = s.cols
  BY <1>1, <1>7
<1> QED BY <1>8, <1>9, <1>10

\* A carriage return moves the cursor only.
LEMMA ReturnIsShown ==
  ASSUME NEW s, Shaped(s), NEW text, TextIsShown(s, text)
  PROVE  TextIsShown(CarriageReturn(s), Append(text, "return"))
<1> DEFINE t == CarriageReturn(s)
           L == LinesOf(text)
           P == PaperOf(L, s.cols)
           more == Append(text, "return")
<1>1. text \in Seq(Units) /\ L \in Seq(Nat) /\ L # <<>> /\ Shows(s, P)
  BY DEF TextIsShown
<1>2. "return" \in Units
  BY DEF Units
<1>3. more \in Seq(Units) /\ more # <<>> /\ Last(more) = "return"
  BY <1>1, <1>2, LastOfMore
<1>4. LinesOf(more) = L
  BY <1>1, <1>2, LinesOfMore DEF Longer
<1>5. NowAt(t, s, s.row, 0, FALSE) /\ SameCellsAs(t, s)
  BY ReturnFacts
<1> HIDE DEF L, t, more
<1>6. Shows(t, P) /\ t.cols = s.cols
  BY <1>1, <1>5, ShowsTheSame DEF NowAt
<1>7. InPlace(t, more, P)
  BY <1>3, <1>5 DEF InPlace, NowAt
<1>8. TextIsShown(t, more)
  BY <1>1, <1>3, <1>4, <1>6, <1>7 DEF TextIsShown
<1> QED BY <1>8 DEF t, more

\* A line feed begins an empty row, below or, in the last row, after scrolling.
LEMMA FeedIsShown ==
  ASSUME NEW s, Shaped(s), NEW text, TextIsShown(s, text), text # <<>>, Last(text) = "return"
  PROVE  TextIsShown(LineFeed(s), Append(text, "feed"))
<1> DEFINE t == LineFeed(s)
           L == LinesOf(text)
           P == PaperOf(L, s.cols)
           more == Append(text, "feed")
           Q == PaperOf(Append(L, 0), s.cols)
<1>1. text \in Seq(Units) /\ L \in Seq(Nat) /\ L # <<>> /\ Shows(s, P) /\ s.col = 0 /\ ~ s.wrap
  BY DEF TextIsShown, InPlace
<1>2. "feed" \in Units
  BY DEF Units
<1>3. more \in Seq(Units) /\ more # <<>> /\ Last(more) = "feed"
  BY <1>1, <1>2, LastOfMore
<1>4. LinesOf(more) = Append(L, 0)
  BY <1>1, <1>2, LinesOfMore DEF Longer
<1>5. Append(L, 0) \in Seq(Nat) /\ Append(L, 0) # <<>>
  BY <1>1, AppendProperties
<1>6. s.cols \in Nat /\ s.cols > 0
  BY Fields
<1>7. t = NextRow(s)
  <2>1. PICK grids : s \in Screens(grids)
    BY DEF Shaped
  <2>2. [s EXCEPT !.wrap = FALSE] = s
    BY <1>1, <2>1 DEF Screens
  <2> QED BY <2>2 DEF LineFeed
<1> HIDE DEF L, t, more
<1>8. Q = Append(P, 0)
  BY <1>1, <1>6, PaperFeed
<1>9. P \in Seq(0..s.cols) /\ P # <<>> /\ P \in Seq(Nat)
  <2>1. P \in Seq(0..s.cols) /\ P # <<>>
    BY <1>1, <1>6, PaperInk
  <2>2. 0..s.cols \subseteq Nat
    OBVIOUS
  <2> HIDE DEF P
  <2> QED BY <2>1, <2>2, SeqMonotonic
<1> HIDE DEF P, Q
<1>10. Len(Q) = Len(P) + 1 /\ Q[Len(P) + 1] = 0
  BY <1>8, <1>9, AppendProperties
<1>11. Shows(t, Q)
  <2>1. IsAppended(Q, P)
    BY <1>8 DEF IsAppended
  <2> QED BY <1>1, <1>7, <1>9, <2>1, RowGoesOn
<1>12. t.cols = s.cols /\ t.col = 0 /\ ~ t.wrap
  <2>1. s.row + 1 >= s.rows \/ s.row + 1 < s.rows
    BY Fields
  <2> QED BY <1>1, <1>7, <2>1, NextRowFacts DEF NowAt
<1>13. AtEnd(t, Q)
  BY <1>6, <1>10, <1>12 DEF AtEnd
<1>14. InPlace(t, more, Q)
  BY <1>3, <1>13 DEF InPlace
<1>15. TextIsShown(t, more)
  BY <1>3, <1>4, <1>5, <1>11, <1>12, <1>14 DEF TextIsShown, Q
<1> QED BY <1>15 DEF t, more

\* An empty screen shows an empty text.
LEMMA NoTextIsShown ==
  ASSUME NEW cols \in Nat \ {0}, NEW rows \in Nat \ {0}
  PROVE  TextIsShown(NewScreen(cols, rows), <<>>)
<1> DEFINE s == NewScreen(cols, rows)
           P == <<0>>
<1>1. s.cols = cols /\ s.rows = rows /\ s.row = 0 /\ s.col = 0 /\ s.wrap = FALSE
  BY DEF NewScreen
<1>2. \A r \in 1..rows, c \in 1..cols : s.cells[r][c] = Blank
  BY DEF NewScreen, BlankRow
<1> HIDE DEF s
<1>3. <<>> \in Seq(Units) /\ LinesOf(<<>>) = P /\ P \in Seq(Nat) /\ P # <<>>
  BY LinesOfNone
<1>4. PaperOf(P, cols) = P
  BY PaperOfNone
<1>5. Len(P) = 1 /\ P[1] = 0
  OBVIOUS
<1>6. Shows(s, P)
  <2> HIDE DEF P
  <2>1. s.row = Least(Len(P), s.rows) - 1
    BY <1>1, <1>5 DEF Least
  <2>2. ASSUME NEW r \in 1..rows, NEW c \in 1..cols
        PROVE  ~ (c <= LastRows(P, rows)[r])
    <3>1. LastRows(P, rows)[r] = IF r <= 1 THEN P[r] ELSE 0
      <4>1. 1 \in Nat /\ rows \in Nat /\ 1 <= rows
        OBVIOUS
      <4> QED BY <1>5, <4>1, LastRowsFit
    <3>2. LastRows(P, rows)[r] = 0
      <4>1. CASE r = 1
        BY <1>5, <3>1, <4>1
      <4>2. CASE r # 1
        <5>1. ~ (r <= 1)
          BY <4>2
        <5> QED BY <3>1, <5>1
      <4> QED BY <4>1, <4>2
    <3> QED BY <3>2
  <2> QED BY <1>1, <1>2, <2>1, <2>2 DEF Shows
<1>7. InPlace(s, <<>>, P)
  BY <1>1, <1>5 DEF InPlace, AtEnd
<1>8. TextIsShown(s, <<>>)
  BY <1>1, <1>3, <1>4, <1>6, <1>7 DEF TextIsShown
<1> QED BY <1>8 DEF s

\* A new screen shows no text.
LEMMA InitShowsText == WindowInit => TextInv
<1> SUFFICES ASSUME WindowInit PROVE TextInv
  OBVIOUS
<1>1. /\ termSize \in Size /\ screen = NewScreen(termSize[1], termSize[2])
      /\ wire = <<>> /\ program \in {"talks", "draws"}
      /\ typed = IF program = "talks" THEN <<>> ELSE Other
  BY DEF WindowInit
<1>2. termSize[1] \in Nat \ {0} /\ termSize[2] \in Nat \ {0}
  BY <1>1, WindowAssumption DEF Size
<1>3. TextIsShown(screen, <<>>)
  BY <1>1, <1>2, NoTextIsShown
<1> QED BY <1>1, <1>3 DEF TextInv

\* What a program that talks writes next: text, or what ends it.
LEMMA WritesText ==
  ASSUME TextInv, WindowInv, WriteText, typed' # Other
  PROVE  program' = program /\ wire' = wire /\ TextIsShown(screen', typed')
<1>1. /\ program' = program /\ wire' = wire
      /\ \/ Writes("ink") /\ screen' = PutChar(screen, Ink)
         \/ Writes("return") /\ screen' = CarriageReturn(screen)
         \/ /\ Writes(IF typed \notin {Other, <<>>} /\ Last(typed) = "return" THEN "feed" ELSE Other)
            /\ screen' = LineFeed(screen)
  BY DEF WriteText, Writes
<1>2. ASSUME NEW unit, Writes(unit)
      PROVE  /\ typed # Other /\ unit # Other /\ typed' = Append(typed, unit)
             /\ ~ (typed # <<>> /\ Last(typed) = "return" /\ unit # "feed")
  <2>1. typed' = IF typed = Other \/ unit = Other THEN Other
                 ELSE IF Len(typed) = MaxTyped \/ (typed # <<>> /\ Last(typed) = "return" /\ unit # "feed")
                      THEN Other ELSE Append(typed, unit)
    BY <1>2 DEF Writes
  <2> QED BY <2>1
<1>3. Shaped(screen)
  BY DEF WindowInv
<1>4. typed # Other => TextIsShown(screen, typed)
  BY DEF TextInv
<1>5. CASE Writes("ink") /\ screen' = PutChar(screen, Ink)
  <2>1. typed # Other /\ typed' = Append(typed, "ink") /\ (typed # <<>> => Last(typed) # "return")
    BY <1>2, <1>5
  <2>2. TextIsShown(PutChar(screen, Ink), Append(typed, "ink"))
    BY <1>3, <1>4, <2>1, InkIsShown
  <2> QED BY <1>1, <1>5, <2>1, <2>2
<1>6. CASE Writes("return") /\ screen' = CarriageReturn(screen)
  <2>1. typed # Other /\ typed' = Append(typed, "return")
    BY <1>2, <1>6
  <2>2. TextIsShown(CarriageReturn(screen), Append(typed, "return"))
    BY <1>3, <1>4, <2>1, ReturnIsShown
  <2> QED BY <1>1, <1>6, <2>1, <2>2
<1>7. CASE /\ Writes(IF typed \notin {Other, <<>>} /\ Last(typed) = "return" THEN "feed" ELSE Other)
           /\ screen' = LineFeed(screen)
  <2>1. typed \notin {Other, <<>>} /\ Last(typed) = "return" /\ typed' = Append(typed, "feed")
    <3>1. CASE typed \notin {Other, <<>>} /\ Last(typed) = "return"
      <4>1. Writes("feed")
        BY <1>7, <3>1
      <4> QED BY <1>2, <3>1, <4>1
    <3>2. CASE ~ (typed \notin {Other, <<>>} /\ Last(typed) = "return")
      <4>1. Writes(Other)
        BY <1>7, <3>2
      <4> QED BY <1>2, <4>1
    <3> QED BY <3>1, <3>2
  <2>2. TextIsShown(LineFeed(screen), Append(typed, "feed"))
    BY <1>3, <1>4, <2>1, FeedIsShown
  <2> QED BY <1>1, <1>7, <2>1, <2>2
<1> QED BY <1>1, <1>5, <1>6, <1>7

\* No step of the program, the reader or the window breaks this.
LEMMA StepShowsText == WindowInv /\ TextInv /\ [WindowNext]_windowVars => TextInv'
<1> SUFFICES ASSUME WindowInv, TextInv, [WindowNext]_windowVars PROVE TextInv'
  OBVIOUS
<1> USE DEF TextInv
<1>1. ASSUME NEW z \in Size, ResizeTerminal(z) PROVE TextInv'
  BY <1>1 DEF ResizeTerminal
<1>2. CASE ResizeScreen
  BY <1>2 DEF ResizeScreen
<1>3. CASE DrawAll \/ DrawSome
  BY <1>3 DEF DrawAll, DrawSome
<1>4. CASE ProgramEnds \/ ReadEnd \/ UNCHANGED windowVars
  BY <1>4 DEF ProgramEnds, ReadEnd, windowVars
<1>5. CASE ReadClear \/ ReadMove \/ ReadDraw
  <2>1. wire # <<>> /\ program' = program /\ typed' = typed
    BY <1>5 DEF ReadClear, ReadMove, ReadDraw, Receives
  <2> QED BY <2>1
<1>6. CASE WriteText
  <2>1. program = "talks" /\ program' = program
    BY <1>6 DEF WriteText, Writes
  <2>2. ASSUME typed' # Other PROVE wire' = <<>> /\ TextIsShown(screen', typed')
    <3>1. typed # Other
      BY <1>6, <2>2 DEF WriteText, Writes
    <3> QED BY <1>6, <2>2, <3>1, WritesText
  <2> QED BY <2>1, <2>2
<1>7. CASE WriteSequence
  BY <1>7 DEF WriteSequence, Writes
<1> QED BY <1>1, <1>2, <1>3, <1>4, <1>5, <1>6, <1>7 DEF WindowNext

\* Cells that show the last rows of the paper.
LEMMA TextCells ==
  ASSUME NEW s, Shaped(s), NEW text, TextIsShown(s, text)
  PROVE  LET shown == LastRows(Paper(text, s.cols), s.rows)
         IN s.cells = [r \in 1..s.rows |-> [c \in 1..s.cols |-> IF c <= shown[r] THEN Ink ELSE Blank]]
<1> DEFINE shown == LastRows(Paper(text, s.cols), s.rows)
           grid == [r \in 1..s.rows |-> [c \in 1..s.cols |-> IF c <= shown[r] THEN Ink ELSE Blank]]
<1>1. Shows(s, Paper(text, s.cols))
  BY PaperIsPaperOf DEF TextIsShown
<1>2. \A r \in 1..s.rows, c \in 1..s.cols : s.cells[r][c] = IF c <= shown[r] THEN Ink ELSE Blank
  BY <1>1 DEF Shows
<1> HIDE DEF shown
<1>3. IsGrid(grid, s.cols, s.rows)
  BY DEF IsGrid
<1>4. \A r \in 1..s.rows, c \in 1..s.cols : s.cells[r][c] = grid[r][c]
  BY <1>2
<1> HIDE DEF grid
<1>5. s.cells = grid
  BY <1>3, <1>4, CellsMakeGrid
<1> QED BY <1>5 DEF grid, shown

(* What is on the way to the screen. *)

\* What a program that draws writes.
Items == [op : {"clear"}, size : Size] \cup [op : {"move", "draw"}, row : Nat, col : Nat]

\* Nothing between two places on the wire clears the screen.
ClearFree(w, a, b) == \A k \in a..b : w[k].op # "clear"

\* What follows place i, up to the next clear, stays within a size.
InSize(w, i, z) ==
  \A j \in (i + 1)..Len(w) : ClearFree(w, i + 1, j) => w[j].row < z[2] /\ w[j].col < z[1]

\* And a cell is drawn there.
Paints(w, i, p) == \E j \in (i + 1)..Len(w) : ClearFree(w, i + 1, j) /\ w[j] = Draw(p[1], p[2])

\* The cells of a size.
Within(z) == (0..(z[2] - 1)) \X (0..(z[1] - 1))

\* x leaves the cursor where y draws.
Leads(x, y) ==
  x.op # "clear" /\ x.row = y.row /\ IF x.op = "move" THEN x.col = y.col ELSE x.col + 1 = y.col

\* Every cell is drawn where what comes before it has left the cursor.
Chained(w) == \A i \in 2..Len(w) : w[i].op = "draw" => Leads(w[i - 1], w[i])

\* The places of the tail.
LEMMA TailFacts ==
  ASSUME NEW w \in Seq(Items), w # <<>>, NEW v, v = Tail(w)
  PROVE  /\ v \in Seq(Items) /\ Len(v) \in Nat /\ Len(w) = Len(v) + 1
         /\ \A k \in 1..Len(v) : v[k] = w[k + 1]
<1>1. Len(w) \in Nat /\ Len(w) >= 1
  BY NotEmpty
<1>2. v \in Seq(Items) /\ Len(v) = Len(w) - 1 /\ \A k \in 1..Len(v) : v[k] = w[k + 1]
  BY HeadTailProperties
<1>3. Len(v) \in Nat
  BY <1>2, LenProperties
<1> QED BY <1>1, <1>2, <1>3

\* They move by one.
LEMMA ClearFreeShifts ==
  ASSUME NEW w \in Seq(Items), w # <<>>, NEW v, v = Tail(w),
         NEW a \in Nat, a >= 1, NEW b \in Nat, b <= Len(v)
  PROVE  ClearFree(v, a, b) <=> ClearFree(w, a + 1, b + 1)
<1>1. Len(v) \in Nat /\ \A k \in 1..Len(v) : v[k] = w[k + 1]
  BY TailFacts
<1>2. ASSUME ClearFree(w, a + 1, b + 1), NEW k \in a..b PROVE v[k].op # "clear"
  <2>1. k \in 1..Len(v) /\ k + 1 \in (a + 1)..(b + 1)
    BY <1>1
  <2>2. w[k + 1].op # "clear"
    BY <1>2, <2>1 DEF ClearFree
  <2> QED BY <1>1, <2>1, <2>2
<1>3. ASSUME ClearFree(v, a, b), NEW k \in (a + 1)..(b + 1) PROVE w[k].op # "clear"
  <2>1. PICK l \in Nat : l = k - 1
    OBVIOUS
  <2>2. l \in 1..Len(v) /\ l \in a..b /\ l + 1 = k
    BY <1>1, <2>1
  <2>3. v[l].op # "clear" /\ v[l] = w[l + 1]
    BY <1>1, <1>3, <2>2 DEF ClearFree
  <2> QED BY <2>2, <2>3
<1> QED BY <1>2, <1>3 DEF ClearFree

\* Reading the head moves what follows later places.
LEMMA LaterPlaces ==
  ASSUME NEW w \in Seq(Items), w # <<>>, NEW v, v = Tail(w), NEW i \in Nat, NEW n \in Nat, n = i + 1,
         n <= Len(w)
  PROVE  /\ \A z : InSize(w, n, z) => InSize(v, i, z)
         /\ \A p : Paints(w, n, p) => Paints(v, i, p)
         /\ ClearFree(v, n, Len(v)) => ClearFree(w, n + 1, Len(w))
<1>1. Len(v) \in Nat /\ Len(w) = Len(v) + 1 /\ \A k \in 1..Len(v) : v[k] = w[k + 1]
  BY TailFacts
<1>2. ASSUME NEW z, InSize(w, n, z), NEW j \in (i + 1)..Len(v), ClearFree(v, i + 1, j)
      PROVE  v[j].row < z[2] /\ v[j].col < z[1]
  <2>1. j \in Nat /\ j \in 1..Len(v) /\ j <= Len(v) /\ j + 1 \in (n + 1)..Len(w) /\ n >= 1
    BY <1>1
  <2>2. ClearFree(w, n + 1, j + 1)
    BY <1>2, <2>1, ClearFreeShifts
  <2>3. w[j + 1].row < z[2] /\ w[j + 1].col < z[1]
    BY <1>2, <2>1, <2>2 DEF InSize
  <2> QED BY <1>1, <2>1, <2>3
<1>3. ASSUME NEW p, Paints(w, n, p) PROVE Paints(v, i, p)
  <2>1. PICK j \in (n + 1)..Len(w) : ClearFree(w, n + 1, j) /\ w[j] = Draw(p[1], p[2])
    BY <1>3 DEF Paints
  <2>2. PICK l \in Nat : j = l + 1
    <3>1. j - 1 \in Nat /\ j = (j - 1) + 1
      BY <1>1
    <3> QED BY <3>1
  <2>3. l \in 1..Len(v) /\ l <= Len(v) /\ l \in (i + 1)..Len(v) /\ n >= 1
    BY <1>1, <2>2
  <2>4. ClearFree(v, n, l)
    BY <2>1, <2>2, <2>3, ClearFreeShifts
  <2>5. v[l] = w[j]
    BY <1>1, <2>2, <2>3
  <2> QED BY <2>1, <2>3, <2>4, <2>5 DEF Paints
<1>4. ASSUME ClearFree(v, n, Len(v)) PROVE ClearFree(w, n + 1, Len(w))
  <2>1. n >= 1 /\ Len(v) <= Len(v)
    BY <1>1
  <2>2. ClearFree(w, n + 1, Len(v) + 1)
    BY <1>1, <1>4, <2>1, ClearFreeShifts
  <2> QED BY <1>1, <2>2
<1> QED BY <1>2, <1>3, <1>4 DEF InSize

\* Reading a head that does not clear leaves what follows up to the next clear.
LEMMA RestOfDrawing ==
  ASSUME NEW w \in Seq(Items), w # <<>>, NEW v, v = Tail(w), w[1].op # "clear"
  PROVE  /\ \A z : InSize(w, 0, z) => InSize(v, 0, z)
         /\ \A p : Paints(w, 0, p) => Paints(v, 0, p) \/ w[1] = Draw(p[1], p[2])
         /\ ClearFree(v, 1, Len(v)) => ClearFree(w, 1, Len(w))
<1>1. Len(v) \in Nat /\ Len(w) = Len(v) + 1 /\ \A k \in 1..Len(v) : v[k] = w[k + 1]
  BY TailFacts
<1>2. ASSUME NEW j \in Nat, j <= Len(v) PROVE ClearFree(v, 1, j) <=> ClearFree(w, 1, j + 1)
  <2>1. ClearFree(v, 1, j) <=> ClearFree(w, 1 + 1, j + 1)
    <3>1. 1 \in Nat /\ 1 >= 1
      OBVIOUS
    <3> QED BY <1>2, <3>1, ClearFreeShifts
  <2>2. ClearFree(w, 1 + 1, j + 1) <=> ClearFree(w, 1, j + 1)
    <3>1. ASSUME ClearFree(w, 1 + 1, j + 1), NEW k \in 1..(j + 1) PROVE w[k].op # "clear"
      <4>1. k = 1 \/ k \in (1 + 1)..(j + 1)
        OBVIOUS
      <4> QED BY <3>1, <4>1 DEF ClearFree
    <3>2. ASSUME ClearFree(w, 1, j + 1), NEW k \in (1 + 1)..(j + 1) PROVE w[k].op # "clear"
      <4>1. k \in 1..(j + 1)
        OBVIOUS
      <4> QED BY <3>2, <4>1 DEF ClearFree
    <3> QED BY <3>1, <3>2 DEF ClearFree
  <2> QED BY <2>1, <2>2
<1>3. ASSUME NEW z, InSize(w, 0, z), NEW j \in (0 + 1)..Len(v), ClearFree(v, 0 + 1, j)
      PROVE  v[j].row < z[2] /\ v[j].col < z[1]
  <2>1. j \in Nat /\ j \in 1..Len(v) /\ j <= Len(v) /\ j + 1 \in (0 + 1)..Len(w) /\ 0 + 1 = 1
    BY <1>1
  <2>2. ClearFree(w, 1, j + 1)
    BY <1>2, <1>3, <2>1
  <2>3. w[j + 1].row < z[2] /\ w[j + 1].col < z[1]
    BY <1>3, <2>1, <2>2 DEF InSize
  <2> QED BY <1>1, <2>1, <2>3
<1>4. ASSUME NEW p, Paints(w, 0, p), w[1] # Draw(p[1], p[2]) PROVE Paints(v, 0, p)
  <2>1. PICK j \in (0 + 1)..Len(w) : ClearFree(w, 0 + 1, j) /\ w[j] = Draw(p[1], p[2])
    BY <1>4 DEF Paints
  <2>2. j # 1
    BY <1>4, <2>1
  <2>3. PICK l \in Nat : j = l + 1
    <3>1. j - 1 \in Nat /\ j = (j - 1) + 1
      BY <1>1
    <3> QED BY <3>1
  <2>4. l \in 1..Len(v) /\ l <= Len(v) /\ l \in (0 + 1)..Len(v) /\ 0 + 1 = 1
    BY <1>1, <2>2, <2>3
  <2>5. ClearFree(v, 0 + 1, l)
    BY <1>2, <2>1, <2>3, <2>4
  <2>6. v[l] = w[j]
    BY <1>1, <2>3, <2>4
  <2> QED BY <2>1, <2>4, <2>5, <2>6 DEF Paints
<1>5. ASSUME ClearFree(v, 1, Len(v)) PROVE ClearFree(w, 1, Len(w))
  <2>1. Len(v) <= Len(v)
    BY <1>1
  <2>2. ClearFree(w, 1, Len(v) + 1)
    BY <1>1, <1>2, <1>5, <2>1
  <2> QED BY <1>1, <2>2
<1> QED BY <1>3, <1>4, <1>5 DEF InSize

\* Reading the head leaves a chain.
LEMMA ChainGoesOn ==
  ASSUME NEW w \in Seq(Items), w # <<>>, NEW v, v = Tail(w), Chained(w)
  PROVE  Chained(v)
<1>1. Len(v) \in Nat /\ Len(w) = Len(v) + 1 /\ \A k \in 1..Len(v) : v[k] = w[k + 1]
  BY TailFacts
<1>2. ASSUME NEW i \in 2..Len(v), v[i].op = "draw" PROVE Leads(v[i - 1], v[i])
  <2>1. PICK l \in Nat : i = l + 1
    <3>1. i - 1 \in Nat /\ i = (i - 1) + 1
      OBVIOUS
    <3> QED BY <3>1
  <2>2. i \in 1..Len(v) /\ l \in 1..Len(v) /\ i + 1 \in 2..Len(w) /\ i + 1 - 1 = i /\ i - 1 = l
    BY <1>1, <2>1
  <2>3. v[i] = w[i + 1] /\ v[l] = w[i]
    BY <1>1, <2>1, <2>2
  <2>4. Leads(w[i], w[i + 1])
    BY <1>2, <2>2, <2>3 DEF Chained
  <2> QED BY <2>2, <2>3, <2>4
<1> QED BY <1>2 DEF Chained

-----------------------------------------------------------------------------
\* What the parts of a sequence are in the whole.
IsJoin(w, a, b) == w = a \o b

\* The places of both parts.
LEMMA JoinFacts ==
  ASSUME NEW a \in Seq(Items), NEW b \in Seq(Items), NEW w, IsJoin(w, a, b)
  PROVE  /\ w \in Seq(Items) /\ Len(a) \in Nat /\ Len(b) \in Nat /\ Len(w) = Len(a) + Len(b)
         /\ \A k \in 1..Len(a) : w[k] = a[k]
         /\ \A k \in 1..Len(b) : w[Len(a) + k] = b[k]
<1>1. Len(a) \in Nat /\ Len(b) \in Nat
  OBVIOUS
<1>2. /\ w \in Seq(Items) /\ Len(w) = Len(a) + Len(b)
      /\ \A k \in 1..(Len(a) + Len(b)) : w[k] = IF k <= Len(a) THEN a[k] ELSE b[k - Len(a)]
  BY ConcatProperties DEF IsJoin
<1>3. ASSUME NEW k \in 1..Len(a) PROVE w[k] = a[k]
  <2>1. k \in 1..(Len(a) + Len(b)) /\ k <= Len(a)
    BY <1>1
  <2> QED BY <1>2, <2>1
<1>4. ASSUME NEW k \in 1..Len(b) PROVE w[Len(a) + k] = b[k]
  <2>1. PICK l \in Nat : l = Len(a) + k
    BY <1>1
  <2>2. l \in 1..(Len(a) + Len(b)) /\ ~ (l <= Len(a)) /\ l - Len(a) = k
    BY <1>1, <2>1
  <2>3. w[l] = b[l - Len(a)]
    BY <1>2, <2>2
  <2> QED BY <2>1, <2>2, <2>3
<1> QED BY <1>1, <1>2, <1>3, <1>4

\* A chain goes on behind another when it does not begin with a drawn cell.
LEMMA ChainsJoin ==
  ASSUME NEW a \in Seq(Items), NEW b \in Seq(Items), Chained(a), Chained(b), b[1].op # "draw",
         NEW w, IsJoin(w, a, b)
  PROVE  Chained(w)
<1> DEFINE n == Len(a)
<1>1. /\ n \in Nat /\ Len(b) \in Nat /\ Len(w) = n + Len(b)
      /\ \A k \in 1..n : w[k] = a[k]
      /\ \A k \in 1..Len(b) : w[n + k] = b[k]
  BY JoinFacts
<1> HIDE DEF n
<1>2. ASSUME NEW i \in 2..Len(w), w[i].op = "draw" PROVE Leads(w[i - 1], w[i])
  <2>1. CASE i <= n
    <3>1. i \in 1..n /\ i - 1 \in 1..n /\ i \in 2..n
      BY <1>1, <2>1
    <3>2. w[i] = a[i] /\ w[i - 1] = a[i - 1]
      BY <1>1, <3>1
    <3> QED BY <1>2, <3>1, <3>2 DEF Chained, n
  <2>2. CASE i > n
    <3>1. PICK l \in Nat : i = n + l
      <4>1. i - n \in Nat /\ i = n + (i - n)
        BY <1>1, <2>2
      <4> QED BY <4>1
    <3>2. l \in 1..Len(b)
      BY <1>1, <2>2, <3>1
    <3>3. w[i] = b[l]
      BY <1>1, <3>1, <3>2
    <3>4. l # 1
      BY <1>2, <3>3
    <3>5. l \in 2..Len(b) /\ l - 1 \in 1..Len(b) /\ i - 1 = n + (l - 1)
      BY <1>1, <3>1, <3>2, <3>4
    <3>6. w[i - 1] = b[l - 1]
      BY <1>1, <3>5
    <3> QED BY <1>2, <3>3, <3>5, <3>6 DEF Chained
  <2> QED BY <1>1, <2>1, <2>2
<1> QED BY <1>2 DEF Chained

\* A drawing that begins with a clear changes nothing for those before it.
LEMMA EarlierPlaces ==
  ASSUME NEW a \in Seq(Items), NEW b \in Seq(Items), b # <<>>, b[1].op = "clear",
         NEW w, IsJoin(w, a, b), NEW i \in 0..Len(a)
  PROVE  /\ \A z : InSize(a, i, z) => InSize(w, i, z)
         /\ \A p : Paints(a, i, p) => Paints(w, i, p)
         /\ ~ ClearFree(w, i + 1, Len(w))
<1> DEFINE n == Len(a)
<1>1. /\ n \in Nat /\ Len(b) \in Nat /\ Len(w) = n + Len(b)
      /\ \A k \in 1..n : w[k] = a[k]
      /\ \A k \in 1..Len(b) : w[n + k] = b[k]
  BY JoinFacts
<1>2. Len(b) >= 1
  BY NotEmpty
<1> HIDE DEF n
<1>3. w[n + 1].op = "clear"
  <2>1. 1 \in 1..Len(b)
    BY <1>1, <1>2
  <2> QED BY <1>1, <2>1
<1>4. i \in Nat /\ i <= n
  BY <1>1 DEF n
<1>5. ASSUME NEW j \in (i + 1)..Len(w), ClearFree(w, i + 1, j) PROVE j \in (i + 1)..n
  <2>1. ~ (n + 1 \in (i + 1)..j)
    BY <1>3, <1>5 DEF ClearFree
  <2> QED BY <1>1, <1>4, <2>1
<1>6. ASSUME NEW j \in (i + 1)..n PROVE ClearFree(w, i + 1, j) <=> ClearFree(a, i + 1, j)
  <2>1. \A k \in (i + 1)..j : w[k] = a[k]
    <3>1. \A k \in (i + 1)..j : k \in 1..n
      BY <1>1, <1>4
    <3> QED BY <1>1, <3>1
  <2> QED BY <2>1 DEF ClearFree
<1>7. ASSUME NEW z, InSize(a, i, z), NEW j \in (i + 1)..Len(w), ClearFree(w, i + 1, j)
      PROVE  w[j].row < z[2] /\ w[j].col < z[1]
  <2>1. j \in (i + 1)..n /\ j \in 1..n
    BY <1>1, <1>4, <1>5, <1>7
  <2>2. ClearFree(a, i + 1, j)
    BY <1>6, <1>7, <2>1
  <2>3. a[j].row < z[2] /\ a[j].col < z[1]
    BY <1>7, <2>1, <2>2 DEF InSize, n
  <2> QED BY <1>1, <2>1, <2>3
<1>8. ASSUME NEW p, Paints(a, i, p) PROVE Paints(w, i, p)
  <2>1. PICK j \in (i + 1)..n : ClearFree(a, i + 1, j) /\ a[j] = Draw(p[1], p[2])
    BY <1>8 DEF Paints, n
  <2>2. j \in (i + 1)..Len(w) /\ j \in 1..n
    BY <1>1, <1>4
  <2>3. ClearFree(w, i + 1, j) /\ w[j] = a[j]
    BY <1>1, <1>6, <2>1, <2>2
  <2> QED BY <2>1, <2>2, <2>3 DEF Paints
<1>9. ~ ClearFree(w, i + 1, Len(w))
  <2>1. n + 1 \in (i + 1)..Len(w)
    BY <1>1, <1>2, <1>4
  <2> QED BY <1>3, <2>1 DEF ClearFree
<1> QED BY <1>7, <1>8, <1>9 DEF InSize

\* What follows a clear in the second part follows it in the whole.
LEMMA NewPlaces ==
  ASSUME NEW a \in Seq(Items), NEW b \in Seq(Items), NEW w, IsJoin(w, a, b),
         NEW i \in 1..Len(b), NEW m \in Nat, m = Len(a) + i
  PROVE  /\ \A z : InSize(b, i, z) => InSize(w, m, z)
         /\ \A p : Paints(b, i, p) => Paints(w, m, p)
<1> DEFINE n == Len(a)
<1>1. /\ n \in Nat /\ Len(b) \in Nat /\ Len(w) = n + Len(b)
      /\ \A k \in 1..Len(b) : w[n + k] = b[k]
  BY JoinFacts
<1>2. m = n + i /\ i \in Nat /\ i >= 1
  BY <1>1
<1> HIDE DEF n
<1>3. ASSUME NEW l \in (i + 1)..Len(b) PROVE ClearFree(w, m + 1, n + l) <=> ClearFree(b, i + 1, l)
  <2>1. ASSUME ClearFree(b, i + 1, l), NEW k \in (m + 1)..(n + l) PROVE w[k].op # "clear"
    <3>1. PICK q \in Nat : k = n + q
      <4>1. k - n \in Nat /\ k = n + (k - n)
        BY <1>1, <1>2
      <4> QED BY <4>1
    <3>2. q \in (i + 1)..l /\ q \in 1..Len(b)
      BY <1>1, <1>2, <3>1
    <3>3. w[k] = b[q]
      BY <1>1, <3>1, <3>2
    <3> QED BY <2>1, <3>2, <3>3 DEF ClearFree
  <2>2. ASSUME ClearFree(w, m + 1, n + l), NEW k \in (i + 1)..l PROVE b[k].op # "clear"
    <3>1. n + k \in (m + 1)..(n + l) /\ k \in 1..Len(b)
      BY <1>1, <1>2
    <3>2. w[n + k] = b[k]
      BY <1>1, <3>1
    <3> QED BY <2>2, <3>1, <3>2 DEF ClearFree
  <2> QED BY <2>1, <2>2 DEF ClearFree
<1>4. ASSUME NEW z, InSize(b, i, z), NEW j \in (m + 1)..Len(w), ClearFree(w, m + 1, j)
      PROVE  w[j].row < z[2] /\ w[j].col < z[1]
  <2>1. PICK l \in Nat : j = n + l
    <3>1. j - n \in Nat /\ j = n + (j - n)
      BY <1>1, <1>2
    <3> QED BY <3>1
  <2>2. l \in (i + 1)..Len(b) /\ l \in 1..Len(b)
    BY <1>1, <1>2, <2>1
  <2>3. w[j] = b[l] /\ ClearFree(b, i + 1, l)
    BY <1>1, <1>3, <1>4, <2>1, <2>2
  <2> QED BY <1>4, <2>2, <2>3 DEF InSize
<1>5. ASSUME NEW p, Paints(b, i, p) PROVE Paints(w, m, p)
  <2>1. PICK l \in (i + 1)..Len(b) : ClearFree(b, i + 1, l) /\ b[l] = Draw(p[1], p[2])
    BY <1>5 DEF Paints
  <2>2. n + l \in (m + 1)..Len(w) /\ l \in 1..Len(b)
    BY <1>1, <1>2
  <2>3. ClearFree(w, m + 1, n + l) /\ w[n + l] = b[l]
    BY <1>1, <1>3, <2>1, <2>2
  <2> QED BY <2>1, <2>2, <2>3 DEF Paints
<1> QED BY <1>4, <1>5 DEF InSize

\* A run of cells: the cursor goes to the first, every cell follows.
IsRun(R, r, c, d) == R = Run(r, c, d)

\* It draws them all, in their order, and nothing else.
DrawsRun(R, r, c, d) ==
  /\ R \in Seq(Items) /\ R # <<>> /\ R[1].op = "move" /\ Chained(R)
  /\ \A k \in 1..Len(R) : R[k].op # "clear" /\ R[k].row = r /\ R[k].col <= d /\ R[k].col \in Nat
  /\ \A x \in c..d : \E k \in 1..Len(R) : R[k] = Draw(r, x)

\* The model's Run does.
LEMMA RunFacts ==
  ASSUME NEW r \in Nat, NEW c \in Nat, NEW d \in Nat, c <= d, NEW R, IsRun(R, r, c, d)
  PROVE  DrawsRun(R, r, c, d)
<1> DEFINE a == <<Move(r, c)>>
           m == d - c + 1
           b == [i \in 1..m |-> Draw(r, c + i - 1)]
<1>1. m \in Nat /\ m >= 1
  OBVIOUS
<1>2. a \in Seq(Items) /\ Len(a) = 1 /\ a[1] = Move(r, c)
  BY DEF Items, Move
<1>3. b \in Seq(Items) /\ Len(b) = m
  <2>1. \A i \in 1..m : Draw(r, c + i - 1) \in Items
    BY DEF Draw, Items
  <2> HIDE DEF m
  <2>2. b \in [1..m -> Items]
    BY <2>1
  <2> HIDE DEF b
  <2> QED BY <1>1, <2>2
<1>4. \A i \in 1..m : b[i] = Draw(r, c + i - 1)
  OBVIOUS
<1>5. IsJoin(R, a, b)
  BY DEF IsRun, Run, IsJoin
<1> HIDE DEF a, b, m
<1>6. /\ R \in Seq(Items) /\ Len(R) = 1 + m
      /\ R[1] = a[1]
      /\ \A k \in 1..m : R[1 + k] = b[k]
  <2>1. /\ R \in Seq(Items) /\ Len(R) = Len(a) + Len(b)
        /\ \A k \in 1..Len(a) : R[k] = a[k]
        /\ \A k \in 1..Len(b) : R[Len(a) + k] = b[k]
    <3>1. a \in Seq(Items) /\ b \in Seq(Items)
      BY <1>2, <1>3
    <3> QED BY <1>5, <3>1, JoinFacts
  <2> QED BY <1>2, <1>3, <2>1
<1>7. R # <<>>
  BY <1>1, <1>6
<1>8. R[1].op = "move" /\ R[1].row = r /\ R[1].col = c
  BY <1>2, <1>6 DEF Move
<1>9. ASSUME NEW k \in 1..Len(R), k # 1
      PROVE  R[k] = Draw(r, c + k - 2) /\ R[k].op = "draw" /\ R[k].row = r /\ R[k].col = c + k - 2
  <2>1. PICK l \in Nat : k = 1 + l
    <3>1. k - 1 \in Nat /\ k = 1 + (k - 1)
      BY <1>1, <1>6
    <3> QED BY <3>1
  <2>2. l \in 1..m
    BY <1>1, <1>6, <1>9, <2>1
  <2>3. R[k] = Draw(r, c + l - 1)
    BY <1>4, <1>6, <2>1, <2>2
  <2>4. c + l - 1 = c + k - 2
    BY <2>1
  <2>5. R[k] = Draw(r, c + k - 2)
    BY <2>3, <2>4
  <2> QED BY <2>5 DEF Draw
<1>10. ASSUME NEW k \in 1..Len(R)
       PROVE  R[k].op # "clear" /\ R[k].row = r /\ R[k].col <= d /\ R[k].col \in Nat
  <2>1. CASE k = 1
    BY <1>8, <2>1
  <2>2. CASE k # 1
    <3>1. R[k].op = "draw" /\ R[k].row = r /\ R[k].col = c + k - 2
      BY <1>9, <2>2
    <3>2. c + k - 2 <= d /\ c + k - 2 \in Nat
      BY <1>6, <2>2 DEF m
    <3> QED BY <3>1, <3>2
  <2> QED BY <2>1, <2>2
<1>11. Chained(R)
  <2> SUFFICES ASSUME NEW i \in 2..Len(R), R[i].op = "draw" PROVE Leads(R[i - 1], R[i])
    BY DEF Chained
  <2>1. i \in 1..Len(R) /\ i # 1 /\ i - 1 \in 1..Len(R)
    BY <1>1, <1>6
  <2>2. R[i].row = r /\ R[i].col = c + i - 2
    BY <1>9, <2>1
  <2>3. CASE i - 1 = 1
    <3>1. R[i].col = c
      BY <2>2, <2>3
    <3> QED BY <1>8, <2>2, <2>3, <3>1 DEF Leads
  <2>4. CASE i - 1 # 1
    <3>1. PICK l \in 1..Len(R) : l = i - 1
      BY <2>1
    <3>2. R[l].op = "draw" /\ R[l].row = r /\ R[l].col = c + l - 2
      BY <1>9, <2>4, <3>1
    <3>3. c + l - 2 + 1 = c + i - 2
      BY <3>1
    <3> QED BY <2>2, <3>1, <3>2, <3>3 DEF Leads
  <2> QED BY <2>3, <2>4
<1>12. ASSUME NEW x \in c..d PROVE \E k \in 1..Len(R) : R[k] = Draw(r, x)
  <2>1. PICK k \in 1..Len(R) : k = x - c + 2
    <3>1. x - c + 2 \in 1..Len(R)
      BY <1>6 DEF m
    <3> QED BY <3>1
  <2>2. k # 1 /\ c + k - 2 = x
    BY <2>1
  <2>3. R[k] = Draw(r, c + k - 2)
    BY <1>9, <2>2
  <2> QED BY <2>2, <2>3
<1> QED BY <1>6, <1>7, <1>8, <1>10, <1>11, <1>12 DEF DrawsRun

\* A sequence that draws every cell of so many rows and nothing outside them.
Fills(F, rows, cols) ==
  /\ F \in Seq(Items) /\ F # <<>> /\ F[1].op = "move" /\ Chained(F)
  /\ \A k \in 1..Len(F) : F[k].op # "clear" /\ F[k].row < rows /\ F[k].col < cols
  /\ \A r \in 0..(rows - 1), c \in 0..(cols - 1) : \E k \in 1..Len(F) : F[k] = Draw(r, c)

\* One run for each row.
RunsOf(rows, cols) == [r \in 1..rows |-> Run(r - 1, 0, cols - 1)]

\* End to end they fill the rows.
LEMMA RunsFill ==
  ASSUME NEW cols \in Nat, cols > 0
  PROVE  \A n \in Nat : 1 <= n => Fills(FlattenSeq(RunsOf(n, cols)), n, cols)
<1> DEFINE T == {n \in Nat : Fills(FlattenSeq(RunsOf(n, cols)), n, cols)}
           d == cols - 1
<1>1. d \in Nat /\ 0 <= d /\ 0 \in Nat
  OBVIOUS
<1>2. 1 \in T
  <2> DEFINE F == Run(0, 0, d)
  <2>1. FlattenSeq(RunsOf(1, cols)) = F
    <3>1. RunsOf(1, cols) = [i \in 1..1 |-> RunsOf(1, cols)[i]]
      BY DEF RunsOf
    <3>2. RunsOf(1, cols)[1] = F
      BY DEF RunsOf
    <3> HIDE DEF F
    <3> QED BY <3>1, <3>2, FlatOfOne
  <2>0. IsRun(F, 0, 0, d)
    BY DEF IsRun
  <2> HIDE DEF d, F
  <2>2. /\ F \in Seq(Items) /\ F # <<>> /\ F[1].op = "move" /\ Chained(F)
        /\ \A k \in 1..Len(F) : F[k].op # "clear" /\ F[k].row = 0 /\ F[k].col <= d /\ F[k].col \in Nat
        /\ \A x \in 0..d : \E k \in 1..Len(F) : F[k] = Draw(0, x)
    <3>1. DrawsRun(F, 0, 0, d)
      BY <1>1, <2>0, RunFacts
    <3> QED BY <3>1 DEF DrawsRun
  <2>3. \A k \in 1..Len(F) : F[k].op # "clear" /\ F[k].row < 1 /\ F[k].col < cols
    BY <2>2 DEF d
  <2>4. \A r \in 0..(1 - 1), c \in 0..(cols - 1) : \E k \in 1..Len(F) : F[k] = Draw(r, c)
    <3>1. \A r \in 0..(1 - 1) : r = 0
      OBVIOUS
    <3> QED BY <2>2, <3>1 DEF d
  <2> QED BY <2>1, <2>2, <2>3, <2>4 DEF Fills
<1>3. ASSUME NEW n \in Nat, 1 <= n, n \in T PROVE n + 1 \in T
  <2> DEFINE F == FlattenSeq(RunsOf(n, cols))
             R == Run(n, 0, d)
             G == FlattenSeq(RunsOf(n + 1, cols))
  <2>1. /\ F \in Seq(Items) /\ F # <<>> /\ F[1].op = "move" /\ Chained(F)
        /\ \A k \in 1..Len(F) : F[k].op # "clear" /\ F[k].row < n /\ F[k].col < cols
        /\ \A r \in 0..(n - 1), c \in 0..(cols - 1) : \E k \in 1..Len(F) : F[k] = Draw(r, c)
    BY <1>3 DEF Fills
  <2>2. IsJoin(G, F, R)
    <3> DEFINE s == RunsOf(n + 1, cols)
    <3>1. s = [i \in 1..(n + 1) |-> s[i]]
      BY DEF RunsOf
    <3>2. [i \in 1..n |-> s[i]] = RunsOf(n, cols)
      <4>1. \A i \in 1..n : i \in 1..(n + 1)
        OBVIOUS
      <4> QED BY <4>1 DEF RunsOf
    <3>3. s[n + 1] = R
      <4>1. n + 1 \in 1..(n + 1) /\ n + 1 - 1 = n
        OBVIOUS
      <4>2. s[n + 1] = Run(n + 1 - 1, 0, cols - 1)
        BY <4>1 DEF RunsOf
      <4> QED BY <4>1, <4>2
    <3> HIDE DEF s, R
    <3>4. FlattenSeq(s) = FlattenSeq([i \in 1..n |-> s[i]]) \o s[n + 1]
      BY <1>3, <3>1, FlatOfMore
    <3> QED BY <3>2, <3>3, <3>4 DEF IsJoin, s
  <2>0. IsRun(R, n, 0, d)
    BY DEF IsRun
  <2> HIDE DEF d, R, F, G, T
  <2>3. DrawsRun(R, n, 0, d)
    <3>1. n \in Nat /\ 0 \in Nat /\ d \in Nat /\ 0 <= d
      BY <1>1
    <3> QED BY <2>0, <3>1, RunFacts
  <2>14. /\ R \in Seq(Items) /\ R # <<>> /\ R[1].op = "move" /\ Chained(R)
         /\ \A k \in 1..Len(R) : R[k].op # "clear" /\ R[k].row = n /\ R[k].col <= d /\ R[k].col \in Nat
         /\ \A x \in 0..d : \E k \in 1..Len(R) : R[k] = Draw(n, x)
    BY <2>3 DEF DrawsRun
  <2>4. /\ G \in Seq(Items) /\ Len(F) \in Nat /\ Len(R) \in Nat /\ Len(G) = Len(F) + Len(R)
        /\ \A k \in 1..Len(F) : G[k] = F[k]
        /\ \A k \in 1..Len(R) : G[Len(F) + k] = R[k]
    BY <2>1, <2>2, <2>14, JoinFacts
  <2>5. Chained(G)
    <3>1. R[1].op # "draw"
      BY <2>14
    <3> QED BY <2>1, <2>2, <2>14, <3>1, ChainsJoin
  <2>6. Len(F) >= 1 /\ 1 \in 1..Len(F)
    BY <2>1, NotEmpty
  <2>7. G # <<>> /\ G[1].op = "move"
    <3>1. G[1] = F[1] /\ Len(G) > 0
      BY <2>4, <2>6
    <3> QED BY <2>1, <2>4, <3>1
  <2>8. ASSUME NEW k \in 1..Len(G) PROVE G[k].op # "clear" /\ G[k].row < n + 1 /\ G[k].col < cols
    <3>1. CASE k <= Len(F)
      <4>1. k \in 1..Len(F)
        BY <2>4, <3>1
      <4>2. F[k].op # "clear" /\ F[k].row < n /\ F[k].col < cols
        BY <2>1, <4>1
      <4>3. F[k].row \in Nat
        <5>1. F[k] \in Items
          BY <2>1, <4>1, ElementOfSeq
        <5> QED BY <4>2, <5>1 DEF Items
      <4> QED BY <2>4, <4>1, <4>2, <4>3
    <3>2. CASE k > Len(F)
      <4>1. PICK l \in Nat : k = Len(F) + l
        <5>1. k - Len(F) \in Nat /\ k = Len(F) + (k - Len(F))
          BY <2>4, <3>2
        <5> QED BY <5>1
      <4>2. l \in 1..Len(R)
        BY <2>4, <3>2, <4>1
      <4>3. G[k] = R[l]
        BY <2>4, <4>1, <4>2
      <4>4. R[l].op # "clear" /\ R[l].row = n /\ R[l].col <= d /\ R[l].col \in Nat
        BY <2>14, <4>2
      <4> QED BY <4>3, <4>4 DEF d
    <3> QED BY <2>4, <3>1, <3>2
  <2>9. ASSUME NEW r \in 0..(n + 1 - 1), NEW c \in 0..(cols - 1)
        PROVE  \E k \in 1..Len(G) : G[k] = Draw(r, c)
    <3>1. CASE r < n
      <4>1. r \in 0..(n - 1)
        BY <3>1
      <4>2. PICK k \in 1..Len(F) : F[k] = Draw(r, c)
        BY <2>1, <4>1
      <4>3. k \in 1..Len(G) /\ G[k] = F[k]
        BY <2>4
      <4> QED BY <4>2, <4>3
    <3>2. CASE r = n
      <4>1. PICK k \in 1..Len(R) : R[k] = Draw(n, c)
        BY <2>14 DEF d
      <4>2. Len(F) + k \in 1..Len(G) /\ G[Len(F) + k] = R[k]
        BY <2>4
      <4> QED BY <3>2, <4>1, <4>2
    <3> QED BY <3>1, <3>2
  <2>10. Fills(G, n + 1, cols)
    BY <2>4, <2>5, <2>7, <2>8, <2>9 DEF Fills
  <2> QED BY <2>10 DEF G, T
<1> HIDE DEF T
<1>4. \A n \in Nat : 1 <= n => n \in T
  BY <1>2, <1>3, Onwards
<1> QED BY <1>4 DEF T

\* A drawing of everything clears the screen and then draws every cell of it.
LEMMA RedrawFacts ==
  ASSUME NEW z \in Size, NEW D, D = Redraw(z)
  PROVE  /\ D \in Seq(Items) /\ D # <<>> /\ Chained(D)
         /\ D[1].op = "clear" /\ D[1].size = z
         /\ \A k \in 2..Len(D) : D[k].op # "clear"
         /\ InSize(D, 1, z)
         /\ \A p \in Within(z) : Paints(D, 1, p)
<1> DEFINE a == <<[op |-> "clear", size |-> z]>>
           F == FlattenSeq(RunsOf(z[2], z[1]))
<1>1. z[1] \in Nat /\ z[2] \in Nat /\ z[1] > 0 /\ 1 <= z[2]
  <2>1. z[1] \in Nat \ {0} /\ z[2] \in Nat \ {0}
    BY WindowAssumption DEF Size
  <2> QED BY <2>1
<1>2. Fills(F, z[2], z[1])
  BY <1>1, RunsFill
<1>3. IsJoin(D, a, F)
  BY DEF Redraw, RunsOf, IsJoin
<1> HIDE DEF F
<1>4. a \in Seq(Items) /\ Len(a) = 1 /\ a[1].op = "clear" /\ a[1].size = z
  BY DEF Items
<1> HIDE DEF a
<1>5. F \in Seq(Items) /\ F # <<>> /\ F[1].op = "move" /\ Chained(F)
  BY <1>2 DEF Fills
<1>6. /\ D \in Seq(Items) /\ Len(F) \in Nat /\ Len(D) = 1 + Len(F)
      /\ D[1] = a[1]
      /\ \A k \in 1..Len(F) : D[1 + k] = F[k]
  <2>1. /\ D \in Seq(Items) /\ Len(F) \in Nat /\ Len(D) = Len(a) + Len(F)
        /\ \A k \in 1..Len(a) : D[k] = a[k]
        /\ \A k \in 1..Len(F) : D[Len(a) + k] = F[k]
    <3>1. a \in Seq(Items) /\ F \in Seq(Items)
      BY <1>4, <1>5
    <3> QED BY <1>3, <3>1, JoinFacts
  <2> QED BY <1>4, <2>1
<1>7. Chained(D)
  <2>1. Chained(a)
    BY <1>4 DEF Chained
  <2>2. F[1].op # "draw"
    BY <1>5
  <2> QED BY <1>3, <1>4, <1>5, <2>1, <2>2, ChainsJoin
<1>8. ASSUME NEW k \in 2..Len(D) PROVE D[k].op # "clear" /\ D[k].row < z[2] /\ D[k].col < z[1]
  <2>1. PICK l \in Nat : k = 1 + l
    <3>1. k - 1 \in Nat /\ k = 1 + (k - 1)
      OBVIOUS
    <3> QED BY <3>1
  <2>2. l \in 1..Len(F)
    BY <1>6, <2>1
  <2>3. D[k] = F[l]
    BY <1>6, <2>1, <2>2
  <2> QED BY <1>2, <2>2, <2>3 DEF Fills
<1>9. InSize(D, 1, z)
  <2>1. 1 + 1 = 2
    OBVIOUS
  <2> QED BY <1>8, <2>1 DEF InSize
<1>10. ASSUME NEW p \in Within(z) PROVE Paints(D, 1, p)
  <2>1. p[1] \in 0..(z[2] - 1) /\ p[2] \in 0..(z[1] - 1)
    BY DEF Within
  <2>2. PICK k \in 1..Len(F) : F[k] = Draw(p[1], p[2])
    BY <1>2, <2>1 DEF Fills
  <2>3. 1 + k \in (1 + 1)..Len(D) /\ D[1 + k] = F[k]
    BY <1>6
  <2>4. ClearFree(D, 1 + 1, 1 + k)
    <3>1. \A i \in (1 + 1)..(1 + k) : i \in 2..Len(D)
      BY <1>6
    <3> QED BY <1>8, <3>1 DEF ClearFree
  <2> QED BY <2>2, <2>3, <2>4 DEF Paints
<1>11. D # <<>>
  BY <1>6
<1> QED BY <1>4, <1>6, <1>7, <1>8, <1>9, <1>10, <1>11

\* Behind every clear on the wire all cells of its size are drawn, before the
\* next one, and the last one is for the size the program drew for.
Redrawings(w, size) ==
  \A i \in 1..Len(w) : w[i].op = "clear" =>
    /\ InSize(w, i, w[i].size)
    /\ \A p \in Within(w[i].size) : Paints(w, i, p)
    /\ ClearFree(w, i + 1, Len(w)) => size = w[i].size

\* Every cell shows its glyph or is still to be drawn, all that comes before the
\* next clear has its place on the screen, and a cell that comes first comes
\* where the cursor is.
BeingDrawn(s, w, size) ==
  LET z == <<s.cols, s.rows>> IN
    /\ InSize(w, 0, z)
    /\ \A p \in Within(z) : s.cells[p[1] + 1][p[2] + 1] = p \/ Paints(w, 0, p)
    /\ ClearFree(w, 1, Len(w)) => size = z
    /\ (w # <<>> /\ w[1].op = "draw") => s.row = w[1].row /\ s.col = w[1].col /\ ~ s.wrap

\* A program that talks draws nothing; a drawing that has been begun at the
\* screen's size goes on to its end.
PictureInv ==
  /\ wire \in Seq(Items)
  /\ program = "talks" => wire = <<>> /\ ~ complete
  /\ Chained(wire)
  /\ Redrawings(wire, drawnFor)
  /\ complete => BeingDrawn(screen, wire, drawnFor)

\* Of an empty wire everything holds and nothing is painted.
LEMMA NothingOnTheWire ==
  ASSUME NEW w, w = <<>>
  PROVE  /\ w \in Seq(Items) /\ Len(w) = 0 /\ Chained(w)
         /\ \A size : Redrawings(w, size)
         /\ \A p : ~ Paints(w, 0, p)
         /\ ClearFree(w, 1, Len(w))
<1>1. w \in Seq(Items) /\ Len(w) = 0
  OBVIOUS
<1>2. 1..0 = {} /\ 2..0 = {} /\ (0 + 1)..0 = {}
  OBVIOUS
<1> QED BY <1>1, <1>2 DEF Chained, Redrawings, Paints, ClearFree

\* A drawing for a new size goes out behind what is on the wire.
LEMMA RedrawGoesOut ==
  ASSUME NEW w \in Seq(Items), Chained(w), NEW old, Redrawings(w, old),
         NEW z \in Size, NEW D, D = Redraw(z), NEW v, IsJoin(v, w, D)
  PROVE  /\ v \in Seq(Items) /\ Chained(v) /\ Redrawings(v, z)
         /\ \A s : BeingDrawn(s, w, old) => BeingDrawn(s, v, z)
<1>1. /\ D \in Seq(Items) /\ D # <<>> /\ Chained(D)
      /\ D[1].op = "clear" /\ D[1].size = z
      /\ \A k \in 2..Len(D) : D[k].op # "clear"
      /\ InSize(D, 1, z)
      /\ \A p \in Within(z) : Paints(D, 1, p)
  BY RedrawFacts
<1>2. /\ v \in Seq(Items) /\ Len(w) \in Nat /\ Len(D) \in Nat /\ Len(v) = Len(w) + Len(D)
      /\ \A k \in 1..Len(w) : v[k] = w[k]
      /\ \A k \in 1..Len(D) : v[Len(w) + k] = D[k]
  BY <1>1, JoinFacts
<1>3. Chained(v)
  <2>1. D[1].op # "draw"
    BY <1>1
  <2> QED BY <1>1, <2>1, ChainsJoin
<1>4. Len(D) >= 1
  BY <1>1, NotEmpty
<1>5. ASSUME NEW i \in 0..Len(w)
      PROVE  /\ \A y : InSize(w, i, y) => InSize(v, i, y)
             /\ \A p : Paints(w, i, p) => Paints(v, i, p)
             /\ ~ ClearFree(v, i + 1, Len(v))
  BY <1>1, EarlierPlaces
<1>6. ASSUME NEW i \in 1..Len(v), v[i].op = "clear"
      PROVE  /\ InSize(v, i, v[i].size)
             /\ \A p \in Within(v[i].size) : Paints(v, i, p)
             /\ ClearFree(v, i + 1, Len(v)) => z = v[i].size
  <2>1. CASE i <= Len(w)
    <3>1. i \in 1..Len(w) /\ i \in 0..Len(w)
      BY <1>2, <2>1
    <3>2. v[i] = w[i]
      BY <1>2, <3>1
    <3>3. InSize(w, i, w[i].size) /\ \A p \in Within(w[i].size) : Paints(w, i, p)
      BY <1>6, <3>1, <3>2 DEF Redrawings
    <3> QED BY <1>5, <3>1, <3>2, <3>3
  <2>2. CASE i > Len(w)
    <3>1. PICK l \in Nat : i = Len(w) + l
      <4>1. i - Len(w) \in Nat /\ i = Len(w) + (i - Len(w))
        BY <1>2, <2>2
      <4> QED BY <4>1
    <3>2. l \in 1..Len(D)
      BY <1>2, <2>2, <3>1
    <3>3. v[i] = D[l]
      BY <1>2, <3>1, <3>2
    <3>4. l = 1
      <4>1. l \notin 2..Len(D)
        BY <1>1, <1>6, <3>3
      <4> QED BY <1>2, <3>2, <4>1
    <3>5. v[i].size = z
      BY <1>1, <3>3, <3>4
    <3>6. /\ \A y : InSize(D, 1, y) => InSize(v, i, y)
          /\ \A p : Paints(D, 1, p) => Paints(v, i, p)
      <4>1. D \in Seq(Items) /\ 1 \in 1..Len(D) /\ i \in Nat /\ i = Len(w) + 1
        BY <1>1, <1>2, <1>4, <3>1, <3>4
      <4> QED BY <4>1, NewPlaces
    <3> QED BY <1>1, <3>5, <3>6
  <2> QED BY <1>2, <2>1, <2>2
<1>7. Redrawings(v, z)
  BY <1>6 DEF Redrawings
<1>8. ASSUME NEW s, BeingDrawn(s, w, old) PROVE BeingDrawn(s, v, z)
  <2> DEFINE y == <<s.cols, s.rows>>
  <2>1. /\ InSize(w, 0, y)
        /\ \A p \in Within(y) : s.cells[p[1] + 1][p[2] + 1] = p \/ Paints(w, 0, p)
        /\ (w # <<>> /\ w[1].op = "draw") => s.row = w[1].row /\ s.col = w[1].col /\ ~ s.wrap
    BY <1>8 DEF BeingDrawn
  <2> HIDE DEF y
  <2>2. 0 \in 0..Len(w) /\ 0 + 1 = 1
    BY <1>2
  <2>3. /\ InSize(v, 0, y)
        /\ \A p \in Within(y) : s.cells[p[1] + 1][p[2] + 1] = p \/ Paints(v, 0, p)
        /\ ~ ClearFree(v, 1, Len(v))
    BY <1>5, <2>1, <2>2
  <2>4. ASSUME v[1].op = "draw" PROVE s.row = v[1].row /\ s.col = v[1].col /\ ~ s.wrap
    <3>1. CASE w = <<>>
      <4>1. Len(w) = 0 /\ 1 \in 1..Len(D) /\ Len(w) + 1 = 1
        BY <1>4, <1>2, <3>1
      <4>2. v[1] = D[1]
        BY <1>2, <4>1
      <4> QED BY <1>1, <2>4, <4>2
    <3>2. CASE w # <<>>
      <4>1. Len(w) >= 1
        BY <3>2, NotEmpty
      <4>2. v[1] = w[1]
        BY <1>2, <4>1
      <4> QED BY <2>1, <2>4, <3>2, <4>2
    <3> QED BY <3>1, <3>2
  <2> QED BY <2>3, <2>4 DEF BeingDrawn, y
<1> QED BY <1>2, <1>3, <1>7, <1>8

-----------------------------------------------------------------------------
\* Reading the head leaves the redrawings behind it.
LEMMA RedrawingsStay ==
  ASSUME NEW w \in Seq(Items), w # <<>>, NEW v, v = Tail(w), NEW size, Redrawings(w, size)
  PROVE  Redrawings(v, size)
<1>1. Len(v) \in Nat /\ Len(w) = Len(v) + 1 /\ \A k \in 1..Len(v) : v[k] = w[k + 1]
  BY TailFacts
<1>2. ASSUME NEW i \in 1..Len(v), v[i].op = "clear"
      PROVE  /\ InSize(v, i, v[i].size)
             /\ \A p \in Within(v[i].size) : Paints(v, i, p)
             /\ ClearFree(v, i + 1, Len(v)) => size = v[i].size
  <2>1. PICK n \in Nat : n = i + 1
    OBVIOUS
  <2>2. i \in Nat /\ n <= Len(w) /\ n \in 1..Len(w) /\ v[i] = w[n]
    BY <1>1, <2>1
  <2>3. /\ \A z : InSize(w, n, z) => InSize(v, i, z)
        /\ \A p : Paints(w, n, p) => Paints(v, i, p)
        /\ ClearFree(v, n, Len(v)) => ClearFree(w, n + 1, Len(w))
    BY <2>1, <2>2, LaterPlaces
  <2>4. /\ InSize(w, n, w[n].size)
        /\ \A p \in Within(w[n].size) : Paints(w, n, p)
        /\ ClearFree(w, n + 1, Len(w)) => size = w[n].size
    BY <1>2, <2>2 DEF Redrawings
  <2> QED BY <2>1, <2>2, <2>3, <2>4
<1> QED BY <1>2 DEF Redrawings

\* Reading a clear that was made for the screen's size begins a drawing.
LEMMA ClearBegins ==
  ASSUME NEW w \in Seq(Items), w # <<>>, NEW v, v = Tail(w), NEW size, Redrawings(w, size),
         Chained(w), w[1].op = "clear", NEW s, w[1].size = <<s.cols, s.rows>>
  PROVE  BeingDrawn(s, v, size)
<1> DEFINE z == <<s.cols, s.rows>>
<1>1. v \in Seq(Items) /\ Len(v) \in Nat /\ Len(w) = Len(v) + 1 /\ \A k \in 1..Len(v) : v[k] = w[k + 1]
  BY TailFacts
<1>2. PICK n \in Nat : n = 0 + 1
  OBVIOUS
<1>3. n = 1 /\ n <= Len(w) /\ 1 \in 1..Len(w) /\ 0 \in Nat
  BY <1>1, <1>2
<1>4. /\ \A y : InSize(w, n, y) => InSize(v, 0, y)
      /\ \A p : Paints(w, n, p) => Paints(v, 0, p)
      /\ ClearFree(v, n, Len(v)) => ClearFree(w, n + 1, Len(w))
  BY <1>2, <1>3, LaterPlaces
<1>5. w[1].size = z
  OBVIOUS
<1> HIDE DEF z
<1>6. /\ InSize(w, 1, z)
      /\ \A p \in Within(z) : Paints(w, 1, p)
      /\ ClearFree(w, 1 + 1, Len(w)) => size = z
  BY <1>3, <1>5 DEF Redrawings
<1>7. ASSUME v # <<>>, v[1].op = "draw" PROVE FALSE
  <2>1. Len(v) >= 1
    BY <1>1, <1>7, NotEmpty
  <2>2. 1 \in 1..Len(v) /\ 2 \in 2..Len(w) /\ 1 + 1 = 2 /\ 2 - 1 = 1
    BY <1>1, <2>1
  <2>3. v[1] = w[2]
    BY <1>1, <2>2
  <2>4. Leads(w[1], w[2])
    BY <1>7, <2>2, <2>3 DEF Chained
  <2> QED BY <2>4 DEF Leads
<1>8. /\ InSize(v, 0, z)
      /\ \A p \in Within(z) : Paints(v, 0, p)
      /\ ClearFree(v, 1, Len(v)) => size = z
  BY <1>3, <1>4, <1>6
<1> QED BY <1>7, <1>8 DEF BeingDrawn, z

\* Where the head is and what comes after it, while a drawing goes on.
LEMMA HeadHasItsPlace ==
  ASSUME NEW w \in Seq(Items), w # <<>>, NEW v, v = Tail(w), Chained(w), w[1].op # "clear",
         NEW z, InSize(w, 0, z)
  PROVE  /\ InSize(v, 0, z)
         /\ w[1].row < z[2] /\ w[1].col < z[1]
         /\ (v # <<>> /\ v[1].op = "draw") => Leads(w[1], v[1]) /\ v[1].col < z[1]
<1>1. v \in Seq(Items) /\ Len(v) \in Nat /\ Len(w) = Len(v) + 1 /\ \A k \in 1..Len(v) : v[k] = w[k + 1]
  BY TailFacts
<1>2. InSize(v, 0, z)
  BY RestOfDrawing
<1>3. w[1].row < z[2] /\ w[1].col < z[1]
  <2>1. 1 \in (0 + 1)..Len(w) /\ \A k \in (0 + 1)..1 : k = 1
    BY <1>1
  <2>2. ClearFree(w, 0 + 1, 1)
    BY <2>1 DEF ClearFree
  <2> QED BY <2>1, <2>2 DEF InSize
<1>4. ASSUME v # <<>>, v[1].op = "draw" PROVE Leads(w[1], v[1]) /\ v[1].col < z[1]
  <2>1. Len(v) >= 1
    BY <1>1, <1>4, NotEmpty
  <2>2. 1 \in 1..Len(v) /\ 2 \in 2..Len(w) /\ 1 + 1 = 2 /\ 2 - 1 = 1
    BY <1>1, <2>1
  <2>3. v[1] = w[2]
    BY <1>1, <2>2
  <2>4. Leads(w[1], w[2])
    BY <1>4, <2>2, <2>3 DEF Chained
  <2>5. 1 \in (0 + 1)..Len(v) /\ \A k \in (0 + 1)..1 : k = 1
    BY <1>1, <2>1
  <2>6. ClearFree(v, 0 + 1, 1)
    BY <1>4, <2>5 DEF ClearFree
  <2>7. v[1].col < z[1]
    BY <1>2, <2>5, <2>6 DEF InSize
  <2> QED BY <2>3, <2>4, <2>7
<1> QED BY <1>2, <1>3, <1>4

\* A cursor that is sent to a cell of the screen is there.
LEMMA CursorToFacts ==
  ASSUME NEW s, Shaped(s), NEW r \in Nat, NEW c \in Nat, r < s.rows, c < s.cols,
         NEW t, t = CursorTo(s, r + 1, c + 1)
  PROVE  NowAt(t, s, r, c, FALSE) /\ SameCellsAs(t, s)
<1>1. PICK grids : s \in Screens(grids)
  BY DEF Shaped
<1>2. Less(r + 1, 1) = r /\ Less(c + 1, 1) = c
  BY DEF Less
<1>3. Least(r, s.rows - 1) = r /\ Least(c, s.cols - 1) = c
  <2>1. s.rows \in Nat /\ s.cols \in Nat
    BY Fields
  <2> QED BY <2>1 DEF Least
<1>4. t = [s EXCEPT !.row = r, !.col = c, !.wrap = FALSE]
  BY <1>2, <1>3 DEF CursorTo
<1>5. NowAt(t, s, r, c, FALSE) /\ t.cells = s.cells
  BY <1>1, <1>4 DEF Screens, NowAt
<1> QED BY <1>5 DEF SameCellsAs

\* Erasing leaves the size.
LEMMA ErasedFields ==
  ASSUME NEW s, Shaped(s), NEW t, t = EraseDisplay(s, 2)
  PROVE  t.cols = s.cols /\ t.rows = s.rows
<1>1. PICK grids : s \in Screens(grids)
  BY DEF Shaped
<1>2. PICK places : t = Erase(s, places)
  BY DEF EraseDisplay
<1> QED BY <1>1, <1>2 DEF Erase, Screens

\* A cell of the screen in rows and columns from 1.
LEMMA CellOfPlace ==
  ASSUME NEW s, Shaped(s), NEW p \in Within(<<s.cols, s.rows>>)
  PROVE  /\ p[1] \in Nat /\ p[2] \in Nat /\ p = <<p[1], p[2]>>
         /\ p[1] + 1 \in 1..s.rows /\ p[2] + 1 \in 1..s.cols
<1>1. s.cols \in Nat /\ s.rows \in Nat
  BY Fields
<1>2. p \in (0..(s.rows - 1)) \X (0..(s.cols - 1))
  BY DEF Within
<1> QED BY <1>1, <1>2

\* A cell is a row and a column.
LEMMA PlaceIsPair ==
  ASSUME NEW p \in Place
  PROVE  p[1] \in Nat /\ p[2] \in Nat /\ p = <<p[1], p[2]>>
<1>1. PICK z \in Size : p \in (0..(z[2] - 1)) \X (0..(z[1] - 1))
  BY DEF Place
<1> QED BY <1>1

-----------------------------------------------------------------------------
\* A movement of the cursor comes before what is drawn there.
LEMMA MoveGoesOn ==
  ASSUME NEW w \in Seq(Items), w # <<>>, NEW v, v = Tail(w), Chained(w),
         NEW s, Shaped(s), NEW size, BeingDrawn(s, w, size),
         NEW p \in Place, w[1] = Move(p[1], p[2]), NEW t, t = CursorTo(s, p[1] + 1, p[2] + 1)
  PROVE  BeingDrawn(t, v, size)
<1> DEFINE z == <<s.cols, s.rows>>
<1>1. /\ InSize(w, 0, z)
      /\ \A q \in Within(z) : s.cells[q[1] + 1][q[2] + 1] = q \/ Paints(w, 0, q)
      /\ ClearFree(w, 1, Len(w)) => size = z
  BY DEF BeingDrawn
<1>2. w[1].op = "move" /\ w[1].row = p[1] /\ w[1].col = p[2]
  BY DEF Move
<1>3. z[1] = s.cols /\ z[2] = s.rows
  OBVIOUS
<1>4. \A q \in Within(z) : q[1] + 1 \in 1..s.rows /\ q[2] + 1 \in 1..s.cols
  BY CellOfPlace
<1> HIDE DEF z
<1>5. /\ InSize(v, 0, z) /\ p[1] < s.rows /\ p[2] < s.cols
      /\ (v # <<>> /\ v[1].op = "draw") => Leads(w[1], v[1])
  <2>1. w[1].op # "clear"
    BY <1>2
  <2>2. /\ InSize(v, 0, z) /\ w[1].row < z[2] /\ w[1].col < z[1]
        /\ (v # <<>> /\ v[1].op = "draw") => Leads(w[1], v[1])
    BY <1>1, <2>1, HeadHasItsPlace
  <2> QED BY <1>2, <1>3, <2>2
<1>6. NowAt(t, s, p[1], p[2], FALSE) /\ SameCellsAs(t, s)
  <2>1. p[1] \in Nat /\ p[2] \in Nat
    BY PlaceIsPair
  <2> QED BY <1>5, <2>1, CursorToFacts
<1>7. /\ \A q : Paints(w, 0, q) => Paints(v, 0, q)
      /\ ClearFree(v, 1, Len(v)) => ClearFree(w, 1, Len(w))
  <2>1. w[1].op # "clear" /\ \A a, b : w[1] # Draw(a, b)
    BY <1>2 DEF Draw
  <2>2. /\ \A q : Paints(w, 0, q) => Paints(v, 0, q) \/ w[1] = Draw(q[1], q[2])
        /\ ClearFree(v, 1, Len(v)) => ClearFree(w, 1, Len(w))
    BY <2>1, RestOfDrawing
  <2> QED BY <2>1, <2>2
<1>8. ASSUME NEW q \in Within(z) PROVE t.cells[q[1] + 1][q[2] + 1] = q \/ Paints(v, 0, q)
  <2>1. t.cells[q[1] + 1][q[2] + 1] = s.cells[q[1] + 1][q[2] + 1]
    BY <1>4, <1>6 DEF SameCellsAs
  <2> QED BY <1>1, <1>7, <2>1
<1>9. ASSUME v # <<>>, v[1].op = "draw" PROVE t.row = v[1].row /\ t.col = v[1].col /\ ~ t.wrap
  BY <1>2, <1>5, <1>6, <1>9 DEF Leads, NowAt
<1>10. <<t.cols, t.rows>> = z
  BY <1>6 DEF NowAt, z
<1> QED BY <1>1, <1>5, <1>7, <1>8, <1>9, <1>10 DEF BeingDrawn

\* A glyph comes where the cursor is, and leaves it where the next one comes;
\* none of one row comes behind its last.
LEMMA DrawGoesOn ==
  ASSUME NEW w \in Seq(Items), w # <<>>, NEW v, v = Tail(w), Chained(w),
         NEW s, Shaped(s), NEW size, BeingDrawn(s, w, size),
         NEW p \in Place, w[1] = Draw(p[1], p[2]), NEW t, t = PutChar(s, p)
  PROVE  BeingDrawn(t, v, size)
<1> DEFINE z == <<s.cols, s.rows>>
<1>1. /\ InSize(w, 0, z)
      /\ \A q \in Within(z) : s.cells[q[1] + 1][q[2] + 1] = q \/ Paints(w, 0, q)
      /\ ClearFree(w, 1, Len(w)) => size = z
      /\ (w # <<>> /\ w[1].op = "draw") => s.row = w[1].row /\ s.col = w[1].col /\ ~ s.wrap
  BY DEF BeingDrawn
<1>2. w[1].op = "draw" /\ w[1].row = p[1] /\ w[1].col = p[2]
  BY DEF Draw
<1>3. z[1] = s.cols /\ z[2] = s.rows
  OBVIOUS
<1>4. \A q \in Within(z) : /\ q[1] \in Nat /\ q[2] \in Nat /\ q = <<q[1], q[2]>>
                           /\ q[1] + 1 \in 1..s.rows /\ q[2] + 1 \in 1..s.cols
  BY CellOfPlace
<1>5. p[1] \in Nat /\ p[2] \in Nat /\ p = <<p[1], p[2]>>
  BY PlaceIsPair
<1> HIDE DEF z
<1>6. s.row = p[1] /\ s.col = p[2] /\ ~ s.wrap
  BY <1>1, <1>2
<1>7. /\ InSize(v, 0, z)
      /\ (v # <<>> /\ v[1].op = "draw") => Leads(w[1], v[1]) /\ v[1].col < s.cols
  <2>1. w[1].op # "clear"
    BY <1>2
  <2>2. /\ InSize(v, 0, z)
        /\ (v # <<>> /\ v[1].op = "draw") => Leads(w[1], v[1]) /\ v[1].col < z[1]
    BY <1>1, <2>1, HeadHasItsPlace
  <2> QED BY <1>3, <2>2
<1>8. /\ Puts(t, s, p)
      /\ s.col + 1 >= s.cols => NowAt(t, s, s.row, s.col, TRUE)
      /\ s.col + 1 < s.cols => NowAt(t, s, s.row, s.col + 1, FALSE)
  BY <1>6, PutFacts
<1>9. /\ \A q : Paints(w, 0, q) => Paints(v, 0, q) \/ w[1] = Draw(q[1], q[2])
      /\ ClearFree(v, 1, Len(v)) => ClearFree(w, 1, Len(w))
  <2>1. w[1].op # "clear"
    BY <1>2
  <2> QED BY <2>1, RestOfDrawing
<1>10. ASSUME NEW q \in Within(z) PROVE t.cells[q[1] + 1][q[2] + 1] = q \/ Paints(v, 0, q)
  <2>1. t.cells[q[1] + 1][q[2] + 1] =
          IF q[1] + 1 = s.row + 1 /\ q[2] + 1 = s.col + 1 THEN p ELSE s.cells[q[1] + 1][q[2] + 1]
    BY <1>4, <1>8 DEF Puts
  <2>2. CASE q = p
    <3>1. q[1] + 1 = s.row + 1 /\ q[2] + 1 = s.col + 1
      BY <1>6, <2>2
    <3> QED BY <2>1, <2>2, <3>1
  <2>3. CASE q # p
    <3>1. ~ (q[1] = p[1] /\ q[2] = p[2])
      BY <1>4, <1>5, <2>3
    <3>2. ~ (q[1] + 1 = s.row + 1 /\ q[2] + 1 = s.col + 1)
      <4>1. q[1] \in Nat /\ q[2] \in Nat
        BY <1>4
      <4> QED BY <1>5, <1>6, <3>1, <4>1
    <3>3. t.cells[q[1] + 1][q[2] + 1] = s.cells[q[1] + 1][q[2] + 1]
      BY <2>1, <3>2
    <3>4. w[1] # Draw(q[1], q[2])
      <4>1. Draw(q[1], q[2]).row = q[1] /\ Draw(q[1], q[2]).col = q[2]
        BY DEF Draw
      <4> QED BY <1>2, <3>1, <4>1
    <3> QED BY <1>1, <1>9, <3>3, <3>4
  <2> QED BY <2>2, <2>3
<1>11. ASSUME v # <<>>, v[1].op = "draw" PROVE t.row = v[1].row /\ t.col = v[1].col /\ ~ t.wrap
  <2>1. v[1].row = p[1] /\ v[1].col = p[2] + 1 /\ p[2] + 1 < s.cols
    BY <1>2, <1>7, <1>11 DEF Leads
  <2>2. NowAt(t, s, s.row, s.col + 1, FALSE)
    BY <1>6, <1>8, <2>1
  <2> QED BY <1>6, <2>1, <2>2 DEF NowAt
<1>12. <<t.cols, t.rows>> = z
  <2>1. s.col + 1 >= s.cols \/ s.col + 1 < s.cols
    BY Fields
  <2>2. t.cols = s.cols /\ t.rows = s.rows
    BY <1>8, <2>1 DEF NowAt
  <2> QED BY <2>2 DEF z
<1> QED BY <1>1, <1>7, <1>9, <1>10, <1>11, <1>12 DEF BeingDrawn

\* At first nothing is on the wire.
LEMMA InitIsPicture == WindowInit => PictureInv
<1> SUFFICES ASSUME WindowInit PROVE PictureInv
  OBVIOUS
<1>1. wire = <<>> /\ complete = FALSE
  BY DEF WindowInit
<1>2. wire \in Seq(Items) /\ Chained(wire) /\ Redrawings(wire, drawnFor)
  BY <1>1, NothingOnTheWire
<1> QED BY <1>1, <1>2 DEF PictureInv

\* A part of what is on the screen is drawn again.
LEMMA RunGoesOut ==
  ASSUME NEW s, Shaped(s), NEW w, w = <<>>, NEW z \in Size, BeingDrawn(s, w, z),
         NEW r \in 0..(z[2] - 1), NEW c \in 0..(z[1] - 1), NEW d \in 0..(z[1] - 1), c <= d,
         NEW v, IsRun(v, r, c, d)
  PROVE  BeingDrawn(s, v, z)
<1> DEFINE y == <<s.cols, s.rows>>
<1>1. /\ \A p \in Within(y) : s.cells[p[1] + 1][p[2] + 1] = p \/ Paints(w, 0, p)
      /\ ClearFree(w, 1, Len(w)) => z = y
  BY DEF BeingDrawn
<1> HIDE DEF y
<1>2. z = y /\ \A p \in Within(y) : s.cells[p[1] + 1][p[2] + 1] = p
  BY <1>1, NothingOnTheWire
<1>3. z[1] \in Nat /\ z[2] \in Nat /\ z[1] > 0 /\ z[2] > 0
  <2>1. z[1] \in Nat \ {0} /\ z[2] \in Nat \ {0}
    BY WindowAssumption DEF Size
  <2> QED BY <2>1
<1>4. r \in Nat /\ c \in Nat /\ d \in Nat /\ r < z[2] /\ d < z[1]
  BY <1>3
<1>5. DrawsRun(v, r, c, d)
  BY <1>4, RunFacts
<1>6. /\ v # <<>> /\ v[1].op = "move"
      /\ \A k \in 1..Len(v) : v[k].row = r /\ v[k].col <= d /\ v[k].col \in Nat
  BY <1>5 DEF DrawsRun
<1>7. InSize(v, 0, y)
  <2>1. \A k \in (0 + 1)..Len(v) : v[k].row < z[2] /\ v[k].col < z[1]
    BY <1>3, <1>4, <1>6
  <2> QED BY <1>2, <2>1 DEF InSize
<1>8. v[1].op # "draw"
  BY <1>6
<1> QED BY <1>2, <1>7, <1>8 DEF BeingDrawn, y

\* It clears nothing.
LEMMA RunKeepsOrder ==
  ASSUME NEW z \in Size,
         NEW r \in 0..(z[2] - 1), NEW c \in 0..(z[1] - 1), NEW d \in 0..(z[1] - 1), c <= d,
         NEW v, IsRun(v, r, c, d)
  PROVE  v \in Seq(Items) /\ Chained(v) /\ \A size : Redrawings(v, size)
<1>1. z[1] \in Nat /\ z[2] \in Nat
  BY WindowAssumption DEF Size
<1>2. r \in Nat /\ c \in Nat /\ d \in Nat
  BY <1>1
<1>3. DrawsRun(v, r, c, d)
  BY <1>2, RunFacts
<1> QED BY <1>3 DEF DrawsRun, Redrawings

\* What the reader does with the head of the wire.
LEMMA ReadingKeepsPicture ==
  ASSUME PictureInv, WindowInv, ReadClear \/ ReadMove \/ ReadDraw
  PROVE  PictureInv'
<1>1. /\ wire # <<>> /\ wire' = Tail(wire)
      /\ program' = program /\ drawnFor' = drawnFor
  BY DEF ReadClear, ReadMove, ReadDraw, Receives
<1>2. /\ wire \in Seq(Items) /\ Chained(wire) /\ Redrawings(wire, drawnFor)
      /\ program # "talks"
      /\ complete => BeingDrawn(screen, wire, drawnFor)
  BY <1>1 DEF PictureInv
<1>3. Shaped(screen)
  BY DEF WindowInv
<1>4. wire' \in Seq(Items) /\ Chained(wire') /\ Redrawings(wire', drawnFor)
  BY <1>1, <1>2, TailFacts, ChainGoesOn, RedrawingsStay
<1>5. Head(wire) = wire[1]
  BY <1>1, <1>2, HeadTailProperties
<1>6. ASSUME complete' PROVE BeingDrawn(screen', wire', drawnFor)
  <2>1. CASE ReadClear
    <3>1. PICK z \in Size : /\ Receives([op |-> "clear", size |-> z])
                            /\ screen' = EraseDisplay(screen, 2)
                            /\ complete' = (z = ScreenSize)
      BY <2>1 DEF ReadClear
    <3>2. wire[1].op = "clear" /\ wire[1].size = z
      BY <1>5, <3>1 DEF Receives
    <3>3. screen'.cols = screen.cols /\ screen'.rows = screen.rows
      BY <1>3, <3>1, ErasedFields
    <3>4. wire[1].size = <<screen'.cols, screen'.rows>>
      BY <1>6, <3>1, <3>2, <3>3 DEF ScreenSize
    <3> QED BY <1>1, <1>2, <3>2, <3>4, ClearBegins
  <2>2. CASE ReadMove
    <3>1. PICK p \in Place : /\ Receives(Move(p[1], p[2]))
                             /\ screen' = CursorTo(screen, p[1] + 1, p[2] + 1)
                             /\ complete' = complete
      BY <2>2 DEF ReadMove
    <3>2. wire[1] = Move(p[1], p[2])
      BY <1>5, <3>1 DEF Receives
    <3>3. BeingDrawn(screen, wire, drawnFor)
      BY <1>2, <1>6, <3>1
    <3> QED BY <1>1, <1>2, <1>3, <3>1, <3>2, <3>3, MoveGoesOn
  <2>3. CASE ReadDraw
    <3>1. PICK p \in Place : /\ Receives(Draw(p[1], p[2]))
                             /\ screen' = PutChar(screen, p)
                             /\ complete' = complete
      BY <2>3 DEF ReadDraw
    <3>2. wire[1] = Draw(p[1], p[2])
      BY <1>5, <3>1 DEF Receives
    <3>3. BeingDrawn(screen, wire, drawnFor)
      BY <1>2, <1>6, <3>1
    <3> QED BY <1>1, <1>2, <1>3, <3>1, <3>2, <3>3, DrawGoesOn
  <2> QED BY <2>1, <2>2, <2>3
<1> QED BY <1>1, <1>2, <1>4, <1>6 DEF PictureInv

\* A redrawing goes out whole, a resize of the screen ends the drawing that was made
\* for the old size, and reading carries one on cell by cell.
LEMMA StepKeepsPicture == WindowInv /\ PictureInv /\ [WindowNext]_windowVars => PictureInv'
<1> SUFFICES ASSUME WindowInv, PictureInv, [WindowNext]_windowVars PROVE PictureInv'
  OBVIOUS
<1>0. /\ wire \in Seq(Items)
      /\ program = "talks" => wire = <<>> /\ ~ complete
      /\ Chained(wire) /\ Redrawings(wire, drawnFor)
      /\ complete => BeingDrawn(screen, wire, drawnFor)
      /\ termSize \in Size /\ Shaped(screen)
  BY DEF PictureInv, WindowInv
<1>1. ASSUME NEW z \in Size, ResizeTerminal(z) PROVE PictureInv'
  BY <1>0, <1>1 DEF ResizeTerminal, PictureInv
<1>2. CASE ResizeScreen
  BY <1>0, <1>2 DEF ResizeScreen, PictureInv
<1>3. CASE DrawAll
  <2>1. /\ program = "draws" /\ program' = program /\ drawnFor' = termSize
        /\ screen' = screen /\ complete' = complete
        /\ IsJoin(wire', wire, Redraw(termSize))
    BY <1>3 DEF DrawAll, IsJoin
  <2>2. /\ wire' \in Seq(Items) /\ Chained(wire') /\ Redrawings(wire', termSize)
        /\ \A s : BeingDrawn(s, wire, drawnFor) => BeingDrawn(s, wire', termSize)
    BY <1>0, <2>1, RedrawGoesOut
  <2> QED BY <1>0, <2>1, <2>2 DEF PictureInv
<1>4. CASE DrawSome
  <2>1. /\ program = "draws" /\ program' = program
        /\ drawnFor = termSize /\ drawnFor' = drawnFor
        /\ wire = <<>> /\ screen' = screen /\ complete' = complete
    BY <1>4 DEF DrawSome
  <2>2. PICK r \in 0..(termSize[2] - 1), c \in 0..(termSize[1] - 1), d \in 0..(termSize[1] - 1) :
          c <= d /\ IsRun(wire', r, c, d)
    BY <1>4 DEF DrawSome, IsRun
  <2>3. wire' \in Seq(Items) /\ Chained(wire') /\ Redrawings(wire', drawnFor)
    BY <1>0, <2>2, RunKeepsOrder
  <2>4. ASSUME complete PROVE BeingDrawn(screen, wire', drawnFor)
    <3>1. BeingDrawn(screen, wire, termSize)
      BY <1>0, <2>1, <2>4
    <3>2. BeingDrawn(screen, wire', termSize)
      BY <1>0, <2>1, <2>2, <3>1, RunGoesOut
    <3> QED BY <2>1, <3>2
  <2> QED BY <2>1, <2>3, <2>4 DEF PictureInv
<1>5. CASE ProgramEnds \/ ReadEnd \/ UNCHANGED windowVars
  BY <1>0, <1>5 DEF ProgramEnds, ReadEnd, windowVars, PictureInv
<1>6. CASE ReadClear \/ ReadMove \/ ReadDraw
  BY <1>6, ReadingKeepsPicture
<1>7. CASE WriteText \/ WriteSequence
  <2>1. /\ program = "talks" /\ program' = program /\ wire' = wire
        /\ drawnFor' = drawnFor /\ complete' = complete
    BY <1>7 DEF WriteText, WriteSequence, Writes
  <2> QED BY <1>0, <2>1 DEF PictureInv
<1> QED BY <1>1, <1>2, <1>3, <1>4, <1>5, <1>6, <1>7 DEF WindowNext

\* Nothing is on the way and all of it has been drawn.
LEMMA PictureCells ==
  ASSUME NEW s, Shaped(s), NEW w, w = <<>>, NEW size, BeingDrawn(s, w, size)
  PROVE  s.cells = [r \in 1..s.rows |-> [c \in 1..s.cols |-> <<r - 1, c - 1>>]]
<1> DEFINE grid == [r \in 1..s.rows |-> [c \in 1..s.cols |-> <<r - 1, c - 1>>]]
           z == <<s.cols, s.rows>>
<1>1. \A p \in Within(z) : s.cells[p[1] + 1][p[2] + 1] = p \/ Paints(w, 0, p)
  BY DEF BeingDrawn
<1>2. ASSUME NEW r \in 1..s.rows, NEW c \in 1..s.cols PROVE s.cells[r][c] = grid[r][c]
  <2>1. s.rows \in Nat /\ s.cols \in Nat
    BY Fields
  <2>2. PICK p : p = <<r - 1, c - 1>>
    OBVIOUS
  <2>3. p \in Within(z) /\ p[1] + 1 = r /\ p[2] + 1 = c
    <3>1. r - 1 \in 0..(s.rows - 1) /\ c - 1 \in 0..(s.cols - 1)
      BY <2>1
    <3> QED BY <2>1, <2>2, <3>1 DEF Within
  <2> HIDE DEF grid, z
  <2>4. s.cells[r][c] = p
    BY <1>1, <2>3, NothingOnTheWire
  <2> QED BY <2>2, <2>4 DEF grid
<1>3. IsGrid(grid, s.cols, s.rows)
  BY DEF IsGrid
<1> HIDE DEF grid
<1>4. s.cells = grid
  <2>1. \A r \in 1..s.rows, c \in 1..s.cols : s.cells[r][c] = grid[r][c]
    BY <1>2
  <2> QED BY <1>3, <2>1, CellsMakeGrid
<1> QED BY <1>4 DEF grid

\* The two parts of DrawnIsShown follow from one invariant each.
LEMMA InvariantsShow == WindowInv /\ TextInv /\ PictureInv => DrawnIsShown
<1> SUFFICES ASSUME WindowInv, TextInv, PictureInv PROVE DrawnIsShown
  OBVIOUS
<1>1. Shaped(screen)
  BY DEF WindowInv
<1>2. ASSUME IsText
      PROVE  LET shown == LastRows(Paper(typed, screen.cols), screen.rows)
             IN screen.cells = [r \in 1..screen.rows |-> [c \in 1..screen.cols |->
                                  IF c <= shown[r] THEN Ink ELSE Blank]]
  <2>1. TextIsShown(screen, typed)
    BY <1>2 DEF TextInv, IsText
  <2> QED BY <1>1, <2>1, TextCells
<1>3. ASSUME complete, wire = <<>>
      PROVE  screen.cells = [r \in 1..screen.rows |-> [c \in 1..screen.cols |-> <<r - 1, c - 1>>]]
  <2>1. BeingDrawn(screen, wire, drawnFor)
    BY <1>3 DEF PictureInv
  <2> QED BY <1>1, <1>3, <2>1, PictureCells
<1> QED BY <1>2, <1>3 DEF DrawnIsShown

\* The window shows what was written to it, for every set of window sizes and
\* every moment of a resize: text as the last rows of its lines, each broken
\* where the window ends, and a drawing made for the window's size in every cell.
THEOREM WindowShowsWhatIsDrawn == WindowSpec => []DrawnIsShown
<1>1. WindowInit => WindowInv /\ TextInv /\ PictureInv
  BY InitIsShaped, InitShowsText, InitIsPicture
<1>2. WindowInv /\ TextInv /\ PictureInv /\ [WindowNext]_windowVars
        => WindowInv' /\ TextInv' /\ PictureInv'
  BY StepIsShaped, StepShowsText, StepKeepsPicture
<1> QED BY <1>1, <1>2, InvariantsShow, PTL DEF WindowSpec

-----------------------------------------------------------------------------
(***************************************************************************)
(* The steps of a run.  Every unread line says what the run was at when it *)
(* was printed (Printed), each can only be followed by some (Follows), and *)
(* the reader is in step with whatever comes next (Ready): with a line, or *)
(* with the trainer itself once all is read.  So a line the trainer prints *)
(* keeps the first two, and a line that is read carries the third on to    *)
(* the next one.                                                           *)
(***************************************************************************)
\* The bar's total when it counts from position c.
SpanFrom(c) == IF style = "whole" \/ End - c < ChunkLen THEN End - c ELSE ChunkLen

\* Positions at which a chunk of ChunkLen steps ends.
Marks(n) == n % ChunkLen = 0

\* What the trainer can have said: every number a line carries is tied to the
\* position it was printed at.
Printed(l) ==
  /\ l.kind \in LineKind /\ l.n \in Nat /\ l.m \in Nat /\ l.pos \in 0..End
  /\ l.kind = "header" => style \in Headed /\ l.n = End - l.pos /\ l.m = l.pos /\ l.pos < End /\ Marks(l.pos)
  /\ l.kind = "resume" => style \in Headed /\ l.n = l.pos /\ l.m = End /\ 0 < l.pos /\ Marks(l.pos)
  /\ l.kind = "max" => style \in {"counted", "lines"} /\ l.n = End /\ l.pos = 0
  /\ l.kind = "frame" => /\ style # "lines" /\ l.n <= l.pos /\ l.n \in 1..l.m
                         /\ l.m = SpanFrom(l.pos - l.n)
                         /\ IF style = "whole" THEN l.n = l.pos ELSE Marks(l.pos - l.n)
  /\ l.kind = "step" => /\ style \notin {"whole", "blind"} /\ l.n = l.pos
                        /\ style # "lines" => Marks(l.pos) \/ l.pos = End
  /\ l.kind = "timed" => style = "timed" /\ l.n = l.pos /\ 0 < l.pos
  /\ l.kind = "time" => style = "whole"

\* The place behind the last line printed, in the form of a line: what the
\* trainer is about to do and where it stands.
Here == [kind |-> phase, n |-> pos - chunk, m |-> Span, pos |-> pos]

\* Chunks are counted from checkpoints, and the bar is full at the next one.
TrainerIsOrderly ==
  /\ chunk <= pos /\ pos - chunk <= Span
  /\ launches = 0 => phase = "off" /\ saved = 0
  /\ phase = "resume" => pos = chunk /\ 0 < pos /\ pos < End /\ style \in Headed
  /\ phase = "train" => pos - chunk < Span
  /\ phase = "boundary" => pos - chunk = Span /\ chunk < pos
  /\ IF style = "whole" THEN chunk = 0
     ELSE (chunk = End \/ Marks(chunk)) /\ (saved = End \/ Marks(saved))

\* x is the first thing that can come of a run standing at position q.
Begins(q, x) ==
  \/ x.kind = "frame" /\ x.n = 1 /\ x.pos = q + 1
  \/ x.kind = "timed" /\ x.pos = q + 1
  \/ x.kind = "step" /\ x.pos = q + 1 /\ style = "lines"
  \/ x.kind = "train" /\ x.n = 0 /\ x.pos = q

\* The styles with a bar per chunk that may skip frames.
Bars == {"harness", "counted", "blind"}

SameBar(l, x) == x.pos - x.n = l.pos - l.n

\* x can come behind line l of the same process, which prints steps.
Continues(l, x) ==
  \/ x.kind = "done"
  \/ style = "lines" /\ x.kind = "step" /\ x.pos = l.pos + 1
  \/ style = "lines" /\ x.kind \in {"train", "boundary"} /\ x.pos = l.pos
  \/ style = "whole" /\ x.kind \in {"frame", "train", "boundary"}
  \/ style = "whole" /\ l.kind = "frame" /\ x.kind = "time" /\ x.pos = l.pos
  \/ style = "timed" /\ x.kind \in {"train", "boundary", "step"} /\ x.pos = l.pos
  \/ style = "timed" /\ x.kind \in {"timed", "frame"} /\ x.pos = l.pos + 1
  \/ style = "timed" /\ l.kind # "step" /\ x.kind \in {"timed", "frame"} \ {l.kind} /\ x.pos = l.pos
  \/ style \in Bars /\ l.kind = "step" /\ Begins(l.pos, x)
  \/ /\ style \in Bars /\ l.kind = "frame"
     /\ \/ x.kind = "frame" /\ SameBar(l, x) /\ l.n < x.n
        \/ x.kind = "train" /\ SameBar(l, x) /\ l.n <= x.n
        \/ x.kind = "boundary" /\ SameBar(l, x) /\ l.n = x.n
        \/ l.n = l.m /\ Begins(l.pos, x)
        \/ l.n = l.m /\ x.kind = "step" /\ x.pos = l.pos

\* x, a line or Here, can come directly behind line l.  A process may stop
\* anywhere, and another one begins with a header.
Follows(l, x) ==
  \/ x.kind \in {"off", "header"}
  \/ l.kind = "header" /\ l.pos > 0 /\ x.kind = "resume" /\ x.pos = l.pos
  \/ l.kind \in {"header", "resume", "max"} /\ (l.kind = "header" => l.pos = 0) /\ Begins(l.pos, x)
  \/ l.kind \in {"frame", "step", "timed", "time"} /\ Continues(l, x)

\* What is read next, and what stands behind the i-th unread line.
NextLine == IF unread = <<>> THEN Here ELSE Head(unread)
After(i) == IF i < Len(unread) THEN unread[i + 1] ELSE Here


\* The unread lines, and Here behind them, follow one another.
LinesFollow == \A i \in 1..Len(unread) : Printed(unread[i]) /\ Follows(unread[i], After(i))

\* A frame of a trainer that times its steps has the line of the same step
\* before or behind it, read or unread.
TimedPairs ==
  style = "timed" =>
    \A i \in 1..Len(unread) : unread[i].kind = "frame" =>
      \/ i < Len(unread) /\ unread[i + 1].kind = "timed" /\ unread[i + 1].pos = unread[i].pos
      \/ i > 1 /\ unread[i - 1].kind = "timed" /\ unread[i - 1].pos = unread[i].pos
      \/ i = 1 /\ step_from_reported_line /\ step = unread[i].pos

\* The reader has seen nothing of a run.
Untouched ==
  /\ step = 0 /\ ~loss /\ max_steps = 0 /\ stated_max_steps = 0
  /\ last_bar_step = NoStep /\ abs_base = NoStep /\ resume_start = NoStep
  /\ ~step_from_reported_line /\ ~base_from_line /\ ~cadence_rebase
  /\ ~saw_reported_step_time /\ last_step_seen = NoStep /\ spoken

\* The trainers whose position is a base and what the bar counts from it.
Counts == style \in {"harness", "counted"}

\* What the reader holds of the run for each style of trainer, whatever is
\* unread.
ReaderKnows ==
  /\ ~spoken => style \in Headed
  /\ style \in Headed =>
       IF abs_base = NoStep THEN Untouched
       ELSE /\ stated_max_steps > 0 /\ max_steps \in {0, stated_max_steps}
            /\ spoken => stated_max_steps = End
  /\ style \in {"counted", "lines"} => stated_max_steps \in {0, End} /\ max_steps \in {0, End}
  /\ style \in {"blind", "whole"} => stated_max_steps = 0 /\ abs_base = NoStep
  /\ style = "whole" => max_steps \in {0, End}
  /\ style \notin Headed => resume_start = NoStep
  /\ style # "timed" => ~step_from_reported_line
  /\ style = "lines" /\ abs_base = NoStep => step = 0 /\ ~loss /\ last_step_seen = NoStep
  /\ ~loss => step = 0 \/ resume_start # NoStep

\* The base a frame that shows n leaves behind.
NextBase(n) ==
  IF last_bar_step # NoStep /\ n < last_bar_step /\ ~base_from_line
  THEN abs_base + last_bar_step ELSE abs_base

\* The reader is in step with x, the next thing to come: reading it, or a line
\* printed at it, leaves the position the run had.  First what launches say.
ReadyForStart(x) ==
  /\ abs_base = NoStep /\ style \in Headed => x.kind \in {"header", "off"} /\ (x.kind = "header" => x.pos = 0)
  /\ ~spoken => x.kind \in {"resume", "header", "off"}
  /\ x.kind = "resume" =>
       /\ ~spoken /\ step = 0 /\ ~loss /\ last_bar_step = NoStep
       /\ ~step_from_reported_line /\ ~saw_reported_step_time /\ last_step_seen = NoStep
       /\ resume_start = NoStep /\ ~cadence_rebase
  /\ x.kind = "max" => Untouched
  /\ style = "counted" /\ x.kind \in {"frame", "step", "train", "boundary"} => stated_max_steps = End

\* Once there is a base, the base and the chunk of the next frame are its
\* position; inside a chunk the base already is where the chunk began.
ReadyForBar(x) ==
  Counts =>
  /\ x.kind = "step" => last_bar_step # NoStep
  /\ x.kind = "boundary" => last_bar_step # NoStep
  /\ abs_base # NoStep =>
     /\ x.kind = "frame" => NextBase(x.n) = x.pos - x.n
     /\ x.kind = "train" /\ x.n = 0 => NextBase(1) = x.pos
     /\ x.kind \in {"train", "boundary"} /\ x.n > 0 =>
          /\ abs_base = x.pos - x.n /\ ~base_from_line
          /\ last_bar_step # NoStep /\ last_bar_step <= x.n
     /\ x.kind = "boundary" => last_bar_step = x.n

\* With nothing but a bar the numbers are the run's until the first restart,
\* and then they are marked as the chunk's.
ReadyForBlind(x) ==
  style = "blind" /\ ~chunked_bar =>
    /\ x.kind = "frame" => x.pos = x.n \/ (last_bar_step # NoStep /\ x.n < last_bar_step)
    /\ x.kind = "train" => x.pos = x.n \/ (last_bar_step # NoStep /\ 1 < last_bar_step /\ x.n = 0)
    /\ x.kind = "boundary" => x.pos = x.n /\ last_bar_step = x.n

\* A trainer that times its steps is at most one line ahead of the reader.
ReadyForTimed(x) ==
  style = "timed" =>
    IF step_from_reported_line
    THEN /\ x.kind = "frame" => step \in {x.pos, x.pos - 1}
         /\ x.kind \in {"train", "boundary"} => step = x.pos
    ELSE /\ x.kind = "frame" => x.n = 1 /\ last_bar_step = NoStep /\ abs_base = x.pos - x.n
         /\ x.kind = "train" => x.n = 0 /\ last_bar_step = NoStep /\ abs_base = x.pos
         /\ x.kind \notin {"boundary", "step", "done"}
         /\ loss => x.kind = "timed"

\* Lines that carry the position or come beside it.
ReadyForLine(x) ==
  /\ x.kind = "time" => loss /\ step = x.pos
  /\ style = "lines" => /\ x.kind = "step" => x.pos = step + 1
                        /\ x.kind \in {"train", "boundary"} => x.pos = step

Ready(x) ==
  /\ ReadyForStart(x) /\ ReadyForBar(x) /\ ReadyForBlind(x) /\ ReadyForTimed(x) /\ ReadyForLine(x)

\* Before the first launch, and before a header is read.
NothingRead ==
  /\ launches = 0 => unread = <<>> /\ Untouched
  /\ style \in Headed /\ abs_base = NoStep /\ unread = <<>> => launches = 0

\* The step is the base, or the base and what the bar last showed.
StepFromBase ==
  Counts /\ abs_base # NoStep =>
    IF base_from_line THEN step = abs_base
    ELSE /\ Marks(abs_base)
         /\ IF last_bar_step = NoStep THEN step = 0 /\ ~loss
            ELSE /\ step = abs_base + last_bar_step
                 /\ 1 <= last_bar_step /\ last_bar_step <= ChunkLen

\* The anchor was set while the view was polled or a pause asks for a new one,
\* lies behind the step, and in the chunk of the step unless it is a baseline.
CadenceOK ==
  /\ last_step_seen # NoStep => last_note_at
  /\ last_step_seen # NoStep /\ (~polled \/ broken) => paused
  /\ style # "timed" /\ abs_base # NoStep /\ ~cadence_rebase /\ ~paused /\ last_step_seen # NoStep =>
        last_step_seen <= step /\ (anchor_is_baseline \/ prompt)
  /\ Counts /\ abs_base # NoStep /\ ~cadence_rebase /\ last_step_seen # NoStep =>
      IF base_from_line THEN anchor_is_baseline /\ last_step_seen = step
      ELSE anchor_is_baseline \/ last_step_seen > abs_base
  /\ style = "timed" =>
       /\ step_from_reported_line <=> saw_reported_step_time
       /\ last_step_seen # NoStep /\ ~step_from_reported_line => last_step_seen = step /\ loss

StepsIInv ==
  /\ StepsTypeOK
  /\ TrainerIsOrderly
  /\ ReaderKnows
  /\ LinesFollow
  /\ Ready(NextLine)
  /\ TimedPairs
  /\ NothingRead
  /\ StepFromBase
  /\ CadenceOK
  /\ ProgressIsTheRuns

-----------------------------------------------------------------------------
\* Span, and what it is when the count ends before the run does.
LEMMA Spans ==
  ASSUME NEW c \in 0..End, style # "whole"
  PROVE  /\ SpanFrom(c) \in Nat /\ SpanFrom(c) <= ChunkLen /\ c + SpanFrom(c) <= End
         /\ c + SpanFrom(c) = End \/ SpanFrom(c) = ChunkLen
  BY StepsAssumption DEF SpanFrom

\* What the bar counts to now.
LEMMA SpanIsSpanFrom == Span = SpanFrom(chunk)
  BY DEF Span, SpanFrom

\* What is common to the lines and to the trainer that stands behind them.
Stands(x) ==
  /\ x.n \in Nat /\ x.pos \in 0..End
  /\ x.kind = "frame" => Printed(x)
  /\ x.kind = "train" => x.pos < End
  /\ x.kind \in LineKind \cup {"off", "resume", "train", "boundary", "done"}

\* What stands behind the unread lines is a place of the run.
LEMMA HereStands ==
  ASSUME StepsTypeOK, TrainerIsOrderly
  PROVE  Stands(Here)
<1>1. /\ Here.kind = phase /\ Here.n = pos - chunk /\ Here.pos = pos
  BY DEF Here
<1>2. phase = "train" => pos < End
  BY StepsAssumption DEF TrainerIsOrderly, Span, StepsTypeOK
<1>3. QED
  BY <1>1, <1>2, StepsAssumption DEF TrainerIsOrderly, Stands, LineKind, StepsTypeOK

\* So is every line.
LEMMA LineStands ==
  ASSUME NEW l, Printed(l)
  PROVE  Stands(l)
  BY DEF Printed, Stands, LineKind

\* A multiple that is not negative and smaller than the factor is zero.
LEMMA Multiples ==
  ASSUME NEW k \in Nat, k > 0, NEW d \in Int, 0 <= k * d, k * d < k
  PROVE  d = 0
<1>1. CASE d >= 1
  <2>1. k * d >= k
    BY <1>1
  <2>2. QED
    BY <2>1
<1>2. CASE d <= 0 - 1
  <2>1. k * d <= 0 - k
    BY <1>2
  <2>2. QED
    BY <2>1
<1>3. QED
  BY <1>1, <1>2

\* The factor is taken out of a difference.
LEMMA TimesDifference ==
  ASSUME NEW k \in Nat, NEW p \in Nat, NEW q \in Nat
  PROVE  k * (p - q) = k * p - k * q
  OBVIOUS

\* The ends of chunks are the multiples of the length.
LEMMA MarksAreMultiples ==
  ASSUME NEW n \in Nat
  PROVE  Marks(n) <=> \E q \in Nat : n = ChunkLen * q
<1>1. /\ n \div ChunkLen \in Nat /\ n % ChunkLen \in Nat /\ n % ChunkLen < ChunkLen
      /\ n = ChunkLen * (n \div ChunkLen) + (n % ChunkLen)
      /\ ChunkLen \in Nat /\ ChunkLen > 0
  <2>1. ChunkLen \in Nat /\ ChunkLen > 0
    BY StepsAssumption
  <2>2. n \div ChunkLen \in Nat
    BY <2>1
  <2>3. n % ChunkLen \in Nat /\ n % ChunkLen < ChunkLen
    BY <2>1
  <2>4. n = ChunkLen * (n \div ChunkLen) + (n % ChunkLen)
    BY <2>1
  <2>5. QED
    BY <2>1, <2>2, <2>3, <2>4
<1>2. ASSUME NEW q \in Nat, n = ChunkLen * q
      PROVE  n % ChunkLen = 0
  <2> DEFINE p == n \div ChunkLen
             r == n % ChunkLen
             d == q - p
  <2>1. d \in Int /\ p \in Nat /\ r \in Nat /\ r < ChunkLen
    BY <1>1
  <2>2. ChunkLen * q = ChunkLen * p + r
    BY <1>1, <1>2
  <2>3. ChunkLen * d = ChunkLen * q - ChunkLen * p
    BY <1>1, <2>1
  <2>4. ChunkLen * p \in Int /\ ChunkLen * q \in Int
    BY <1>1, <2>1
  <2> HIDE DEF p, r
  <2>5. ChunkLen * d = r
    BY <1>1, <2>1, <2>2, <2>3, <2>4
  <2> HIDE DEF d
  <2>6. d = 0
    BY <1>1, <2>1, <2>5, Multiples
  <2>7. r = 0
    BY <1>1, <2>5, <2>6
  <2>8. QED
    BY <2>7 DEF r
<1>3. ASSUME n % ChunkLen = 0
      PROVE  \E q \in Nat : n = ChunkLen * q
  BY <1>1, <1>3
<1>4. QED
  BY <1>2, <1>3 DEF Marks

\* A run begins at such an end, the next one is a chunk away, and there is none
\* between.
LEMMA MarksFacts ==
  /\ Marks(0)
  /\ \A c \in Nat : Marks(c) => Marks(c + ChunkLen)
  /\ \A c, n \in Nat : Marks(c) /\ c < n /\ n < c + ChunkLen => ~Marks(n)
<1>1. ChunkLen \in Nat /\ ChunkLen > 0
  BY StepsAssumption
<1>2. Marks(0)
  BY <1>1, MarksAreMultiples
<1>3. ASSUME NEW c \in Nat, Marks(c)
      PROVE  Marks(c + ChunkLen)
  <2>1. PICK q \in Nat : c = ChunkLen * q
    BY <1>3, MarksAreMultiples
  <2> DEFINE n == c + ChunkLen
  <2>2. n \in Nat /\ q + 1 \in Nat /\ n = ChunkLen * (q + 1)
    BY <1>1, <2>1
  <2> HIDE DEF n
  <2>3. Marks(n)
    BY <2>2, MarksAreMultiples
  <2>4. QED
    BY <2>3 DEF n
<1>4. ASSUME NEW c \in Nat, NEW n \in Nat, Marks(c), c < n, n < c + ChunkLen, Marks(n)
      PROVE  FALSE
  <2>1. PICK q \in Nat : c = ChunkLen * q
    BY <1>4, MarksAreMultiples
  <2>2. PICK p \in Nat : n = ChunkLen * p
    BY <1>4, MarksAreMultiples
  <2> DEFINE d == p - q
  <2>3. d \in Int /\ ChunkLen * d = n - c
    <3>1. ChunkLen * (p - q) = ChunkLen * p - ChunkLen * q
      BY <1>1, TimesDifference
    <3>2. QED
      BY <2>1, <2>2, <3>1
  <2> HIDE DEF d
  <2>4. d = 0
    BY <1>1, <1>4, <2>3, Multiples
  <2>5. QED
    BY <1>1, <1>4, <2>3, <2>4
<1>5. QED
  BY <1>2, <1>3, <1>4

-----------------------------------------------------------------------------
\* The flags and the total of the bar, apart from the rest of the type.
LEMMA StepsIsTyped ==
  ASSUME StepsIInv
  PROVE  /\ step_history \in BOOLEAN /\ chunked_bar \in BOOLEAN /\ anchor_is_baseline \in BOOLEAN
         /\ last_note_at \in BOOLEAN /\ paused \in BOOLEAN /\ last_bar_total \in Nat
         /\ loss \in BOOLEAN /\ step_from_reported_line \in BOOLEAN /\ base_from_line \in BOOLEAN
         /\ cadence_rebase \in BOOLEAN /\ saw_reported_step_time \in BOOLEAN
  BY DEF StepsIInv, StepsTypeOK

\* What lines can be and can follow depends on the trainer alone.
LEMMA SameStyle ==
  ASSUME style' = style
  PROVE  /\ \A l : Printed(l)' <=> Printed(l)
         /\ \A l, x : Follows(l, x)' <=> Follows(l, x)
<1>1. \A c : SpanFrom(c)' = SpanFrom(c)
  BY DEF SpanFrom
<1>2. \A l : Printed(l)' <=> Printed(l)
  BY <1>1 DEF Printed
<1>3. \A q, x : Begins(q, x)' <=> Begins(q, x)
  BY DEF Begins
<1>4. \A l, x : Continues(l, x)' <=> Continues(l, x)
  BY <1>3 DEF Continues, SameBar
<1>5. \A l, x : Follows(l, x)' <=> Follows(l, x)
  BY <1>3, <1>4 DEF Follows
<1>6. QED
  BY <1>2, <1>5

\* The queue of unread lines, as the steps below use it.
LEMMA UnreadFacts ==
  ASSUME StepsTypeOK
  PROVE  /\ unread \in Seq(LineType) /\ Len(unread) \in Nat
         /\ unread = <<>> <=> Len(unread) = 0
         /\ \A i \in 1..Len(unread) : unread[i] \in LineType
         /\ unread # <<>> => Head(unread) = unread[1] /\ 1 \in 1..Len(unread)
<1>1. unread \in Seq(LineType)
  BY DEF StepsTypeOK
<1>2. Len(unread) \in Nat /\ (unread = <<>> <=> Len(unread) = 0)
  BY <1>1, EmptySeq, LenProperties
<1>3. \A i \in 1..Len(unread) : unread[i] \in LineType
  BY <1>1, ElementOfSeq
<1>4. QED
  BY <1>1, <1>2, <1>3

\* The line behind the first one is the next to be read once that is read.
LEMMA QueueMovesUp ==
  ASSUME StepsTypeOK, TrainerIsOrderly, LinesFollow, unread # <<>>, unread' = Tail(unread),
         UNCHANGED trainerVars
  PROVE  /\ Printed(Head(unread)) /\ Follows(Head(unread), After(1)) /\ Stands(After(1))
         /\ NextLine = Head(unread) /\ NextLine' = After(1) /\ Here' = Here
         /\ LinesFollow'
         /\ Len(unread') = Len(unread) - 1
         /\ \A i \in 1..Len(unread') : unread'[i] = unread[i + 1] /\ i + 1 \in 1..Len(unread)
<1>1. /\ unread \in Seq(LineType) /\ Len(unread) \in Nat /\ Len(unread) > 0
      /\ Head(unread) = unread[1] /\ 1 \in 1..Len(unread)
  <2>1. Len(unread) \in Nat /\ Len(unread) # 0
    BY UnreadFacts
  <2>2. QED
    BY <2>1, UnreadFacts
<1>2. /\ unread' \in Seq(LineType) /\ Len(unread') = Len(unread) - 1
      /\ \A i \in 1..Len(unread') : unread'[i] = unread[i + 1]
  BY <1>1, HeadTailProperties
<1>3. Len(unread') \in Nat /\ (unread' = <<>> <=> Len(unread') = 0)
      /\ (unread' # <<>> => Head(unread') = unread'[1])
  <2>1. Len(unread') \in Nat /\ (unread' = <<>> <=> Len(unread') = 0)
    BY <1>2, EmptySeq, LenProperties
  <2>2. unread' # <<>> => Head(unread') = unread'[1]
    BY <1>2
  <2>3. QED
    BY <2>1, <2>2
<1>4. Here' = Here /\ style' = style
  BY DEF trainerVars, Here, Span
<1>5. /\ Printed(Head(unread)) /\ Follows(Head(unread), After(1))
  BY <1>1 DEF LinesFollow
<1>6. NextLine = Head(unread)
  BY DEF NextLine
<1>7. NextLine' = After(1)
  <2>1. CASE Len(unread) > 1
    <3>1. unread' # <<>> /\ 1 \in 1..Len(unread')
      BY <1>1, <1>2, <1>3, <2>1
    <3>2. Head(unread') = unread[2]
      BY <1>2, <1>3, <3>1
    <3>3. QED
      BY <2>1, <3>1, <3>2 DEF NextLine, After
  <2>2. CASE ~(Len(unread) > 1)
    <3>1. unread' = <<>>
      BY <1>1, <1>2, <1>3, <2>2
    <3>2. QED
      BY <1>4, <2>2, <3>1 DEF NextLine, After
  <2>3. QED
    BY <2>1, <2>2
<1>8. Stands(After(1))
  <2>1. CASE 1 < Len(unread)
    <3>1. 2 \in 1..Len(unread) /\ After(1) = unread[2]
      BY <1>1, <2>1 DEF After
    <3>2. QED
      BY <3>1, LineStands DEF LinesFollow
  <2>2. CASE ~(1 < Len(unread))
    BY <2>2, HereStands DEF After
  <2>3. QED
    BY <2>1, <2>2
<1>9. \A i \in 1..Len(unread') :
        unread'[i] = unread[i + 1] /\ i + 1 \in 1..Len(unread) /\ After(i)' = After(i + 1)
  <2> TAKE i \in 1..Len(unread')
  <2>1. unread'[i] = unread[i + 1] /\ i + 1 \in 1..Len(unread)
    BY <1>1, <1>2
  <2>2. CASE i < Len(unread')
    <3>1. i + 1 < Len(unread) /\ unread'[i + 1] = unread[i + 2]
      BY <1>1, <1>2, <2>2
    <3>2. QED
      BY <2>1, <2>2, <3>1 DEF After
  <2>3. CASE ~(i < Len(unread'))
    <3>1. ~(i + 1 < Len(unread))
      BY <1>1, <1>2, <2>3
    <3>2. QED
      BY <1>4, <2>1, <2>3, <3>1 DEF After
  <2>4. QED
    BY <2>2, <2>3
<1>10. LinesFollow'
  <2>1. ASSUME NEW i \in 1..Len(unread'), NEW l, NEW x, l = unread'[i], x = After(i)'
        PROVE  Printed(l)' /\ Follows(l, x)'
    <3>1. Printed(l) /\ Follows(l, x)
      BY <1>9, <2>1 DEF LinesFollow
    <3>2. QED
      BY <1>4, <3>1, SameStyle
  <2>2. QED
    BY <2>1 DEF LinesFollow
<1>11. QED
  BY <1>2, <1>4, <1>5, <1>6, <1>7, <1>8, <1>9, <1>10

\* What comes next, under a name that is not primed.
LEMMA ReadyNext ==
  ASSUME NEW x, x = NextLine', Ready(x)'
  PROVE  Ready(NextLine)'
  BY DEF Ready, ReadyForStart, ReadyForBar, ReadyForBlind, ReadyForTimed, ReadyForLine, NextBase,
         Untouched, Counts

\* What every reading step has in common.
LEMMA ReadFacts ==
  ASSUME StepsIInv, NEW kind, Reads(kind)
  PROVE  /\ Head(unread).kind = kind /\ Printed(Head(unread)) /\ Ready(Head(unread))
         /\ \E x : x = NextLine' /\ Stands(x) /\ Follows(Head(unread), x)
         /\ TrainerIsOrderly' /\ LinesFollow'
         /\ unread' \in Seq(LineType) /\ at' \in Nat /\ at' = Head(unread).pos
         /\ launches # 0 /\ UNCHANGED trainerVars
         /\ UNCHANGED <<polled, prompt, broken, sample>>
<1>1. /\ unread # <<>> /\ Head(unread).kind = kind /\ unread' = Tail(unread)
      /\ at' = Head(unread).pos /\ UNCHANGED trainerVars
      /\ UNCHANGED <<polled, prompt, broken, sample>>
  BY DEF Reads
<1>2. /\ Printed(Head(unread)) /\ Follows(Head(unread), After(1)) /\ Stands(After(1))
      /\ NextLine = Head(unread) /\ NextLine' = After(1) /\ LinesFollow'
  BY <1>1, QueueMovesUp DEF StepsIInv
<1>3. Ready(Head(unread))
  BY <1>2 DEF StepsIInv
<1>4. unread' \in Seq(LineType)
  BY <1>1, UnreadFacts, HeadTailProperties DEF StepsIInv
<1>5. at' \in Nat
  BY <1>1, <1>2 DEF Printed
<1>6. launches # 0
  BY <1>1 DEF StepsIInv, NothingRead
<1>7. TrainerIsOrderly'
  BY <1>1 DEF StepsIInv, TrainerIsOrderly, trainerVars, Span, Marks
<1>8. QED
  BY <1>1, <1>2, <1>3, <1>4, <1>5, <1>6, <1>7

\* Reading a line moves the others up; a timed line leaves its step behind.
LEMMA PairsMoveUp ==
  ASSUME StepsIInv, NEW kind, Reads(kind),
         kind = "timed" => step_from_reported_line' /\ step' = at'
  PROVE  TimedPairs'
<1>1. /\ unread # <<>> /\ Head(unread).kind = kind /\ unread' = Tail(unread)
      /\ at' = Head(unread).pos /\ UNCHANGED trainerVars /\ style' = style
  BY DEF Reads, trainerVars
<1>2. /\ Len(unread') = Len(unread) - 1 /\ Len(unread) \in Nat
      /\ \A i \in 1..Len(unread') : unread'[i] = unread[i + 1] /\ i + 1 \in 1..Len(unread)
      /\ Head(unread) = unread[1]
  BY <1>1, QueueMovesUp, UnreadFacts DEF StepsIInv
<1> SUFFICES ASSUME style = "timed", NEW i \in 1..Len(unread'), unread'[i].kind = "frame"
             PROVE  \/ i < Len(unread') /\ unread'[i + 1].kind = "timed" /\ unread'[i + 1].pos = unread'[i].pos
                    \/ i > 1 /\ unread'[i - 1].kind = "timed" /\ unread'[i - 1].pos = unread'[i].pos
                    \/ i = 1 /\ step_from_reported_line' /\ step' = unread'[i].pos
  BY <1>1 DEF TimedPairs
<1>3. unread'[i] = unread[i + 1] /\ i + 1 \in 1..Len(unread)
  BY <1>2
<1>4. \/ i + 1 < Len(unread) /\ unread[i + 2].kind = "timed" /\ unread[i + 2].pos = unread[i + 1].pos
      \/ unread[i].kind = "timed" /\ unread[i].pos = unread[i + 1].pos
  <2> DEFINE j == i + 1
  <2>1. j \in 1..Len(unread) /\ j # 1 /\ j + 1 = i + 2 /\ j - 1 = i /\ unread[j].kind = "frame"
    BY <1>3
  <2> HIDE DEF j
  <2>2. \/ j < Len(unread) /\ unread[j + 1].kind = "timed" /\ unread[j + 1].pos = unread[j].pos
        \/ j > 1 /\ unread[j - 1].kind = "timed" /\ unread[j - 1].pos = unread[j].pos
    BY <2>1 DEF StepsIInv, TimedPairs
  <2>3. QED
    BY <2>1, <2>2 DEF j
<1>5. CASE i + 1 < Len(unread) /\ unread[i + 2].kind = "timed" /\ unread[i + 2].pos = unread[i + 1].pos
  <2>1. i < Len(unread') /\ i + 1 \in 1..Len(unread') /\ unread'[i + 1] = unread[(i + 1) + 1]
    BY <1>2, <1>5
  <2>2. unread'[i + 1] = unread[i + 2]
    BY <2>1
  <2>3. QED
    BY <1>3, <1>5, <2>1, <2>2
<1>6. CASE unread[i].kind = "timed" /\ unread[i].pos = unread[i + 1].pos
  <2>1. CASE i = 1
    BY <1>1, <1>2, <1>3, <1>6, <2>1
  <2>2. CASE i # 1
    <3>1. i - 1 \in 1..Len(unread') /\ i > 1 /\ unread'[i - 1] = unread[(i - 1) + 1]
      BY <1>2, <2>2
    <3>2. unread'[i - 1] = unread[i]
      BY <3>1
    <3>3. QED
      BY <1>3, <1>6, <3>1, <3>2
  <2>3. QED
    BY <2>1, <2>2
<1>7. QED
  BY <1>4, <1>5, <1>6

\* With a trainer that times its steps a frame has its line before or behind it.
LEMMA FrameHasItsLine ==
  ASSUME StepsIInv, Reads("frame"), style = "timed", NEW x, x = NextLine'
  PROVE  \/ x.kind = "timed" /\ x.pos = Head(unread).pos
         \/ step_from_reported_line /\ step = Head(unread).pos
<1>1. /\ unread # <<>> /\ Head(unread).kind = "frame" /\ unread' = Tail(unread)
      /\ UNCHANGED trainerVars
  BY DEF Reads
<1>2. Head(unread) = unread[1] /\ 1 \in 1..Len(unread) /\ NextLine' = After(1)
  BY <1>1, QueueMovesUp, UnreadFacts DEF StepsIInv
<1>3. \/ 1 < Len(unread) /\ unread[1 + 1].kind = "timed" /\ unread[1 + 1].pos = unread[1].pos
      \/ step_from_reported_line /\ step = unread[1].pos
  BY <1>1, <1>2 DEF StepsIInv, TimedPairs
<1>4. QED
  BY <1>2, <1>3 DEF After

\* The budget a bar leaves is a number.
LEMMA BudgetIsNumber ==
  ASSUME StepsTypeOK, NEW chunked, NEW total \in Nat, NEW p
  PROVE  BarBudget(chunked, total, p) \in Nat
  BY DEF BarBudget, StepsTypeOK

\* A frame.  Inside a chunk the base is where the chunk began; at a restart it
\* moves by what the bar last showed, which is where the next chunk begins.
LEMMA ReadFramePreserves ==
  ASSUME StepsIInv, ReadFrame
  PROVE  StepsIInv'
<1> DEFINE l == Head(unread)
           restarted == last_bar_step # NoStep /\ l.n < last_bar_step
           moves == restarted /\ ~base_from_line /\ abs_base # NoStep
           base == IF moves THEN abs_base + last_bar_step ELSE abs_base
           chunked == chunked_bar \/ restarted
<1>1. Reads("frame")
  BY DEF ReadFrame
<1>2. /\ l.kind = "frame" /\ Printed(l) /\ Ready(l) /\ TrainerIsOrderly' /\ LinesFollow'
      /\ unread' \in Seq(LineType) /\ at' \in Nat /\ at' = l.pos
      /\ launches # 0 /\ UNCHANGED trainerVars
      /\ UNCHANGED <<polled, prompt, broken, sample>>
  BY <1>1, ReadFacts
<1>3. PICK x : x = NextLine' /\ Stands(x) /\ Follows(l, x)
  BY <1>1, ReadFacts
<1>4. /\ chunked_bar' = chunked /\ abs_base' = base
      /\ cadence_rebase' = (cadence_rebase \/ moves)
      /\ last_bar_step' = l.n /\ last_bar_total' = l.m /\ base_from_line' = FALSE
      /\ UNCHANGED <<stated_max_steps, step_from_reported_line, resume_start,
                     step_history, cadenceVars, spoken>>
  BY DEF ReadFrame
<1>5. \/ /\ step_from_reported_line
         /\ max_steps' = BarBudget(chunked, l.m, step)
         /\ UNCHANGED <<step, loss>>
      \/ /\ ~step_from_reported_line
         /\ base # NoStep
         /\ step' = base + l.n
         /\ max_steps' = BarBudget(chunked, l.m, step')
         /\ loss' = TRUE
      \/ /\ ~step_from_reported_line
         /\ base = NoStep
         /\ step' = l.n
         /\ max_steps' = IF stated_max_steps > 0 /\ ChunkLocal(base, chunked, l.m)
                         THEN stated_max_steps ELSE l.m
         /\ loss' = TRUE
  BY DEF ReadFrame
<1>6. /\ l.n \in Nat /\ l.m \in Nat /\ l.pos \in Nat /\ l.pos <= End /\ End \in Nat
      /\ style # "lines" /\ l.n <= l.pos /\ 1 <= l.n /\ l.n <= l.m /\ l.m = SpanFrom(l.pos - l.n)
      /\ IF style = "whole" THEN l.n = l.pos ELSE Marks(l.pos - l.n)
  BY <1>2, StepsAssumption DEF Printed
<1>7. /\ base \in Nat \cup {NoStep} /\ (base = NoStep <=> abs_base = NoStep)
      /\ restarted \in BOOLEAN /\ moves \in BOOLEAN /\ chunked \in BOOLEAN
  BY StepsAssumption DEF StepsIInv, StepsTypeOK
<1> HIDE DEF l
<1>8. StepsTypeOK'
  <2>1. step' \in Nat /\ loss' \in BOOLEAN
    <3> HIDE DEF base, chunked
    <3>1. step' \in Nat
      BY <1>5, <1>6, <1>7 DEF StepsIInv, StepsTypeOK
    <3>2. loss' \in BOOLEAN
      BY <1>5 DEF StepsIInv, StepsTypeOK
    <3>3. QED
      BY <3>1, <3>2
  <2>2. max_steps' \in Nat
    BY <1>5, <1>6, <2>1, BudgetIsNumber DEF StepsIInv, StepsTypeOK
  <2>3. /\ abs_base' \in Nat \cup {NoStep} /\ last_bar_step' \in Nat \cup {NoStep}
        /\ last_bar_total' \in Nat /\ base_from_line' \in BOOLEAN
    BY <1>4, <1>6, <1>7
  <2>4. chunked_bar' \in BOOLEAN /\ cadence_rebase' \in BOOLEAN
    BY <1>4, Zenon
  <2>5. QED
    BY <1>2, <1>4, <2>1, <2>2, <2>3, <2>4 DEF StepsIInv, StepsTypeOK, trainerVars, cadenceVars
<1> HIDE DEF base, chunked, restarted, moves
<1>9. /\ style' = style /\ phase' = phase /\ launches' = launches
      /\ stated_max_steps' = stated_max_steps /\ spoken' = spoken /\ resume_start' = resume_start
      /\ step_from_reported_line' = step_from_reported_line
      /\ saw_reported_step_time' = saw_reported_step_time /\ last_step_seen' = last_step_seen
      /\ anchor_is_baseline' = anchor_is_baseline /\ last_note_at' = last_note_at
      /\ paused' = paused /\ polled' = polled /\ prompt' = prompt /\ broken' = broken
  BY <1>2, <1>4 DEF trainerVars, cadenceVars
<1>10. style \in Headed => abs_base # NoStep
  BY <1>2 DEF Ready, ReadyForStart
<1>11. spoken
  BY <1>2 DEF Ready, ReadyForStart
<1>12. style = "counted" => stated_max_steps = End
  BY <1>2 DEF Ready, ReadyForStart
<1>13. style \in Styles /\ style \in AllStyles /\ stated_max_steps \in Nat /\ End > 0
  BY StepsAssumption DEF StepsIInv, StepsTypeOK
<1>14. style \in {"blind", "whole"} => base = NoStep /\ stated_max_steps = 0
  BY <1>7 DEF StepsIInv, ReaderKnows
<1>15. stated_max_steps > 0 => max_steps' = stated_max_steps \/ (base = NoStep /\ max_steps' = l.m)
  BY <1>5 DEF BarBudget
<1>16. l.m <= End
  BY <1>6 DEF SpanFrom
<1>17. ReaderKnows'
  <2>1. style \in Headed => stated_max_steps > 0 /\ stated_max_steps = End
    BY <1>10, <1>11 DEF StepsIInv, ReaderKnows
  <2>2. style \in Headed => max_steps' = stated_max_steps
    BY <1>7, <1>10, <1>15, <2>1
  <2>3. style = "counted" => max_steps' = End
    <3>1. ~ChunkLocal(base, chunked, l.m) /\ base = NoStep /\ style = "counted" => l.m = End
      BY <1>6, <1>12, <1>13, <1>16 DEF ChunkLocal, StepsIInv, ReaderKnows
    <3>2. style = "counted" => ~step_from_reported_line
      BY DEF StepsIInv, ReaderKnows
    <3>3. CASE base = NoStep
      BY <1>5, <1>12, <1>13, <3>1, <3>2, <3>3
    <3>4. CASE base # NoStep
      BY <1>12, <1>13, <1>15, <3>4
    <3>5. QED
      BY <3>3, <3>4
  <2>4. style = "whole" => max_steps' = End
    <3>1. style = "whole" => ~step_from_reported_line
      BY DEF StepsIInv, ReaderKnows
    <3>2. style = "whole" => l.pos - l.n = 0
      BY <1>6
    <3>3. style = "whole" => l.m = End
      BY <1>6, <3>2 DEF SpanFrom
    <3>4. style = "whole" => ~ChunkLocal(base, chunked, l.m) \/ stated_max_steps = 0
      BY <1>14
    <3>5. QED
      BY <1>5, <1>14, <3>1, <3>3
  <2>5. abs_base' = NoStep <=> abs_base = NoStep
    BY <1>4, <1>7
  <2>6. ~loss' => step' = 0 \/ resume_start' # NoStep
    BY <1>5, <1>9 DEF StepsIInv, ReaderKnows
  <2>7. QED
    BY <1>6, <1>9, <1>10, <1>11, <2>1, <2>2, <2>3, <2>4, <2>5, <2>6 DEF StepsIInv, ReaderKnows
<1>18. Counts => ~step_from_reported_line
  BY DEF StepsIInv, ReaderKnows, Counts
<1>19. Counts /\ abs_base # NoStep =>
         /\ base \in Nat /\ base = l.pos - l.n /\ Marks(base) /\ step' = base + l.n /\ loss'
  <2>1. Counts /\ abs_base # NoStep => base = l.pos - l.n
    BY <1>2 DEF Ready, ReadyForBar, NextBase, base, moves, restarted
  <2>2. QED
    BY <1>5, <1>6, <1>7, <1>18, <2>1 DEF Counts
<1>20. style # "whole" => l.m <= ChunkLen /\ (l.n = l.m => l.pos = End \/ 2 <= l.n)
  <2> DEFINE c == l.pos - l.n
  <2>1. c \in 0..End /\ l.pos = c + l.n /\ l.m = SpanFrom(c)
    BY <1>6
  <2> HIDE DEF c
  <2>3. ChunkLen \in Nat /\ ChunkLen >= 2
    BY StepsAssumption
  <2>4. style # "whole" => l.m <= ChunkLen
    BY <2>1, Spans
  <2>5. style # "whole" /\ l.n = l.m => l.pos = End \/ l.n = ChunkLen
    BY <2>1, Spans
  <2>6. QED
    BY <1>6, <2>3, <2>4, <2>5
<1>21. StepFromBase'
  <2>1. Counts' <=> Counts
    BY <1>9 DEF Counts
  <2>2. Counts => style # "whole"
    BY DEF Counts
  <2> SUFFICES ASSUME Counts, abs_base' # NoStep
      PROVE  /\ ~base_from_line' /\ abs_base' % ChunkLen = 0 /\ last_bar_step' # NoStep
             /\ step' = abs_base' + last_bar_step'
             /\ 1 <= last_bar_step' /\ last_bar_step' <= ChunkLen
    BY <2>1 DEF StepFromBase, Marks
  <2>3. base \in Nat /\ Marks(base) /\ step' = base + l.n
    BY <1>4, <1>7, <1>19
  <2>4. l.n # NoStep /\ ChunkLen \in Nat
    BY <1>6, StepsAssumption
  <2>5. l.n <= ChunkLen
    BY <1>6, <1>20, <2>2, <2>4
  <2>6. QED
    BY <1>4, <1>6, <2>3, <2>4, <2>5 DEF Marks
<1>22. NothingRead'
  <2>1. style' \in Headed => abs_base' # NoStep
    BY <1>4, <1>7, <1>9, <1>10
  <2>2. launches' # 0
    BY <1>2, <1>9
  <2>3. QED
    BY <2>1, <2>2 DEF NothingRead
<1>23. TimedPairs'
  BY <1>1, PairsMoveUp
<1>24. /\ x.n \in Nat /\ x.pos \in Nat /\ x.pos <= End /\ (x.kind = "train" => x.pos < End)
       /\ (x.kind \in {"off", "header"} \/ Continues(l, x))
  BY <1>2, <1>3, <1>6 DEF Stands, Follows
<1>25. ReadyForStart(x)'
  <2>1. x.kind # "resume" /\ x.kind # "max"
    BY <1>2, <1>24 DEF Continues, Begins
  <2>2. style \in Headed => abs_base' # NoStep
    BY <1>4, <1>7, <1>10
  <2>3. QED
    BY <1>9, <1>11, <1>12, <2>1, <2>2 DEF ReadyForStart
<1>26. ReadyForBar(x)'
  <2> SUFFICES ASSUME Counts
               PROVE  ReadyForBar(x)'
    BY <1>9 DEF ReadyForBar, Counts
  <2>1. last_bar_step' = l.n /\ last_bar_step' # NoStep /\ ~base_from_line'
    BY <1>4, <1>6, StepsAssumption
  <2>2. style \in Bars /\ style # "whole"
    BY DEF Counts, Bars
  <2>3. ASSUME abs_base' # NoStep
        PROVE  abs_base' \in Nat /\ abs_base' + l.n = l.pos
    BY <1>4, <1>6, <1>7, <1>19, <2>3
  <2>4. \/ x.kind \in {"off", "header", "done"}
        \/ x.kind = "frame" /\ SameBar(l, x) /\ l.n < x.n
        \/ x.kind = "train" /\ SameBar(l, x) /\ l.n <= x.n
        \/ x.kind = "boundary" /\ SameBar(l, x) /\ l.n = x.n
        \/ l.n = l.m /\ Begins(l.pos, x)
        \/ l.n = l.m /\ x.kind = "step" /\ x.pos = l.pos
    BY <1>2, <1>24, <2>2 DEF Continues, Bars
  <2>5. l.n = l.m => l.pos = End \/ 2 <= l.n
    BY <1>20, <2>2
  <2>6. ASSUME abs_base' # NoStep, x.kind = "frame"
        PROVE  NextBase(x.n)' = x.pos - x.n
    <3>1. CASE SameBar(l, x) /\ l.n < x.n
      BY <1>6, <1>24, <2>1, <2>3, <2>6, <3>1 DEF NextBase, SameBar
    <3>2. CASE l.n = l.m /\ x.n = 1 /\ x.pos = l.pos + 1
      BY <1>6, <1>24, <2>1, <2>3, <2>5, <2>6, <3>2 DEF NextBase
    <3>3. QED
      BY <2>2, <2>4, <2>6, <3>1, <3>2 DEF Begins
  <2>7. ASSUME abs_base' # NoStep, x.kind = "train", x.n = 0
        PROVE  NextBase(1)' = x.pos
    <3>1. l.n = l.m /\ x.pos = l.pos
      BY <1>6, <2>4, <2>7 DEF Begins
    <3>2. 2 <= l.n
      BY <1>24, <2>5, <2>7, <3>1, <1>6
    <3>3. QED
      BY <1>6, <2>1, <2>3, <2>7, <3>1, <3>2 DEF NextBase
  <2>8. ASSUME abs_base' # NoStep, x.kind \in {"train", "boundary"}, x.n > 0
        PROVE  abs_base' = x.pos - x.n /\ last_bar_step' <= x.n
    <3>1. SameBar(l, x) /\ l.n <= x.n
      BY <1>6, <1>24, <2>4, <2>8 DEF Begins
    <3>2. QED
      BY <1>6, <1>24, <2>1, <2>3, <2>8, <3>1 DEF SameBar
  <2>9. x.kind = "boundary" => last_bar_step' = x.n
    BY <2>1, <2>4 DEF Begins
  <2>10. QED
    BY <2>1, <2>6, <2>7, <2>8, <2>9 DEF ReadyForBar
<1>27. style = "blind" /\ ~chunked => l.pos = l.n
  BY <1>2 DEF Ready, ReadyForBlind, chunked, restarted
<1>28. ReadyForBlind(x)'
  <2> SUFFICES ASSUME style = "blind", ~chunked
               PROVE  ReadyForBlind(x)'
    BY <1>4, <1>9 DEF ReadyForBlind
  <2>1. last_bar_step' = l.n /\ last_bar_step' # NoStep
    BY <1>4, <1>6, StepsAssumption
  <2>2. \/ x.kind \in {"off", "header", "done"}
        \/ x.kind = "frame" /\ SameBar(l, x) /\ l.n < x.n
        \/ x.kind = "train" /\ SameBar(l, x) /\ l.n <= x.n
        \/ x.kind = "boundary" /\ SameBar(l, x) /\ l.n = x.n
        \/ l.n = l.m /\ Begins(l.pos, x)
        \/ x.kind = "step"
    BY <1>2, <1>24 DEF Continues
  <2>3. l.n = l.m => l.pos = End \/ 2 <= l.n
    BY <1>20
  <2>4. SameBar(l, x) => x.pos = x.n
    BY <1>6, <1>24, <1>27 DEF SameBar
  <2>5. x.kind = "frame" => x.pos = x.n \/ x.n < l.n
    BY <1>6, <1>24, <2>2, <2>3, <2>4 DEF Begins
  <2>6. x.kind = "train" => x.pos = x.n \/ (1 < l.n /\ x.n = 0)
    BY <1>6, <1>24, <2>2, <2>3, <2>4 DEF Begins
  <2>7. x.kind = "boundary" => x.pos = x.n /\ l.n = x.n
    BY <2>2, <2>4 DEF Begins
  <2>8. QED
    BY <2>1, <2>5, <2>6, <2>7 DEF ReadyForBlind
<1>29. style = "timed" => \/ x.kind = "timed" /\ x.pos = l.pos
                          \/ step_from_reported_line /\ step = l.pos
  BY <1>1, <1>3, FrameHasItsLine DEF l
<1>30. style = "timed" => IF step_from_reported_line
                          THEN step \in {l.pos, l.pos - 1} /\ step' = step /\ loss' = loss
                          ELSE l.n = 1 /\ step' = l.pos /\ ~loss
  <2>1. style = "timed" /\ step_from_reported_line => step \in {l.pos, l.pos - 1}
    BY <1>2 DEF Ready, ReadyForTimed
  <2>2. style = "timed" /\ ~step_from_reported_line =>
          l.n = 1 /\ last_bar_step = NoStep /\ abs_base = l.pos - l.n /\ ~loss
    BY <1>2 DEF Ready, ReadyForTimed
  <2>3. last_bar_step = NoStep => base = abs_base
    BY DEF base, moves, restarted
  <2>4. style = "timed" => base # NoStep
    BY <1>7, <1>10 DEF Headed
  <2>5. QED
    BY <1>5, <1>6, <2>1, <2>2, <2>3, <2>4
<1>31. ReadyForTimed(x)'
  <2> SUFFICES ASSUME style = "timed"
               PROVE  ReadyForTimed(x)'
    BY <1>9 DEF ReadyForTimed
  <2>1. \/ x.kind \in {"off", "header", "done"}
        \/ x.kind \in {"train", "boundary", "step"} /\ x.pos = l.pos
        \/ x.kind \in {"timed", "frame"} /\ x.pos = l.pos + 1
        \/ x.kind = "timed" /\ x.pos = l.pos
    BY <1>2, <1>24 DEF Continues, Bars
  <2>2. CASE step_from_reported_line
    <3>1. x.kind = "frame" => step' \in {x.pos, x.pos - 1}
      BY <1>6, <1>29, <1>30, <2>1, <2>2
    <3>2. x.kind \in {"train", "boundary"} => step' = x.pos
      BY <1>29, <1>30, <2>1, <2>2
    <3>3. QED
      BY <1>9, <2>2, <3>1, <3>2 DEF ReadyForTimed
  <2>3. CASE ~step_from_reported_line
    BY <1>9, <1>29, <2>3 DEF ReadyForTimed
  <2>4. QED
    BY <2>2, <2>3
<1>32. style = "whole" => step' = l.pos /\ loss'
  <2>1. style = "whole" => ~step_from_reported_line
    BY DEF StepsIInv, ReaderKnows
  <2>2. QED
    BY <1>5, <1>6, <1>14, <2>1
<1>33. ReadyForLine(x)'
  <2>1. x.kind = "time" => style = "whole" /\ x.pos = l.pos
    BY <1>2, <1>24 DEF Continues, Begins
  <2>2. QED
    BY <1>6, <1>9, <1>32, <2>1 DEF ReadyForLine
<1>34. Ready(NextLine)'
  BY <1>3, <1>25, <1>26, <1>28, <1>31, <1>33, ReadyNext DEF Ready
<1>35. CadenceOK'
  <2>1. abs_base' # NoStep /\ style # "timed" => Counts /\ abs_base # NoStep
    BY <1>4, <1>6, <1>7, <1>13, <1>14 DEF Counts, AllStyles
  <2>2. ASSUME Counts, abs_base # NoStep, ~moves
        PROVE  base = abs_base /\ base \in Nat /\ step \in Nat /\ step <= step'
    <3>1. base = abs_base /\ base \in Nat /\ step' = base + l.n
      BY <1>7, <1>19, <2>2 DEF base
    <3>2. CASE base_from_line
      <4>1. step = abs_base
        BY <2>2, <3>2 DEF StepsIInv, StepFromBase
      <4>2. QED
        BY <1>6, <3>1, <4>1
    <3>3. CASE ~base_from_line /\ last_bar_step = NoStep
      <4>1. step = 0
        BY <2>2, <3>3 DEF StepsIInv, StepFromBase
      <4>2. QED
        BY <1>6, <3>1, <4>1
    <3>4. CASE ~base_from_line /\ last_bar_step # NoStep
      <4>1. step = abs_base + last_bar_step /\ last_bar_step \in Nat
        BY <2>2, <3>4 DEF StepsIInv, StepFromBase, StepsTypeOK
      <4>2. ~(l.n < last_bar_step)
        BY <2>2, <3>4 DEF moves, restarted
      <4>3. QED
        BY <1>6, <3>1, <4>1, <4>2
    <3>5. QED
      BY <3>2, <3>3, <3>4
  <2>3. ASSUME Counts, abs_base # NoStep, ~cadence_rebase', last_step_seen # NoStep
        PROVE  /\ anchor_is_baseline \/ last_step_seen > abs_base'
               /\ ~paused => last_step_seen <= step' /\ (anchor_is_baseline \/ prompt)
    <3>1. ~cadence_rebase /\ ~moves
      BY <1>4, <2>3
    <3>2. base = abs_base /\ step \in Nat /\ step' \in Nat /\ step <= step' /\ last_step_seen \in Nat
      BY <1>8, <2>2, <2>3, <3>1 DEF StepsIInv, StepsTypeOK
    <3>3. anchor_is_baseline \/ last_step_seen > abs_base
      BY <2>3, <3>1 DEF StepsIInv, CadenceOK
    <3>4. style # "timed"
      BY <2>3 DEF Counts
    <3>5. ~paused => last_step_seen <= step /\ (anchor_is_baseline \/ prompt)
      BY <2>3, <3>1, <3>4 DEF StepsIInv, CadenceOK
    <3>6. abs_base' = abs_base
      BY <1>4, <3>2
    <3>7. ~paused => last_step_seen <= step'
      BY <3>2, <3>5
    <3>8. QED
      BY <3>3, <3>5, <3>6, <3>7
  <2>4. style = "timed" => /\ step_from_reported_line <=> saw_reported_step_time
                           /\ last_step_seen # NoStep => step_from_reported_line
    BY <1>30 DEF StepsIInv, CadenceOK
  <2>5. /\ last_step_seen # NoStep => last_note_at
        /\ last_step_seen # NoStep /\ (~polled \/ broken) => paused
    BY DEF StepsIInv, CadenceOK
  <2>6. style' # "timed" /\ abs_base' # NoStep /\ ~cadence_rebase' /\ ~paused' /\ last_step_seen' # NoStep =>
          last_step_seen' <= step' /\ (anchor_is_baseline' \/ prompt')
    BY <1>9, <2>1, <2>3
  <2>7. Counts' /\ abs_base' # NoStep /\ ~cadence_rebase' /\ last_step_seen' # NoStep =>
          ~base_from_line' /\ (anchor_is_baseline' \/ last_step_seen' > abs_base')
    BY <1>4, <1>9, <2>1, <2>3 DEF Counts
  <2>8. QED
    BY <1>9, <2>4, <2>5, <2>6, <2>7 DEF CadenceOK
<1>36. ProgressIsTheRuns'
  <2> DEFINE local == /\ base = NoStep
                      /\ ~step_from_reported_line
                      /\ chunked \/ (stated_max_steps > 0 /\ 0 < l.m /\ l.m < stated_max_steps)
  <2>1. ChunkLocal(abs_base, chunked_bar, last_bar_total)' <=> local
    BY <1>4 DEF ChunkLocal
  <2> HIDE DEF local
  <2> SUFFICES ASSUME ~local
               PROVE  /\ step' = l.pos \/ (style = "timed" /\ step' + 1 = l.pos)
                      /\ style = "blind" \/ max_steps' \in {0, End}
    BY <1>2, <1>9, <2>1 DEF ProgressIsTheRuns
  <2>2. step' = l.pos \/ (style = "timed" /\ step' + 1 = l.pos)
    <3>1. CASE style = "timed"
      <4>1. step' \in {l.pos, l.pos - 1}
        BY <1>30, <3>1
      <4>2. QED
        BY <1>6, <3>1, <4>1
    <3>2. CASE style = "whole"
      BY <1>32, <3>2
    <3>3. CASE style = "blind"
      <4>1. ~chunked /\ step' = l.n
        BY <1>5, <1>14, <1>17, <1>9, <3>3 DEF local, ReaderKnows
      <4>2. QED
        BY <1>27, <3>3, <4>1
    <3>4. CASE Counts /\ abs_base # NoStep
      BY <1>6, <1>19, <3>4
    <3>5. CASE Counts /\ abs_base = NoStep
      <4>1. style = "counted" /\ base = NoStep /\ ~step_from_reported_line
        BY <1>7, <1>10, <1>18, <3>5 DEF Counts, Headed
      <4>2. ~(l.m < End)
        BY <1>6, <1>12, <1>13, <4>1 DEF local
      <4>3. l.pos - l.n = 0
        <5> DEFINE c == l.pos - l.n
        <5>1. c \in 0..End /\ l.m = SpanFrom(c)
          BY <1>6
        <5> HIDE DEF c
        <5>2. c + l.m <= End
          BY <4>1, <5>1, Spans
        <5>3. c = 0
          BY <1>6, <4>2, <5>1, <5>2
        <5>4. QED
          BY <5>3 DEF c
      <4>4. step' = l.n
        BY <1>5, <4>1
      <4>5. QED
        BY <1>6, <4>3, <4>4
    <3>6. QED
      BY <1>6, <1>13, <3>1, <3>2, <3>3, <3>4, <3>5 DEF AllStyles, Counts
  <2>3. style = "blind" \/ max_steps' \in {0, End}
    BY <1>4, <1>7, <1>9, <1>10, <1>11, <1>13, <1>17 DEF ReaderKnows, AllStyles, Headed
  <2>4. QED
    BY <2>2, <2>3
<1>37. QED
  BY <1>2, <1>8, <1>17, <1>21, <1>22, <1>23, <1>34, <1>35, <1>36 DEF StepsIInv

\* A header: whatever an earlier run left is gone, and the base is zero.
LEMMA ReadHeaderPreserves ==
  ASSUME StepsIInv, ReadHeader
  PROVE  StepsIInv'
<1> DEFINE l == Head(unread)
<1>1. Reads("header")
  BY DEF ReadHeader
<1>2. /\ l.kind = "header" /\ Printed(l) /\ Ready(l) /\ TrainerIsOrderly' /\ LinesFollow'
      /\ unread' \in Seq(LineType) /\ at' \in Nat /\ at' = l.pos
      /\ launches # 0 /\ UNCHANGED trainerVars
      /\ UNCHANGED <<polled, prompt, broken, sample>>
  BY <1>1, ReadFacts
<1>3. PICK x : x = NextLine' /\ Stands(x) /\ Follows(l, x)
  BY <1>1, ReadFacts
<1>4. /\ abs_base' = IF HoldsRunData \/ abs_base = NoStep THEN 0 ELSE abs_base
      /\ max_steps' = l.n /\ stated_max_steps' = l.n /\ spoken' = (l.m = 0)
  BY DEF ReadHeader
<1>5. \/ /\ HoldsRunData
         /\ step' = 0 /\ loss' = FALSE /\ step_history' = FALSE /\ last_bar_step' = NoStep
         /\ last_bar_total' = 0 /\ chunked_bar' = FALSE /\ step_from_reported_line' = FALSE
         /\ base_from_line' = FALSE /\ cadence_rebase' = FALSE /\ resume_start' = NoStep
         /\ saw_reported_step_time' = FALSE /\ last_step_seen' = NoStep
         /\ anchor_is_baseline' = FALSE /\ last_note_at' = FALSE /\ paused' = FALSE
      \/ /\ ~HoldsRunData
         /\ UNCHANGED <<step, loss, step_history, last_bar_step, last_bar_total,
                        chunked_bar, step_from_reported_line, base_from_line,
                        cadence_rebase, resume_start, cadenceVars>>
  BY DEF ReadHeader
<1>6. /\ l.n \in Nat /\ l.m \in Nat /\ l.pos \in Nat /\ End \in Nat /\ style \in Headed
      /\ l.n = End - l.pos /\ l.m = l.pos /\ l.pos < End
  BY <1>2, StepsAssumption DEF Printed
<1> HIDE DEF l
<1>7. ~HoldsRunData => abs_base = NoStep /\ l.pos = 0 /\ Untouched
  <2>1. ~HoldsRunData => ~(stated_max_steps > 0)
    BY DEF HoldsRunData
  <2>2. ~HoldsRunData => abs_base = NoStep
    BY <1>6, <2>1 DEF StepsIInv, ReaderKnows
  <2>3. ~HoldsRunData => Untouched
    BY <1>6, <2>2 DEF StepsIInv, ReaderKnows
  <2>4. abs_base = NoStep => l.pos = 0
    BY <1>2, <1>6 DEF Ready, ReadyForStart
  <2>5. QED
    BY <2>2, <2>3, <2>4
<1>8. /\ abs_base' = 0 /\ step' = 0 /\ ~loss' /\ last_bar_step' = NoStep
      /\ ~step_from_reported_line' /\ ~base_from_line' /\ ~cadence_rebase' /\ resume_start' = NoStep
      /\ ~saw_reported_step_time' /\ last_step_seen' = NoStep
  <2>1. CASE HoldsRunData
    BY <1>4, <1>5, <2>1
  <2>2. CASE ~HoldsRunData
    BY <1>4, <1>5, <1>7, <2>2 DEF Untouched, cadenceVars
  <2>3. QED
    BY <2>1, <2>2
<1>9. /\ style' = style /\ launches' = launches /\ polled' = polled /\ prompt' = prompt
      /\ broken' = broken /\ sample' = sample /\ abs_base' # NoStep
  BY <1>2, <1>8, StepsAssumption DEF trainerVars
<1>10. StepsTypeOK'
  <2>1. /\ step_history' \in BOOLEAN /\ chunked_bar' \in BOOLEAN /\ anchor_is_baseline' \in BOOLEAN
        /\ last_note_at' \in BOOLEAN /\ paused' \in BOOLEAN
    <3>1. CASE HoldsRunData
      BY <1>5, <3>1
    <3>2. CASE ~HoldsRunData
      BY <1>5, <3>2, StepsIsTyped DEF cadenceVars
    <3>3. QED
      BY <3>1, <3>2
  <2>2. spoken' \in BOOLEAN /\ last_bar_total' \in Nat
    BY <1>4, <1>5, StepsIsTyped
  <2>3. /\ loss' \in BOOLEAN /\ step_from_reported_line' \in BOOLEAN /\ base_from_line' \in BOOLEAN
        /\ cadence_rebase' \in BOOLEAN /\ saw_reported_step_time' \in BOOLEAN
    <3>1. CASE HoldsRunData
      BY <1>5, <3>1
    <3>2. CASE ~HoldsRunData
      BY <1>5, <3>2, StepsIsTyped DEF cadenceVars
    <3>3. QED
      BY <3>1, <3>2
  <2>4. QED
    BY <1>2, <1>4, <1>6, <1>8, <2>1, <2>2, <2>3 DEF StepsIInv, StepsTypeOK, trainerVars
<1>10a. spoken' <=> l.m = 0
  BY <1>4
<1>11. ReaderKnows'
  <2>1. stated_max_steps' > 0 /\ (spoken' => stated_max_steps' = End)
    BY <1>4, <1>6, <1>10a
  <2>2. style' \in Headed /\ style' \notin {"counted", "lines", "blind", "whole"}
    BY <1>6, <1>9 DEF Headed
  <2>3. QED
    BY <1>4, <1>8, <1>9, <2>1, <2>2 DEF ReaderKnows
<1>12. StepFromBase'
  BY <1>8, <1>9, MarksFacts DEF StepFromBase, Marks
<1>13. NothingRead'
  BY <1>2, <1>9 DEF NothingRead
<1>14. TimedPairs'
  BY <1>1, PairsMoveUp
<1>15. \/ x.kind \in {"off", "header"}
       \/ l.pos > 0 /\ x.kind = "resume" /\ x.pos = l.pos
       \/ l.pos = 0 /\ Begins(l.pos, x)
  BY <1>2, <1>3 DEF Follows
<1>16. /\ x.n \in Nat /\ x.pos \in Nat /\ style \notin {"lines", "whole", "blind"}
       /\ x.kind \notin {"max", "boundary", "done", "step", "time"}
  BY <1>3, <1>6, <1>15 DEF Stands, Headed, Begins
<1>17. Ready(x)'
  <2>1. ReadyForStart(x)'
    <3>1. ~spoken' => l.pos > 0
      BY <1>6, <1>10a
    <3>2. x.kind = "resume" => ~spoken'
      BY <1>6, <1>15, <1>10a DEF Begins
    <3>3. l.pos > 0 => x.kind \in {"resume", "header", "off"}
      BY <1>6, <1>15
    <3>4. style' # "counted"
      BY <1>6, <1>9 DEF Headed
    <3>5. QED
      BY <1>8, <1>9, <1>16, <3>1, <3>2, <3>3, <3>4 DEF ReadyForStart
  <2>2. ReadyForBar(x)'
    <3>1. x.kind = "frame" => NextBase(x.n)' = x.pos - x.n
      BY <1>8, <1>15 DEF Begins, NextBase
    <3>2. x.kind = "train" => x.n = 0 /\ NextBase(1)' = x.pos
      BY <1>8, <1>15 DEF Begins, NextBase
    <3>3. QED
      BY <1>16, <3>1, <3>2 DEF ReadyForBar
  <2>3. ReadyForBlind(x)'
    BY <1>9, <1>16 DEF ReadyForBlind
  <2>4. ReadyForTimed(x)'
    BY <1>8, <1>15, <1>16 DEF ReadyForTimed, Begins
  <2>5. ReadyForLine(x)'
    BY <1>9, <1>16 DEF ReadyForLine
  <2>6. QED
    BY <2>1, <2>2, <2>3, <2>4, <2>5 DEF Ready
<1>18. Ready(NextLine)'
  BY <1>3, <1>17, ReadyNext
<1>19. CadenceOK'
  BY <1>8 DEF CadenceOK
<1>20. ProgressIsTheRuns'
  BY <1>8 DEF ProgressIsTheRuns, Shown
<1>21. QED
  BY <1>2, <1>10, <1>11, <1>12, <1>13, <1>14, <1>18, <1>19, <1>20 DEF StepsIInv

\* A resume line: the base and the step are the checkpoint's.
LEMMA ReadResumePreserves ==
  ASSUME StepsIInv, ReadResume
  PROVE  StepsIInv'
<1> DEFINE l == Head(unread)
<1>1. Reads("resume")
  BY DEF ReadResume
<1>2. /\ l.kind = "resume" /\ Printed(l) /\ Ready(l) /\ TrainerIsOrderly' /\ LinesFollow'
      /\ unread' \in Seq(LineType) /\ at' \in Nat /\ at' = l.pos
      /\ launches # 0 /\ UNCHANGED trainerVars
      /\ UNCHANGED <<polled, prompt, broken, sample>>
  BY <1>1, ReadFacts
<1>3. PICK x : x = NextLine' /\ Stands(x) /\ Follows(l, x)
  BY <1>1, ReadFacts
<1>4. /\ resume_start' = l.n /\ abs_base' = l.n /\ step' = IF step > l.n THEN step ELSE l.n
      /\ max_steps' = l.m /\ stated_max_steps' = l.m
      /\ base_from_line' = TRUE /\ spoken' = TRUE
      /\ UNCHANGED <<loss, last_bar_step, last_bar_total, chunked_bar,
                     step_from_reported_line, cadence_rebase, step_history, cadenceVars>>
  BY DEF ReadResume
<1>5. /\ l.n \in Nat /\ l.n = l.pos /\ l.m = End /\ l.pos \in Nat /\ l.pos <= End /\ 0 < l.pos
      /\ End \in Nat /\ style \in Headed /\ Marks(l.pos)
  BY <1>2, StepsAssumption DEF Printed
<1>6. /\ step = 0 /\ ~loss /\ last_bar_step = NoStep /\ ~step_from_reported_line
      /\ ~saw_reported_step_time /\ last_step_seen = NoStep
  BY <1>2 DEF Ready, ReadyForStart
<1> HIDE DEF l
<1>7. /\ style' = style /\ launches' = launches /\ polled' = polled /\ prompt' = prompt
      /\ broken' = broken /\ sample' = sample /\ abs_base' = l.pos /\ step' = l.pos
      /\ abs_base' # NoStep
  BY <1>2, <1>4, <1>5, <1>6, StepsAssumption DEF trainerVars
<1>8. StepsTypeOK'
  BY <1>2, <1>4, <1>5, <1>7 DEF StepsIInv, StepsTypeOK, trainerVars, cadenceVars
<1>9. ReaderKnows'
  BY <1>4, <1>5, <1>6, <1>7, StepsAssumption DEF ReaderKnows, Headed
<1>10. StepFromBase'
  BY <1>4, <1>7 DEF StepFromBase
<1>11. NothingRead'
  BY <1>2, <1>7 DEF NothingRead
<1>12. TimedPairs'
  BY <1>1, PairsMoveUp
<1>13. x.kind \in {"off", "header"} \/ Begins(l.pos, x)
  BY <1>2, <1>3 DEF Follows
<1>14. /\ x.n \in Nat /\ x.pos \in Nat /\ style \notin {"lines", "whole", "blind"}
       /\ x.kind \notin {"max", "boundary", "done", "step", "time", "resume"}
  BY <1>3, <1>5, <1>13 DEF Stands, Headed, Begins
<1>15. Ready(x)'
  <2>1. ReadyForStart(x)'
    BY <1>4, <1>5, <1>7, <1>14 DEF ReadyForStart, Headed
  <2>2. ReadyForBar(x)'
    <3>1. x.kind = "frame" => NextBase(x.n)' = x.pos - x.n
      BY <1>4, <1>5, <1>7, <1>13 DEF Begins, NextBase
    <3>2. x.kind = "train" => x.n = 0 /\ NextBase(1)' = x.pos
      BY <1>4, <1>7, <1>13 DEF Begins, NextBase
    <3>3. QED
      BY <1>14, <3>1, <3>2 DEF ReadyForBar
  <2>3. ReadyForBlind(x)'
    BY <1>7, <1>14 DEF ReadyForBlind
  <2>4. ReadyForTimed(x)'
    BY <1>4, <1>5, <1>6, <1>7, <1>13, <1>14 DEF ReadyForTimed, Begins
  <2>5. ReadyForLine(x)'
    BY <1>7, <1>14 DEF ReadyForLine
  <2>6. QED
    BY <2>1, <2>2, <2>3, <2>4, <2>5 DEF Ready
<1>16. Ready(NextLine)'
  BY <1>3, <1>15, ReadyNext
<1>17. CadenceOK'
  <2>1. last_step_seen' = NoStep /\ ~step_from_reported_line' /\ ~saw_reported_step_time'
    BY <1>4, <1>6 DEF cadenceVars
  <2>2. QED
    BY <2>1 DEF CadenceOK
<1>18. ProgressIsTheRuns'
  BY <1>2, <1>4, <1>5, <1>7 DEF ProgressIsTheRuns
<1>19. QED
  BY <1>2, <1>8, <1>9, <1>10, <1>11, <1>12, <1>16, <1>17, <1>18 DEF StepsIInv

\* A budget, the first line of its run.
LEMMA ReadMaxStepsPreserves ==
  ASSUME StepsIInv, ReadMaxSteps
  PROVE  StepsIInv'
<1> DEFINE l == Head(unread)
<1>1. Reads("max")
  BY DEF ReadMaxSteps
<1>2. /\ l.kind = "max" /\ Printed(l) /\ Ready(l) /\ TrainerIsOrderly' /\ LinesFollow'
      /\ unread' \in Seq(LineType) /\ at' \in Nat /\ at' = l.pos
      /\ launches # 0 /\ UNCHANGED trainerVars
      /\ UNCHANGED <<polled, prompt, broken, sample>>
  BY <1>1, ReadFacts
<1>3. PICK x : x = NextLine' /\ Stands(x) /\ Follows(l, x)
  BY <1>1, ReadFacts
<1>4. /\ max_steps' = l.n /\ stated_max_steps' = l.n
      /\ UNCHANGED <<step, loss, last_bar_step, last_bar_total, chunked_bar,
                     step_from_reported_line, abs_base, base_from_line,
                     cadence_rebase, resume_start, step_history, cadenceVars, spoken>>
  BY DEF ReadMaxSteps
<1>5. l.n = End /\ l.pos = 0 /\ End \in Nat /\ End > 0 /\ style \in {"counted", "lines"}
  BY <1>2, StepsAssumption DEF Printed
<1>6. Untouched
  BY <1>2 DEF Ready, ReadyForStart
<1> HIDE DEF l
<1>7. /\ style' = style /\ launches' = launches /\ polled' = polled /\ prompt' = prompt
      /\ broken' = broken /\ sample' = sample
      /\ step' = step /\ loss' = loss /\ abs_base' = abs_base /\ spoken' = spoken
      /\ resume_start' = resume_start /\ last_step_seen' = last_step_seen
      /\ step_from_reported_line' = step_from_reported_line
  BY <1>2, <1>4 DEF trainerVars, cadenceVars
<1>8. StepsTypeOK'
  BY <1>2, <1>4, <1>5 DEF StepsIInv, StepsTypeOK, trainerVars, cadenceVars
<1>9. style \notin {"harness", "timed", "blind", "whole"}
  BY <1>5
<1>10. ReaderKnows'
  BY <1>4, <1>5, <1>6, <1>7, <1>9 DEF ReaderKnows, Headed, Untouched
<1>11. StepFromBase'
  BY <1>6, <1>7 DEF StepFromBase, Untouched
<1>12. NothingRead'
  BY <1>2, <1>7, <1>9 DEF NothingRead, Headed
<1>13. TimedPairs'
  BY <1>1, PairsMoveUp
<1>14. /\ x.kind \in {"off", "header"} \/ Begins(0, x)
       /\ x.kind \notin {"resume", "max", "boundary", "time"}
  BY <1>2, <1>3, <1>5 DEF Follows, Begins
<1>15. Ready(x)'
  <2>1. ReadyForStart(x)'
    BY <1>4, <1>5, <1>6, <1>7, <1>9, <1>14 DEF ReadyForStart, Headed, Untouched
  <2>2. ReadyForBar(x)'
    BY <1>6, <1>7, <1>14 DEF ReadyForBar, Counts, Untouched, Begins
  <2>3. ReadyForBlind(x)' /\ ReadyForTimed(x)'
    BY <1>7, <1>9 DEF ReadyForBlind, ReadyForTimed
  <2>4. ReadyForLine(x)'
    BY <1>6, <1>7, <1>14 DEF ReadyForLine, Untouched, Begins
  <2>5. QED
    BY <2>1, <2>2, <2>3, <2>4 DEF Ready
<1>16. Ready(NextLine)'
  BY <1>3, <1>15, ReadyNext
<1>17. CadenceOK'
  BY <1>6, <1>7, <1>9 DEF CadenceOK, Untouched
<1>18. ProgressIsTheRuns'
  BY <1>6, <1>7 DEF ProgressIsTheRuns, Shown, Untouched
<1>19. QED
  BY <1>2, <1>8, <1>10, <1>11, <1>12, <1>13, <1>16, <1>17, <1>18 DEF StepsIInv

\* A line with the position: the base is the step, and a new anchor is asked
\* for wherever a bar has been seen.
LEMMA ReadStepPreserves ==
  ASSUME StepsIInv, ReadStep
  PROVE  StepsIInv'
<1> DEFINE l == Head(unread)
<1>1. Reads("step")
  BY DEF ReadStep
<1>2. /\ l.kind = "step" /\ Printed(l) /\ Ready(l) /\ TrainerIsOrderly' /\ LinesFollow'
      /\ unread' \in Seq(LineType) /\ at' \in Nat /\ at' = l.pos
      /\ launches # 0 /\ UNCHANGED trainerVars
      /\ UNCHANGED <<polled, prompt, broken, sample>>
  BY <1>1, ReadFacts
<1>3. PICK x : x = NextLine' /\ Stands(x) /\ Follows(l, x)
  BY <1>1, ReadFacts
<1>4. /\ abs_base' = l.n /\ base_from_line' = TRUE /\ step' = l.n /\ loss' = TRUE
      /\ cadence_rebase' = (cadence_rebase \/ last_bar_step # NoStep)
      /\ UNCHANGED <<max_steps, stated_max_steps, last_bar_step, last_bar_total,
                     chunked_bar, resume_start, spoken>>
      /\ UNCHANGED <<step_from_reported_line, step_history, cadenceVars>>
  BY DEF ReadStep, Absolute
<1>5. /\ l.n = l.pos /\ l.pos \in Nat /\ End \in Nat /\ style \notin {"whole", "blind"}
      /\ style \in AllStyles
  BY <1>2, StepsAssumption DEF Printed, StepsIInv, StepsTypeOK
<1>6. /\ spoken /\ (style \in Headed => abs_base # NoStep)
      /\ style = "counted" => stated_max_steps = End
  BY <1>2 DEF Ready, ReadyForStart
<1>7. style = "timed" => step_from_reported_line
  BY <1>2 DEF Ready, ReadyForTimed
<1>8. Counts => last_bar_step # NoStep
  BY <1>2 DEF Ready, ReadyForBar
<1>9. style = "lines" => l.pos = step + 1
  BY <1>2 DEF Ready, ReadyForLine
<1> HIDE DEF l
<1>10. /\ style' = style /\ launches' = launches /\ polled' = polled /\ prompt' = prompt
       /\ broken' = broken /\ sample' = sample /\ paused' = paused
       /\ step' = l.pos /\ abs_base' = l.pos /\ abs_base' # NoStep
       /\ max_steps' = max_steps /\ stated_max_steps' = stated_max_steps
       /\ spoken' = spoken /\ resume_start' = resume_start /\ last_bar_step' = last_bar_step
       /\ last_step_seen' = last_step_seen /\ anchor_is_baseline' = anchor_is_baseline
       /\ last_note_at' = last_note_at
       /\ step_from_reported_line' = step_from_reported_line
       /\ saw_reported_step_time' = saw_reported_step_time
  BY <1>2, <1>4, <1>5, StepsAssumption DEF trainerVars, cadenceVars
<1>11. StepsTypeOK'
  <2>1. cadence_rebase' \in BOOLEAN
    BY <1>4, Zenon
  <2>2. QED
    BY <1>2, <1>4, <1>5, <2>1 DEF StepsIInv, StepsTypeOK, trainerVars, cadenceVars
<1>12. ReaderKnows'
  BY <1>4, <1>5, <1>6, <1>10 DEF StepsIInv, ReaderKnows
<1>13. StepFromBase'
  BY <1>4, <1>10 DEF StepFromBase
<1>14. NothingRead'
  BY <1>2, <1>10 DEF NothingRead
<1>15. TimedPairs'
  BY <1>1, PairsMoveUp
<1>16. /\ x.kind \in {"off", "header"} \/ Continues(l, x)
       /\ x.pos \in Nat /\ x.n \in Nat
  BY <1>2, <1>3 DEF Follows, Stands
<1>17. x.kind \notin {"resume", "max", "time"}
  BY <1>2, <1>5, <1>16 DEF Continues, Begins
<1>18. Ready(x)'
  <2>1. ReadyForStart(x)'
    BY <1>6, <1>10, <1>17 DEF ReadyForStart
  <2>2. ReadyForBar(x)'
    <3> SUFFICES ASSUME Counts
                 PROVE  ReadyForBar(x)'
      BY <1>10 DEF ReadyForBar, Counts
    <3>1. x.kind \in {"off", "header", "done"} \/ Begins(l.pos, x)
      BY <1>2, <1>16 DEF Continues, Counts
    <3>2. x.kind # "step" /\ x.kind # "boundary"
      BY <3>1 DEF Begins, Counts
    <3>3. x.kind = "frame" => NextBase(x.n)' = x.pos - x.n
      BY <1>4, <1>5, <1>10, <3>1 DEF Begins, NextBase
    <3>4. x.kind = "train" => x.n = 0 /\ NextBase(1)' = x.pos
      BY <1>4, <1>10, <3>1 DEF Begins, NextBase
    <3>5. QED
      BY <3>2, <3>3, <3>4 DEF ReadyForBar
  <2>3. ReadyForBlind(x)'
    BY <1>5, <1>10 DEF ReadyForBlind
  <2>4. ReadyForTimed(x)'
    <3> SUFFICES ASSUME style = "timed"
                 PROVE  ReadyForTimed(x)'
      BY <1>10 DEF ReadyForTimed
    <3>1. x.kind = "frame" => x.pos = l.pos + 1
      BY <1>2, <1>16 DEF Continues, Bars
    <3>2. x.kind \in {"train", "boundary"} => x.pos = l.pos
      BY <1>2, <1>16 DEF Continues, Bars
    <3>3. QED
      BY <1>5, <1>7, <1>10, <3>1, <3>2 DEF ReadyForTimed
  <2>5. ReadyForLine(x)'
    <3>1. style = "lines" /\ x.kind = "step" => x.pos = l.pos + 1
      BY <1>2, <1>16 DEF Continues, Bars
    <3>2. style = "lines" /\ x.kind \in {"train", "boundary"} => x.pos = l.pos
      BY <1>2, <1>16 DEF Continues, Bars
    <3>3. QED
      BY <1>10, <1>17, <3>1, <3>2 DEF ReadyForLine
  <2>6. QED
    BY <2>1, <2>2, <2>3, <2>4, <2>5 DEF Ready
<1>19. Ready(NextLine)'
  BY <1>3, <1>18, ReadyNext
<1>20. CadenceOK'
  <2>1. style # "timed" /\ ~cadence_rebase' => style = "lines" /\ ~cadence_rebase
    BY <1>4, <1>5, <1>8 DEF Counts, AllStyles
  <2>2. ASSUME style = "lines", ~cadence_rebase, ~paused, last_step_seen # NoStep
        PROVE  last_step_seen <= l.pos /\ (anchor_is_baseline \/ prompt)
    <3>1. abs_base # NoStep
      BY <2>2 DEF StepsIInv, ReaderKnows
    <3>2. last_step_seen <= step /\ (anchor_is_baseline \/ prompt)
      BY <2>2, <3>1 DEF StepsIInv, CadenceOK
    <3>3. last_step_seen \in Nat /\ step \in Nat
      BY <2>2 DEF StepsIInv, StepsTypeOK
    <3>4. QED
      BY <1>5, <1>9, <2>2, <3>2, <3>3
  <2>3. Counts => cadence_rebase'
    BY <1>4, <1>8
  <2>4. /\ last_step_seen # NoStep => last_note_at
        /\ last_step_seen # NoStep /\ (~polled \/ broken) => paused
        /\ style = "timed" => (step_from_reported_line <=> saw_reported_step_time)
    BY DEF StepsIInv, CadenceOK
  <2>5. style' # "timed" /\ abs_base' # NoStep /\ ~cadence_rebase' /\ ~paused' /\ last_step_seen' # NoStep =>
          last_step_seen' <= step' /\ (anchor_is_baseline' \/ prompt')
    BY <1>10, <2>1, <2>2
  <2>6. Counts' => cadence_rebase'
    BY <1>10, <2>3 DEF Counts
  <2>7. QED
    BY <1>7, <1>10, <2>4, <2>5, <2>6 DEF CadenceOK
<1>21. ProgressIsTheRuns'
  <2>1. style' = "blind" \/ max_steps' \in {0, End}
    BY <1>5, <1>6, <1>10, <1>12 DEF ReaderKnows, AllStyles, Headed
  <2>2. QED
    BY <1>2, <1>10, <2>1 DEF ProgressIsTheRuns
<1>22. QED
  BY <1>2, <1>11, <1>12, <1>13, <1>14, <1>15, <1>19, <1>20, <1>21 DEF StepsIInv

\* A line with the position and its time.
LEMMA ReadTimedStepPreserves ==
  ASSUME StepsIInv, ReadTimedStep
  PROVE  StepsIInv'
<1> DEFINE l == Head(unread)
<1>1. Reads("timed")
  BY DEF ReadTimedStep
<1>2. /\ l.kind = "timed" /\ Printed(l) /\ Ready(l) /\ TrainerIsOrderly' /\ LinesFollow'
      /\ unread' \in Seq(LineType) /\ at' \in Nat /\ at' = l.pos
      /\ launches # 0 /\ UNCHANGED trainerVars
      /\ UNCHANGED <<polled, prompt, broken, sample>>
  BY <1>1, ReadFacts
<1>3. PICK x : x = NextLine' /\ Stands(x) /\ Follows(l, x)
  BY <1>1, ReadFacts
<1>4. /\ abs_base' = l.n /\ base_from_line' = TRUE /\ step' = l.n /\ loss' = TRUE
      /\ cadence_rebase' = (cadence_rebase \/ last_bar_step # NoStep)
      /\ UNCHANGED <<max_steps, stated_max_steps, last_bar_step, last_bar_total,
                     chunked_bar, resume_start, spoken>>
      /\ step_from_reported_line' = TRUE /\ saw_reported_step_time' = TRUE /\ step_history' = TRUE
      /\ UNCHANGED <<last_step_seen, anchor_is_baseline, last_note_at, paused>>
  BY DEF ReadTimedStep, Absolute, TimeReported
<1>5. l.n = l.pos /\ l.pos \in Nat /\ style = "timed"
  BY <1>2 DEF Printed
<1>6. spoken /\ abs_base # NoStep
  BY <1>2, <1>5 DEF Ready, ReadyForStart, Headed
<1> HIDE DEF l
<1>7. /\ style' = "timed" /\ launches' = launches /\ polled' = polled /\ prompt' = prompt
      /\ broken' = broken /\ sample' = sample /\ paused' = paused
      /\ step' = l.pos /\ abs_base' = l.pos /\ abs_base' # NoStep
      /\ max_steps' = max_steps /\ stated_max_steps' = stated_max_steps
      /\ spoken' = spoken /\ last_step_seen' = last_step_seen /\ last_note_at' = last_note_at
  BY <1>2, <1>4, <1>5, StepsAssumption DEF trainerVars
<1>8. StepsTypeOK'
  <2>1. cadence_rebase' \in BOOLEAN
    BY <1>4, Zenon
  <2>2. QED
    BY <1>2, <1>4, <1>5, <2>1 DEF StepsIInv, StepsTypeOK, trainerVars
<1>9. ReaderKnows'
  BY <1>4, <1>5, <1>6, <1>7 DEF StepsIInv, ReaderKnows, Headed
<1>10. StepFromBase'
  BY <1>4, <1>7 DEF StepFromBase
<1>11. NothingRead'
  BY <1>2, <1>7 DEF NothingRead
<1>12. TimedPairs'
  BY <1>1, <1>2, <1>4, <1>7, PairsMoveUp
<1>13. /\ x.kind \notin {"resume", "max", "time"} /\ x.pos \in Nat
       /\ x.kind = "frame" => x.pos \in {l.pos, l.pos + 1}
       /\ x.kind \in {"train", "boundary"} => x.pos = l.pos
  BY <1>2, <1>3, <1>5 DEF Follows, Stands, Continues, Bars
<1>14. Ready(x)'
  <2>1. ReadyForStart(x)'
    BY <1>6, <1>7, <1>13 DEF ReadyForStart
  <2>2. ReadyForBar(x)' /\ ReadyForBlind(x)'
    BY <1>7 DEF ReadyForBar, ReadyForBlind, Counts
  <2>3. ReadyForTimed(x)'
    BY <1>4, <1>5, <1>7, <1>13 DEF ReadyForTimed
  <2>4. ReadyForLine(x)'
    BY <1>7, <1>13 DEF ReadyForLine
  <2>5. QED
    BY <2>1, <2>2, <2>3, <2>4 DEF Ready
<1>15. Ready(NextLine)'
  BY <1>3, <1>14, ReadyNext
<1>16. CadenceOK'
  <2>1. /\ last_step_seen # NoStep => last_note_at
        /\ last_step_seen # NoStep /\ (~polled \/ broken) => paused
    BY DEF StepsIInv, CadenceOK
  <2>2. QED
    BY <1>4, <1>7, <2>1 DEF CadenceOK, Counts
<1>17. ProgressIsTheRuns'
  BY <1>2, <1>5, <1>6, <1>7, <1>9 DEF ProgressIsTheRuns, ReaderKnows, Headed
<1>18. QED
  BY <1>2, <1>8, <1>9, <1>10, <1>11, <1>12, <1>15, <1>16, <1>17 DEF StepsIInv

\* A line with a time only.
LEMMA ReadTimePreserves ==
  ASSUME StepsIInv, ReadTime
  PROVE  StepsIInv'
<1> DEFINE l == Head(unread)
<1>1. Reads("time")
  BY DEF ReadTime
<1>2. /\ l.kind = "time" /\ Printed(l) /\ Ready(l) /\ TrainerIsOrderly' /\ LinesFollow'
      /\ unread' \in Seq(LineType) /\ at' \in Nat /\ at' = l.pos
      /\ launches # 0 /\ UNCHANGED trainerVars
      /\ UNCHANGED <<polled, prompt, broken, sample>>
  BY <1>1, ReadFacts
<1>3. PICK x : x = NextLine' /\ Stands(x) /\ Follows(l, x)
  BY <1>1, ReadFacts
<1>4. /\ saw_reported_step_time' = TRUE /\ step_history' = TRUE
      /\ UNCHANGED <<last_step_seen, anchor_is_baseline, last_note_at, paused>>
      /\ UNCHANGED <<step, loss, max_steps, stated_max_steps, last_bar_step,
                     last_bar_total, chunked_bar, step_from_reported_line, abs_base,
                     base_from_line, cadence_rebase, resume_start, spoken>>
  BY DEF ReadTime, TimeReported
<1>5. style = "whole"
  BY <1>2 DEF Printed
<1>6. loss /\ step = l.pos
  BY <1>2 DEF Ready, ReadyForLine
<1>7. abs_base = NoStep /\ spoken
  BY <1>5 DEF StepsIInv, ReaderKnows, Headed
<1> HIDE DEF l
<1>8. /\ style' = style /\ style' = "whole" /\ launches' = launches /\ polled' = polled
      /\ prompt' = prompt /\ broken' = broken /\ sample' = sample /\ paused' = paused
      /\ step' = step /\ loss' = loss /\ abs_base' = NoStep /\ max_steps' = max_steps
      /\ stated_max_steps' = stated_max_steps /\ spoken' = spoken /\ resume_start' = resume_start
      /\ step_from_reported_line' = step_from_reported_line
      /\ last_step_seen' = last_step_seen /\ last_note_at' = last_note_at
  BY <1>2, <1>4, <1>5, <1>7 DEF trainerVars
<1>9. StepsTypeOK'
  BY <1>2, <1>4 DEF StepsIInv, StepsTypeOK, trainerVars
<1>10. ReaderKnows'
  BY <1>5, <1>7, <1>8 DEF StepsIInv, ReaderKnows, Headed
<1>11. StepFromBase'
  BY <1>8 DEF StepFromBase
<1>12. NothingRead'
  BY <1>2, <1>8 DEF NothingRead, Headed
<1>13. TimedPairs'
  BY <1>1, PairsMoveUp
<1>14. x.kind \notin {"resume", "max", "time"}
  BY <1>2, <1>3, <1>5 DEF Follows, Continues, Bars
<1>15. Ready(x)'
  <2>1. ReadyForStart(x)'
    BY <1>7, <1>8, <1>14 DEF ReadyForStart, Headed
  <2>2. ReadyForBar(x)' /\ ReadyForBlind(x)' /\ ReadyForTimed(x)'
    BY <1>8 DEF ReadyForBar, ReadyForBlind, ReadyForTimed, Counts
  <2>3. ReadyForLine(x)'
    BY <1>8, <1>14 DEF ReadyForLine
  <2>4. QED
    BY <2>1, <2>2, <2>3 DEF Ready
<1>16. Ready(NextLine)'
  BY <1>3, <1>15, ReadyNext
<1>17. CadenceOK'
  <2>1. /\ last_step_seen # NoStep => last_note_at
        /\ last_step_seen # NoStep /\ (~polled \/ broken) => paused
    BY DEF StepsIInv, CadenceOK
  <2>2. QED
    BY <1>8, <2>1 DEF CadenceOK, Counts
<1>18. ProgressIsTheRuns'
  BY <1>2, <1>6, <1>8, <1>10 DEF ProgressIsTheRuns, ReaderKnows
<1>19. QED
  BY <1>2, <1>9, <1>10, <1>11, <1>12, <1>13, <1>16, <1>17, <1>18 DEF StepsIInv

-----------------------------------------------------------------------------
\* What a poll and a look away leave alone.
LEMMA TheQueueStands ==
  ASSUME StepsIInv, UNCHANGED <<trainerVars, unread>>, UNCHANGED <<at, spoken>>,
         UNCHANGED <<step, loss, max_steps, stated_max_steps, last_bar_step, last_bar_total,
                     step_from_reported_line, abs_base, base_from_line, resume_start>>
  PROVE  /\ TrainerIsOrderly' /\ LinesFollow' /\ TimedPairs' /\ StepFromBase'
         /\ NextLine' = NextLine /\ style' = style
<1>1. style' = style /\ unread' = unread /\ Here' = Here
  BY DEF trainerVars, Here, Span
<1>2. TrainerIsOrderly'
  BY DEF StepsIInv, TrainerIsOrderly, trainerVars, Span, Marks
<1>3. NextLine' = NextLine
  BY <1>1 DEF NextLine
<1>4. LinesFollow'
  <2>1. \A i : After(i)' = After(i)
    BY <1>1 DEF After
  <2>2. ASSUME NEW i \in 1..Len(unread), NEW l, NEW x, l = unread[i], x = After(i)
        PROVE  Printed(l)' /\ Follows(l, x)'
    <3>1. Printed(l) /\ Follows(l, x)
      BY <2>2 DEF StepsIInv, LinesFollow
    <3>2. QED
      BY <1>1, <3>1, SameStyle
  <2>3. QED
    BY <1>1, <2>1, <2>2 DEF LinesFollow
<1>5. TimedPairs'
  BY <1>1 DEF StepsIInv, TimedPairs
<1>6. StepFromBase'
  BY <1>1 DEF StepsIInv, StepFromBase, Counts, Marks
<1>7. QED
  BY <1>1, <1>2, <1>3, <1>4, <1>5, <1>6

\* A poll that notes the step.  Without a new anchor the old one is taken for
\* what it was: set while polled, and behind the step in its chunk.
LEMMA NotePreserves ==
  ASSUME StepsIInv, Note
  PROVE  StepsIInv'
<1> DEFINE rebase == paused \/ cadence_rebase
           fresh == last_step_seen = NoStep
           back == ~fresh /\ step < last_step_seen
           ahead == ~fresh /\ step > last_step_seen
<1>1. /\ ~NothingToNote /\ last_note_at' = TRUE /\ paused' = FALSE /\ cadence_rebase' = FALSE
      /\ polled' = TRUE /\ chunked_bar' = (chunked_bar \/ back)
      /\ \/ (fresh \/ rebase) /\ Anchor(TRUE)
         \/ ~fresh /\ ~rebase /\ (back \/ ahead) /\ Anchor(FALSE)
         \/ ~fresh /\ ~rebase /\ ~back /\ ~ahead /\ NoAnchor
      /\ UNCHANGED <<trainerVars, unread, step, loss, max_steps, stated_max_steps,
                     last_bar_step, last_bar_total, step_from_reported_line,
                     abs_base, base_from_line, resume_start, saw_reported_step_time>>
      /\ UNCHANGED <<at, spoken>>
  BY DEF Note
<1>2. step_history' \in BOOLEAN /\ sample' \in Nat \cup {NoStep}
  <2>1. sample' = sample \/ sample' = step
    BY DEF Note
  <2>2. step_history' \in BOOLEAN
    BY Zenon DEF Note
  <2>3. QED
    BY <2>1, <2>2 DEF StepsIInv, StepsTypeOK
<1>3. \/ /\ fresh \/ rebase
         /\ last_step_seen' = step /\ anchor_is_baseline' = TRUE /\ broken' = FALSE
      \/ /\ ~fresh /\ ~rebase /\ (back \/ ahead)
         /\ last_step_seen' = step /\ anchor_is_baseline' = FALSE /\ broken' = FALSE
         /\ prompt' = (polled /\ last_step_seen # NoStep /\ step > last_step_seen)
      \/ /\ ~fresh /\ ~rebase /\ ~back /\ ~ahead
         /\ last_step_seen' = last_step_seen /\ anchor_is_baseline' = anchor_is_baseline
         /\ prompt' = prompt /\ broken' = broken
  BY <1>1 DEF Anchor, NoAnchor
<1>4. prompt' \in BOOLEAN
  <2>1. prompt' = prompt \/ prompt' = (polled /\ last_step_seen # NoStep /\ step > last_step_seen)
    BY <1>1 DEF Anchor, NoAnchor
  <2>2. prompt \in BOOLEAN
    BY DEF StepsIInv, StepsTypeOK
  <2>3. QED
    BY <2>1, <2>2, Zenon
<1>5. ~saw_reported_step_time /\ loss
  <2>1. ~saw_reported_step_time /\ (loss \/ (step # 0 /\ resume_start = NoStep))
    BY <1>1 DEF NothingToNote
  <2>2. ~loss => step = 0 \/ resume_start # NoStep
    BY DEF StepsIInv, ReaderKnows
  <2>3. QED
    BY <2>1, <2>2
<1>6. /\ style' = style /\ unread' = unread /\ launches' = launches /\ step' = step /\ loss' = loss
      /\ max_steps' = max_steps /\ stated_max_steps' = stated_max_steps
      /\ last_bar_step' = last_bar_step /\ last_bar_total' = last_bar_total
      /\ abs_base' = abs_base /\ base_from_line' = base_from_line /\ resume_start' = resume_start
      /\ step_from_reported_line' = step_from_reported_line
      /\ saw_reported_step_time' = saw_reported_step_time /\ at' = at /\ spoken' = spoken
  BY <1>1 DEF trainerVars
<1>7. step \in Nat /\ last_step_seen \in Nat \cup {NoStep} /\ NoStep \notin Nat
  BY StepsAssumption DEF StepsIInv, StepsTypeOK
<1>8. chunked_bar' \in BOOLEAN /\ (chunked_bar => chunked_bar')
  <2>1. chunked_bar \in BOOLEAN
    BY StepsIsTyped
  <2>2. chunked_bar' = (chunked_bar \/ back)
    BY <1>1
  <2>3. QED
    BY <2>1, <2>2, Zenon
<1> HIDE DEF rebase, back, ahead
<1>9. StepsTypeOK'
  <2>1. anchor_is_baseline' \in BOOLEAN /\ broken' \in BOOLEAN
    <3>1. anchor_is_baseline \in BOOLEAN /\ broken \in BOOLEAN
      BY DEF StepsIInv, StepsTypeOK
    <3>2. QED
      BY <1>3, <3>1
  <2>2. last_step_seen' \in Nat \cup {NoStep}
    BY <1>3, <1>7
  <2>3. /\ last_note_at' \in BOOLEAN /\ paused' \in BOOLEAN /\ cadence_rebase' \in BOOLEAN
        /\ polled' \in BOOLEAN
    BY <1>1
  <2>4. QED
    BY <1>1, <1>2, <1>4, <1>8, <2>1, <2>2, <2>3 DEF StepsIInv, StepsTypeOK, trainerVars
<1>10. ~Untouched
  BY <1>5 DEF Untouched
<1>11. ReaderKnows'
  BY <1>5, <1>6, <1>10 DEF StepsIInv, ReaderKnows
<1>12. NothingRead'
  BY <1>6, <1>10 DEF StepsIInv, NothingRead
<1>13. /\ TrainerIsOrderly' /\ LinesFollow' /\ TimedPairs' /\ StepFromBase' /\ NextLine' = NextLine
  BY <1>1, TheQueueStands
<1>14. Ready(NextLine)'
  <2> DEFINE x == NextLine
  <2>1. Ready(x) /\ x = NextLine'
    BY <1>13 DEF StepsIInv
  <2> SUFFICES ASSUME NEW y, y = NextLine', Ready(y)
               PROVE  Ready(y)'
    BY <2>1, ReadyNext
  <2>2. ReadyForStart(y)'
    BY <1>1, <1>5, <1>6, <1>10 DEF Ready, ReadyForStart
  <2>3. ReadyForBar(y)'
    BY <1>6 DEF Ready, ReadyForBar, NextBase, Counts
  <2>4. ReadyForBlind(y)'
    BY <1>6, <1>8 DEF Ready, ReadyForBlind
  <2>5. ReadyForTimed(y)'
    BY <1>6 DEF Ready, ReadyForTimed
  <2>6. ReadyForLine(y)'
    BY <1>6 DEF Ready, ReadyForLine
  <2>7. QED
    BY <2>2, <2>3, <2>4, <2>5, <2>6 DEF Ready
<1>15. CadenceOK'
  <2>1. last_step_seen' # NoStep => last_note_at'
    BY <1>1
  <2>2. last_step_seen # NoStep /\ (~polled \/ broken) => paused
    BY DEF StepsIInv, CadenceOK
  <2>3. last_step_seen' # NoStep /\ (~polled' \/ broken') => paused'
    BY <1>1, <1>3, <2>2 DEF rebase
  <2>4. ASSUME style # "timed", abs_base # NoStep
        PROVE  last_step_seen' <= step /\ (anchor_is_baseline' \/ prompt')
    <3>1. ~rebase /\ ~fresh => last_step_seen <= step /\ (anchor_is_baseline \/ prompt) /\ polled
      BY <2>2, <2>4 DEF rebase, StepsIInv, CadenceOK
    <3>2. CASE (fresh \/ rebase) /\ last_step_seen' = step /\ anchor_is_baseline' = TRUE
      BY <1>7, <3>2
    <3>3. CASE ~fresh /\ ~rebase /\ (back \/ ahead) /\ last_step_seen' = step /\ anchor_is_baseline' = FALSE
               /\ prompt' = (polled /\ last_step_seen # NoStep /\ step > last_step_seen)
      <4>1. ~back
        BY <1>7, <3>1, <3>3 DEF back
      <4>2. polled /\ last_step_seen # NoStep /\ step > last_step_seen
        BY <3>1, <3>3, <4>1 DEF ahead
      <4>3. prompt'
        BY <3>3, <4>2, Zenon
      <4>4. QED
        BY <1>7, <3>3, <4>3
    <3>4. CASE ~fresh /\ ~rebase /\ last_step_seen' = last_step_seen
               /\ anchor_is_baseline' = anchor_is_baseline /\ prompt' = prompt
      BY <3>1, <3>4
    <3>5. QED
      BY <1>3, <3>2, <3>3, <3>4
  <2>5. ASSUME Counts, abs_base # NoStep
        PROVE  IF base_from_line THEN anchor_is_baseline' /\ last_step_seen' = step
               ELSE anchor_is_baseline' \/ last_step_seen' > abs_base
    <3>1. ~rebase /\ ~fresh => IF base_from_line THEN anchor_is_baseline /\ last_step_seen = step
                              ELSE anchor_is_baseline \/ last_step_seen > abs_base
      BY <2>5 DEF rebase, StepsIInv, CadenceOK
    <3>2. ~base_from_line => step > abs_base
      BY <1>5, <1>7, <2>5 DEF StepsIInv, StepFromBase, StepsTypeOK
    <3>3. base_from_line /\ ~rebase /\ ~fresh => ~back /\ ~ahead
      BY <1>7, <3>1 DEF back, ahead
    <3>4. QED
      BY <1>3, <3>1, <3>2, <3>3
  <2>6. style = "timed" => step_from_reported_line <=> saw_reported_step_time
    BY DEF StepsIInv, CadenceOK
  <2>7. style = "timed" /\ last_step_seen' # NoStep => last_step_seen' = step
    <3>1. style = "timed" /\ last_step_seen # NoStep => last_step_seen = step
      BY <1>5, <2>6 DEF StepsIInv, CadenceOK
    <3>2. QED
      BY <1>3, <3>1
  <2>8. QED
    BY <1>5, <1>6, <2>1, <2>3, <2>4, <2>5, <2>6, <2>7 DEF CadenceOK, Counts
<1>16. ProgressIsTheRuns'
  <2>1. ChunkLocal(abs_base, chunked_bar, last_bar_total) =>
          ChunkLocal(abs_base, chunked_bar, last_bar_total)'
    BY <1>6, <1>8 DEF ChunkLocal
  <2>2. QED
    BY <1>6, <2>1 DEF StepsIInv, ProgressIsTheRuns, Shown
<1>17. QED
  BY <1>9, <1>11, <1>12, <1>13, <1>14, <1>15, <1>16 DEF StepsIInv

\* The view is left, or polled with nothing to note.
LEMMA LookingPreserves ==
  ASSUME StepsIInv, LookAway \/ NoteNothing
  PROVE  StepsIInv'
<1>1. /\ UNCHANGED <<trainerVars, unread, positionVars, at, spoken, prompt, sample>>
      /\ UNCHANGED <<saw_reported_step_time, last_step_seen, anchor_is_baseline, last_note_at>>
      /\ \/ paused' = last_note_at /\ polled' = FALSE /\ broken' = TRUE
         \/ paused' = paused /\ polled' = TRUE /\ broken' = broken
  BY DEF LookAway, NoteNothing, cadenceVars
<1>2. StepsTypeOK'
  <2>1. paused' \in BOOLEAN /\ polled' \in BOOLEAN /\ broken' \in BOOLEAN
    <3>1. last_note_at \in BOOLEAN /\ paused \in BOOLEAN /\ broken \in BOOLEAN
      BY DEF StepsIInv, StepsTypeOK
    <3>2. QED
      BY <1>1, <3>1
  <2>2. QED
    BY <1>1, <2>1 DEF StepsIInv, StepsTypeOK, trainerVars, positionVars
<1>3. /\ TrainerIsOrderly' /\ LinesFollow' /\ TimedPairs' /\ StepFromBase'
      /\ NextLine' = NextLine /\ style' = style /\ launches' = launches
  BY <1>1, TheQueueStands DEF positionVars, trainerVars
<1>4. ReaderKnows' /\ NothingRead'
  BY <1>1, <1>3 DEF StepsIInv, ReaderKnows, NothingRead, Untouched, positionVars
<1>5. Ready(NextLine)'
  <2> SUFFICES ASSUME NEW y, y = NextLine', Ready(y)
               PROVE  Ready(y)'
    BY <1>3, ReadyNext DEF StepsIInv
  <2>1. QED
    BY <1>1, <1>3 DEF Ready, ReadyForStart, ReadyForBar, ReadyForBlind, ReadyForTimed, ReadyForLine,
                      NextBase, Untouched, Counts, positionVars
<1>6. CadenceOK'
  BY <1>1, <1>3 DEF StepsIInv, CadenceOK, Counts, positionVars
<1>7. ProgressIsTheRuns'
  BY <1>1, <1>3 DEF StepsIInv, ProgressIsTheRuns, Shown, ChunkLocal, positionVars
<1>8. QED
  BY <1>2, <1>3, <1>4, <1>5, <1>6, <1>7 DEF StepsIInv

-----------------------------------------------------------------------------
\* What the trainer prints goes behind what is unread.
LEMMA PrintsBehind ==
  ASSUME StepsIInv, style' = style,
         UNCHANGED <<step, step_from_reported_line>>,
         NEW ls \in Seq(LineType), unread' = unread \o ls,
         NEW h, h = Here', NEW f, f = IF ls = <<>> THEN h ELSE ls[1],
         unread # <<>> => \A y : Printed(y) /\ Follows(y, Here) => Follows(y, f),
         \A j \in 1..Len(ls) : /\ Printed(ls[j])
                               /\ Follows(ls[j], IF j < Len(ls) THEN ls[j + 1] ELSE h),
         style = "timed" =>
           \A j \in 1..Len(ls) : ls[j].kind = "frame" =>
             \/ j < Len(ls) /\ ls[j + 1].kind = "timed" /\ ls[j + 1].pos = ls[j].pos
             \/ j > 1 /\ ls[j - 1].kind = "timed" /\ ls[j - 1].pos = ls[j].pos
  PROVE  /\ LinesFollow' /\ TimedPairs' /\ unread' \in Seq(LineType)
         /\ NextLine' = IF unread = <<>> THEN f ELSE NextLine
         /\ unread' = <<>> => unread = <<>> /\ ls = <<>>
<1> DEFINE n == Len(unread)
           k == Len(ls)
<1>1. n \in Nat /\ k \in Nat /\ (unread = <<>> <=> n = 0) /\ (ls = <<>> <=> k = 0)
  <2>1. n \in Nat /\ (unread = <<>> <=> n = 0)
    BY UnreadFacts DEF StepsIInv
  <2>2. k \in Nat /\ (ls = <<>> <=> k = 0)
    BY EmptySeq, LenProperties
  <2>3. QED
    BY <2>1, <2>2
<1>2. /\ unread' \in Seq(LineType) /\ Len(unread') = n + k
      /\ \A i \in 1..(n + k) : unread'[i] = IF i <= n THEN unread[i] ELSE ls[i - n]
  BY ConcatProperties, UnreadFacts DEF StepsIInv
<1>3. unread' = <<>> <=> n + k = 0
  BY <1>2, EmptySeq, LenProperties
<1> HIDE DEF n, k
<1>4. \A i \in 1..(n + k) :
        /\ i < n => unread'[i] = unread[i] /\ After(i)' = After(i) /\ i \in 1..n
        /\ i = n => unread'[i] = unread[i] /\ After(i)' = f /\ After(i) = Here /\ i \in 1..n
        /\ i > n => /\ i - n \in 1..k /\ unread'[i] = ls[i - n]
                    /\ After(i)' = IF i - n < k THEN ls[(i - n) + 1] ELSE h
  <2> TAKE i \in 1..(n + k)
  <2>1. ASSUME i < n
        PROVE  unread'[i] = unread[i] /\ After(i)' = After(i) /\ i \in 1..n
    <3>1. i + 1 \in 1..(n + k) /\ i + 1 <= n /\ i <= n
      BY <1>1, <2>1
    <3>2. unread'[i] = unread[i] /\ unread'[i + 1] = unread[i + 1]
      BY <1>2, <3>1
    <3>3. i < Len(unread) /\ i < Len(unread') /\ i \in 1..n
      BY <1>1, <1>2, <2>1 DEF n
    <3>4. QED
      BY <3>2, <3>3 DEF After
  <2>2. ASSUME i = n
        PROVE  unread'[i] = unread[i] /\ After(i)' = f /\ After(i) = Here /\ i \in 1..n
    <3>1. unread'[i] = unread[i] /\ i \in 1..n
      BY <1>1, <1>2, <2>2
    <3>2. After(i) = Here
      BY <1>1, <2>2 DEF After, n
    <3>3. CASE k = 0
      <4>1. ~(i < Len(unread')) /\ f = h
        BY <1>1, <1>2, <2>2, <3>3
      <4>2. QED
        BY <3>1, <3>2, <4>1 DEF After
    <3>4. CASE k # 0
      <4>1. i < Len(unread') /\ i + 1 \in 1..(n + k) /\ ~(i + 1 <= n) /\ (i + 1) - n = 1 /\ f = ls[1]
        BY <1>1, <1>2, <2>2, <3>4
      <4>2. unread'[i + 1] = ls[1]
        BY <1>2, <4>1
      <4>3. QED
        BY <3>1, <3>2, <4>1, <4>2 DEF After
    <3>5. QED
      BY <3>3, <3>4
  <2>3. ASSUME i > n
        PROVE  /\ i - n \in 1..k /\ unread'[i] = ls[i - n]
               /\ After(i)' = IF i - n < k THEN ls[(i - n) + 1] ELSE h
    <3>1. i - n \in 1..k /\ unread'[i] = ls[i - n]
      BY <1>1, <1>2, <2>3
    <3>2. CASE i - n < k
      <4>1. i < Len(unread') /\ i + 1 \in 1..(n + k) /\ ~(i + 1 <= n) /\ (i + 1) - n = (i - n) + 1
        BY <1>1, <1>2, <2>3, <3>2
      <4>2. unread'[i + 1] = ls[(i - n) + 1]
        BY <1>2, <4>1
      <4>3. QED
        BY <3>1, <3>2, <4>1, <4>2 DEF After
    <3>3. CASE ~(i - n < k)
      <4>1. ~(i < Len(unread'))
        BY <1>1, <1>2, <2>3, <3>3
      <4>2. QED
        BY <3>1, <3>3, <4>1 DEF After
    <3>4. QED
      BY <3>2, <3>3
  <2>4. QED
    BY <2>1, <2>2, <2>3
<1>5. LinesFollow'
  <2> SUFFICES ASSUME NEW i \in 1..(n + k), NEW l, NEW x, l = unread'[i], x = After(i)'
               PROVE  Printed(l) /\ Follows(l, x)
    BY <1>2, SameStyle DEF LinesFollow
  <2>1. CASE i < n
    BY <1>4, <2>1 DEF StepsIInv, LinesFollow, n
  <2>2. CASE i = n
    <3>1. l = unread[i] /\ x = f /\ After(i) = Here /\ i \in 1..Len(unread) /\ unread # <<>>
      <4>1. l = unread[i] /\ x = f /\ After(i) = Here /\ i \in 1..n
        BY <1>4, <2>2
      <4>2. n # 0
        BY <2>2
      <4>3. QED
        BY <1>1, <4>1, <4>2 DEF n
    <3>2. Printed(l) /\ Follows(l, Here)
      BY <3>1 DEF StepsIInv, LinesFollow
    <3>3. QED
      BY <3>1, <3>2
  <2>3. CASE i > n
    <3>1. i - n \in 1..Len(ls) /\ l = ls[i - n] /\ x = IF i - n < Len(ls) THEN ls[(i - n) + 1] ELSE h
      BY <1>4, <2>3 DEF k
    <3>2. QED
      BY <3>1
  <2>4. i < n \/ i = n \/ i > n
    BY <1>1
  <2>5. QED
    BY <2>1, <2>2, <2>3, <2>4, Zenon
<1>6. TimedPairs'
  <2> SUFFICES ASSUME style = "timed", NEW i \in 1..(n + k), unread'[i].kind = "frame"
               PROVE  \/ i < n + k /\ unread'[i + 1].kind = "timed" /\ unread'[i + 1].pos = unread'[i].pos
                      \/ i > 1 /\ unread'[i - 1].kind = "timed" /\ unread'[i - 1].pos = unread'[i].pos
                      \/ i = 1 /\ step_from_reported_line /\ step = unread'[i].pos
    BY <1>2 DEF TimedPairs
  <2>1. CASE i <= n
    <3>1. unread'[i] = unread[i] /\ i \in 1..n
      BY <1>1, <1>2, <2>1
    <3>2. \/ i < n /\ unread[i + 1].kind = "timed" /\ unread[i + 1].pos = unread[i].pos
          \/ i > 1 /\ unread[i - 1].kind = "timed" /\ unread[i - 1].pos = unread[i].pos
          \/ i = 1 /\ step_from_reported_line /\ step = unread[i].pos
      BY <3>1 DEF StepsIInv, TimedPairs, n
    <3>3. i < n => unread'[i + 1] = unread[i + 1] /\ i < n + k
      <4>1. i < n => i + 1 \in 1..(n + k) /\ i + 1 <= n /\ i < n + k
        BY <1>1
      <4>2. QED
        BY <1>2, <4>1
    <3>4. i > 1 => unread'[i - 1] = unread[i - 1]
      <4>1. i > 1 => i - 1 \in 1..(n + k) /\ i - 1 <= n
        BY <1>1, <2>1
      <4>2. QED
        BY <1>2, <4>1
    <3>5. QED
      BY <3>1, <3>2, <3>3, <3>4
  <2>2. CASE i > n
    <3> DEFINE j == i - n
    <3>1. j \in 1..k /\ unread'[i] = ls[j]
      BY <1>1, <1>2, <2>2
    <3>2. j < k => i < n + k /\ unread'[i + 1] = ls[j + 1]
      <4>1. j < k => i < n + k /\ i + 1 \in 1..(n + k) /\ ~(i + 1 <= n) /\ (i + 1) - n = j + 1
        BY <1>1, <2>2
      <4>2. QED
        BY <1>2, <4>1
    <3>3. j > 1 => i > 1 /\ unread'[i - 1] = ls[j - 1]
      <4>1. j > 1 => i > 1 /\ i - 1 \in 1..(n + k) /\ ~(i - 1 <= n) /\ (i - 1) - n = j - 1
        BY <1>1, <2>2
      <4>2. QED
        BY <1>2, <4>1
    <3> HIDE DEF j
    <3>4. \/ j < k /\ ls[j + 1].kind = "timed" /\ ls[j + 1].pos = ls[j].pos
          \/ j > 1 /\ ls[j - 1].kind = "timed" /\ ls[j - 1].pos = ls[j].pos
      BY <3>1 DEF k
    <3>5. QED
      BY <3>1, <3>2, <3>3, <3>4
  <2>3. i <= n \/ i > n
    BY <1>1
  <2>4. QED
    BY <2>1, <2>2, <2>3, Zenon
<1>7. NextLine' = IF unread = <<>> THEN f ELSE NextLine
  <2>1. CASE n # 0
    <3>1. unread # <<>> /\ unread' # <<>> /\ 1 \in 1..(n + k) /\ 1 <= n
      BY <1>1, <1>3, <2>1
    <3>2. unread'[1] = unread[1]
      BY <1>2, <3>1
    <3>3. Head(unread') = unread'[1] /\ Head(unread) = unread[1]
      BY <1>2, <3>1, UnreadFacts DEF StepsIInv
    <3>4. QED
      BY <3>1, <3>2, <3>3 DEF NextLine
  <2>2. CASE n = 0 /\ k # 0
    <3>1. unread = <<>> /\ unread' # <<>> /\ 1 \in 1..(n + k) /\ ~(1 <= n) /\ 1 - n = 1 /\ f = ls[1]
      BY <1>1, <1>3, <2>2
    <3>2. unread'[1] = ls[1]
      BY <1>2, <3>1
    <3>3. Head(unread') = unread'[1]
      BY <1>2, <3>1
    <3>4. QED
      BY <3>1, <3>2, <3>3 DEF NextLine
  <2>3. CASE n = 0 /\ k = 0
    BY <1>1, <1>3, <2>3 DEF NextLine
  <2>4. QED
    BY <2>1, <2>2, <2>3
<1>8. unread' = <<>> => unread = <<>> /\ ls = <<>>
  BY <1>1, <1>3
<1>9. QED
  BY <1>2, <1>5, <1>6, <1>7, <1>8

\* A step of the trainer leaves the reader alone.
TrainerMoves ==
  /\ style' = style /\ UNCHANGED <<positionVars, cadenceVars, historyVars>>
  /\ phase' \in {"off", "resume", "train", "boundary", "done"}
  /\ pos' \in 0..End /\ chunk' \in 0..End /\ saved' \in 0..End
  /\ launches' \in 0..MaxLaunches /\ launches' # 0
  /\ launches = 0 /\ style \in Headed => unread' # <<>>
  /\ TrainerIsOrderly'

\* f may take the place of what stood behind the last line.
ComesNext(f) ==
  /\ unread # <<>> => \A y : Printed(y) /\ Follows(y, Here) => Follows(y, f)
  /\ unread = <<>> => Ready(f)

\* A step of the trainer keeps the invariant when what it prints follows what
\* was there and what comes after follows that.
LEMMA TrainerPreserves ==
  ASSUME StepsIInv, TrainerMoves,
         NEW ls \in Seq(LineType), unread' = unread \o ls,
         NEW h, h = Here', NEW f, f = IF ls = <<>> THEN h ELSE ls[1], ComesNext(f),
         \A j \in 1..Len(ls) : /\ Printed(ls[j])
                               /\ Follows(ls[j], IF j < Len(ls) THEN ls[j + 1] ELSE h),
         style = "timed" =>
           \A j \in 1..Len(ls) : ls[j].kind = "frame" =>
             \/ j < Len(ls) /\ ls[j + 1].kind = "timed" /\ ls[j + 1].pos = ls[j].pos
             \/ j > 1 /\ ls[j - 1].kind = "timed" /\ ls[j - 1].pos = ls[j].pos
  PROVE  StepsIInv'
<1>1. /\ step' = step /\ loss' = loss /\ max_steps' = max_steps
      /\ stated_max_steps' = stated_max_steps /\ last_bar_step' = last_bar_step
      /\ last_bar_total' = last_bar_total /\ chunked_bar' = chunked_bar
      /\ step_from_reported_line' = step_from_reported_line /\ abs_base' = abs_base
      /\ base_from_line' = base_from_line /\ cadence_rebase' = cadence_rebase
      /\ resume_start' = resume_start /\ step_history' = step_history
      /\ saw_reported_step_time' = saw_reported_step_time /\ last_step_seen' = last_step_seen
      /\ anchor_is_baseline' = anchor_is_baseline /\ last_note_at' = last_note_at
      /\ paused' = paused /\ at' = at /\ spoken' = spoken /\ polled' = polled
      /\ prompt' = prompt /\ broken' = broken /\ sample' = sample
  BY DEF TrainerMoves, positionVars, cadenceVars, historyVars
<1>2. /\ LinesFollow' /\ TimedPairs' /\ unread' \in Seq(LineType)
      /\ NextLine' = IF unread = <<>> THEN f ELSE NextLine
      /\ unread' = <<>> => unread = <<>> /\ ls = <<>>
  BY <1>1, PrintsBehind DEF TrainerMoves, ComesNext
<1>3. StepsTypeOK'
  BY <1>1, <1>2 DEF StepsIInv, StepsTypeOK, TrainerMoves
<1>4. ReaderKnows'
  BY <1>1 DEF StepsIInv, TrainerMoves, ReaderKnows, Untouched
<1>5. StepFromBase'
  BY <1>1 DEF StepsIInv, TrainerMoves, StepFromBase, Counts, Marks
<1>6. NothingRead'
  BY <1>1, <1>2 DEF StepsIInv, TrainerMoves, NothingRead
<1>7. CadenceOK'
  BY <1>1 DEF StepsIInv, TrainerMoves, CadenceOK, Counts
<1>8. ProgressIsTheRuns'
  BY <1>1 DEF StepsIInv, TrainerMoves, ProgressIsTheRuns, Shown, ChunkLocal
<1>9. Ready(NextLine)'
  <2>1. Ready(NextLine')
    <3>1. CASE unread = <<>>
      BY <1>2, <3>1 DEF ComesNext
    <3>2. CASE unread # <<>>
      BY <1>2, <3>2 DEF StepsIInv
    <3>3. QED
      BY <3>1, <3>2
  <2> SUFFICES ASSUME NEW y, y = NextLine', Ready(y)
               PROVE  Ready(y)'
    BY <2>1, ReadyNext
  <2>2. QED
    BY <1>1 DEF TrainerMoves, Ready, ReadyForStart, ReadyForBar, ReadyForBlind, ReadyForTimed, ReadyForLine,
                NextBase, Untouched, Counts
<1>10. QED
  BY <1>2, <1>3, <1>4, <1>5, <1>6, <1>7, <1>8, <1>9 DEF StepsIInv, TrainerMoves

\* The same of a step that prints nothing, one line and two lines.
LEMMA QuietPreserves ==
  ASSUME StepsIInv, TrainerMoves, unread' = unread, NEW h, h = Here', ComesNext(h)
  PROVE  StepsIInv'
<1> DEFINE ls == <<>>
<1>1. unread \in Seq(LineType)
  BY DEF StepsIInv, StepsTypeOK
<1>2. ls \in Seq(LineType) /\ unread' = unread \o ls /\ Len(ls) = 0 /\ ls = <<>>
  BY <1>1, ConcatEmptySeq, EmptySeq
<1>3. 1..Len(ls) = {}
  BY <1>2
<1> HIDE DEF ls
<1>4. QED
  BY <1>2, <1>3, TrainerPreserves

\* One line.
LEMMA OneLinePreserves ==
  ASSUME StepsIInv, TrainerMoves, NEW a \in LineType, unread' = unread \o <<a>>,
         NEW h, h = Here', ComesNext(a), Printed(a), Follows(a, h),
         style = "timed" => a.kind # "frame"
  PROVE  StepsIInv'
<1> DEFINE ls == <<a>>
<1>1. ls \in Seq(LineType) /\ unread' = unread \o ls /\ Len(ls) = 1 /\ ls # <<>> /\ ls[1] = a
  OBVIOUS
<1> HIDE DEF ls
<1>2. \A j \in 1..Len(ls) : ls[j] = a /\ ~(j < Len(ls))
  BY <1>1
<1>3. QED
  BY <1>1, <1>2, TrainerPreserves

\* Two lines.
LEMMA TwoLinesPreserve ==
  ASSUME StepsIInv, TrainerMoves, NEW a \in LineType, NEW b \in LineType,
         unread' = unread \o <<a, b>>, NEW h, h = Here', ComesNext(a),
         Printed(a), Printed(b), Follows(a, b), Follows(b, h),
         style = "timed" => /\ a.pos = b.pos
                            /\ a.kind = "frame" => b.kind = "timed"
                            /\ b.kind = "frame" => a.kind = "timed"
  PROVE  StepsIInv'
<1> DEFINE ls == <<a, b>>
<1>1. /\ ls \in Seq(LineType) /\ unread' = unread \o ls /\ Len(ls) = 2 /\ ls # <<>>
      /\ ls[1] = a /\ ls[2] = b
  OBVIOUS
<1> HIDE DEF ls
<1>2. \A j \in 1..Len(ls) :
        \/ j = 1 /\ j < Len(ls) /\ ls[j] = a /\ ls[j + 1] = b
        \/ j = 2 /\ ~(j < Len(ls)) /\ ls[j] = b /\ ls[j - 1] = a
  <2>1. 1..Len(ls) = {1, 2} /\ 1 + 1 = 2 /\ 2 - 1 = 1 /\ 1 < Len(ls) /\ ~(2 < Len(ls))
    BY <1>1
  <2>2. QED
    BY <1>1, <2>1
<1>3. \A j \in 1..Len(ls) : Printed(ls[j]) /\ Follows(ls[j], IF j < Len(ls) THEN ls[j + 1] ELSE h)
  BY <1>2
<1>4. style = "timed" =>
        \A j \in 1..Len(ls) : ls[j].kind = "frame" =>
          \/ j < Len(ls) /\ ls[j + 1].kind = "timed" /\ ls[j + 1].pos = ls[j].pos
          \/ j > 1 /\ ls[j - 1].kind = "timed" /\ ls[j - 1].pos = ls[j].pos
  BY <1>2
<1>5. QED
  BY <1>1, <1>3, <1>4, TrainerPreserves

\* A process ends.
LEMMA StopPreserves ==
  ASSUME StepsIInv, Stop
  PROVE  StepsIInv'
<1>1. /\ phase # "off" /\ phase' = "off" /\ UNCHANGED <<style, pos, chunk, saved, launches, unread>>
      /\ UNCHANGED <<positionVars, cadenceVars, historyVars>>
  BY DEF Stop
<1>2. launches # 0
  BY <1>1 DEF StepsIInv, TrainerIsOrderly
<1>3. TrainerIsOrderly'
  BY <1>1, <1>2 DEF StepsIInv, TrainerIsOrderly, Span, Marks
<1>4. PICK h : h = Here'
  OBVIOUS
<1>5. h.kind = "off"
  BY <1>1, <1>4 DEF Here
<1>6. \A y : Follows(y, h)
  BY <1>5 DEF Follows
<1>7. unread = <<>> => Ready(h)
  <2> SUFFICES ASSUME unread = <<>>
               PROVE  Ready(h)
    OBVIOUS
  <2>1. Ready(Here) /\ Here.kind # "timed"
    BY DEF StepsIInv, NextLine, Here, StepsTypeOK
  <2>2. QED
    BY <1>5, <2>1 DEF Ready, ReadyForStart, ReadyForBar, ReadyForBlind, ReadyForTimed, ReadyForLine
<1>8. ComesNext(h)
  BY <1>6, <1>7 DEF ComesNext
<1>9. TrainerMoves
  BY <1>1, <1>2, <1>3 DEF StepsIInv, StepsTypeOK, TrainerMoves
<1>10. QED
  BY <1>1, <1>4, <1>8, <1>9, QuietPreserves

\* The resume line follows its header.
LEMMA SayResumedPreserves ==
  ASSUME StepsIInv, SayResumed
  PROVE  StepsIInv'
<1> DEFINE a == Line("resume", pos, End, pos)
<1>1. /\ phase = "resume" /\ phase' = "train" /\ unread' = unread \o <<a>>
      /\ UNCHANGED <<style, pos, chunk, saved, launches, positionVars, cadenceVars, historyVars>>
  BY DEF SayResumed, Prints
<1>2. /\ launches # 0 /\ pos = chunk /\ 0 < pos /\ pos < End /\ style \in Headed
      /\ pos \in Nat /\ End \in Nat /\ Marks(pos)
  BY <1>1, StepsAssumption DEF StepsIInv, TrainerIsOrderly, StepsTypeOK, Headed
<1>3. /\ a.kind = "resume" /\ a.n = pos /\ a.m = End /\ a.pos = pos /\ a \in LineType
  BY <1>2 DEF Line, LineType, LineKind
<1> HIDE DEF a
<1>4. PICK h : h = Here'
  OBVIOUS
<1>5. h.kind = "train" /\ h.n = 0 /\ h.pos = pos
  BY <1>1, <1>2, <1>4 DEF Here
<1>6. TrainerIsOrderly'
  <2>1. 0 < Span' /\ Span' \in Nat
    BY <1>1, <1>2, StepsAssumption DEF Span, StepsIInv, StepsTypeOK
  <2>2. QED
    BY <1>1, <1>2, <2>1 DEF StepsIInv, TrainerIsOrderly, Marks, Headed
<1>7. TrainerMoves
  BY <1>1, <1>2, <1>6 DEF StepsIInv, StepsTypeOK, TrainerMoves
<1>8. Here.kind = "resume" /\ Here.pos = pos
  BY <1>1 DEF Here
<1>9. ComesNext(a)
  <2>1. ASSUME NEW y, Printed(y), Follows(y, Here)
        PROVE  Follows(y, a)
    BY <1>3, <1>8, <2>1 DEF Follows, Begins, Continues
  <2>2. unread = <<>> => Ready(Here)
    BY DEF StepsIInv, NextLine
  <2>3. Ready(Here) => Ready(a)
    BY <1>3, <1>8 DEF Ready, ReadyForStart, ReadyForBar, ReadyForBlind, ReadyForTimed, ReadyForLine
  <2>4. QED
    BY <2>1, <2>2, <2>3 DEF ComesNext
<1>10. Printed(a)
  BY <1>2, <1>3 DEF Printed, LineKind
<1>11. Follows(a, h)
  BY <1>3, <1>5 DEF Follows, Begins
<1>12. QED
  BY <1>1, <1>3, <1>4, <1>7, <1>9, <1>10, <1>11, OneLinePreserves

\* A process begins, with the first line of its style.
LEMMA LaunchPreserves ==
  ASSUME StepsIInv, Launch
  PROVE  StepsIInv'
<1>1. /\ phase = "off" /\ launches < MaxLaunches /\ (launches > 0 => style \in Headed)
      /\ launches' = launches + 1
      /\ UNCHANGED <<style, positionVars, cadenceVars, historyVars>>
  BY DEF Launch
<1>2. PICK from \in {0, saved} :
        /\ from < End /\ pos' = from /\ chunk' = from /\ saved' = from
        /\ phase' = IF from > 0 THEN "resume" ELSE "train"
        /\ CASE style \in Headed -> Prints(<<Line("header", End - from, from, from)>>)
             [] style \in {"counted", "lines"} -> Prints(<<Line("max", End, 0, 0)>>)
             [] OTHER -> UNCHANGED unread
  BY DEF Launch
<1>3. /\ from \in Nat /\ from <= End /\ End \in Nat /\ launches \in Nat /\ MaxLaunches \in Nat
      /\ ChunkLen \in Nat /\ ChunkLen >= 2 /\ style \in AllStyles
  BY <1>2, StepsAssumption DEF StepsIInv, StepsTypeOK
<1>4. launches = 0 => from = 0 /\ unread = <<>> /\ Untouched
  BY <1>2 DEF StepsIInv, TrainerIsOrderly, NothingRead
<1>5. style # "whole" => Marks(from)
  BY <1>2, <1>3, MarksFacts DEF StepsIInv, TrainerIsOrderly
<1>6. style \notin Headed => launches = 0 /\ from = 0
  BY <1>1, <1>3, <1>4
<1>7. /\ 0 < Span' /\ Span' \in Nat
  BY <1>1, <1>2, <1>3 DEF Span
<1>8. TrainerIsOrderly'
  <2>1. /\ pos' = chunk' /\ pos' - chunk' = 0 /\ launches' # 0
        /\ phase' \in {"resume", "train"} /\ (phase' = "resume" => from > 0)
    BY <1>1, <1>2, <1>3
  <2>2. phase' = "resume" => style' \in Headed
    BY <1>1, <1>6, <2>1, <1>3
  <2>3. IF style' = "whole" THEN chunk' = 0 ELSE Marks(chunk)' /\ Marks(saved)'
    BY <1>1, <1>2, <1>5, <1>6 DEF Headed, Marks
  <2>4. QED
    BY <1>2, <1>3, <1>7, <2>1, <2>2, <2>3 DEF TrainerIsOrderly, Marks
<1>9. PICK h : h = Here'
  OBVIOUS
<1>10. h.kind = (IF from > 0 THEN "resume" ELSE "train") /\ h.n = 0 /\ h.pos = from
  BY <1>2, <1>3, <1>9 DEF Here
<1>11. /\ phase' \in {"off", "resume", "train", "boundary", "done"}
       /\ pos' \in 0..End /\ chunk' \in 0..End /\ saved' \in 0..End
       /\ launches' \in 0..MaxLaunches /\ launches' # 0
  BY <1>1, <1>2, <1>3
<1>12. CASE style \in Headed
  <2> DEFINE a == Line("header", End - from, from, from)
  <2>1. unread' = unread \o <<a>>
    <3>1. style \notin {"counted", "lines"}
      BY <1>12 DEF Headed
    <3>2. QED
      BY <1>2, <1>12, <3>1 DEF Prints
  <2>2. a.kind = "header" /\ a.n = End - from /\ a.m = from /\ a.pos = from /\ a \in LineType
    BY <1>2, <1>3 DEF Line, LineType, LineKind
  <2> HIDE DEF a
  <2>3. unread' # <<>>
    <3>1. unread \in Seq(LineType) /\ <<a>> \in Seq(LineType) /\ Len(<<a>>) = 1
      BY <2>2 DEF StepsIInv, StepsTypeOK
    <3>2. Len(unread') = Len(unread) + 1 /\ Len(unread) \in Nat
      BY <2>1, <3>1, ConcatProperties, LenProperties
    <3>3. QED
      BY <3>2, EmptySeq
  <2>4. TrainerMoves
    BY <1>1, <1>8, <1>11, <2>3 DEF TrainerMoves
  <2>5. ComesNext(a)
    <3>1. \A y : Follows(y, a)
      BY <2>2 DEF Follows
    <3>2. ASSUME unread = <<>>
          PROVE  Ready(a)
      <4>1. Ready(Here) /\ Here.kind = "off"
        BY <1>1, <3>2 DEF StepsIInv, NextLine, Here
      <4>2. abs_base = NoStep => from = 0
        BY <1>4, <1>12, <3>2 DEF StepsIInv, NothingRead
      <4>3. QED
        BY <2>2, <4>1, <4>2 DEF Ready, ReadyForStart, ReadyForBar, ReadyForBlind, ReadyForTimed,
                                ReadyForLine
    <3>3. QED
      BY <3>1, <3>2 DEF ComesNext
  <2>6. Printed(a)
    BY <1>2, <1>3, <1>5, <1>12, <2>2 DEF Printed, LineKind, Headed
  <2>7. Follows(a, h)
    BY <1>3, <1>10, <2>2 DEF Follows, Begins
  <2>8. QED
    BY <1>9, <2>1, <2>2, <2>4, <2>5, <2>6, <2>7, OneLinePreserves
<1>13. CASE style \in {"counted", "lines"}
  <2> DEFINE a == Line("max", End, 0, 0)
  <2>1. style \notin Headed
    BY <1>13 DEF Headed
  <2>2. unread' = unread \o <<a>>
    BY <1>2, <1>13, <2>1 DEF Prints
  <2>3. a.kind = "max" /\ a.n = End /\ a.pos = 0 /\ a.m = 0 /\ a \in LineType
    BY <1>3 DEF Line, LineType, LineKind
  <2> HIDE DEF a
  <2>4. TrainerMoves
    BY <1>1, <1>8, <1>11, <2>1 DEF TrainerMoves
  <2>5. Ready(a) /\ unread = <<>>
    BY <1>4, <1>6, <1>13, <2>1, <2>3 DEF Ready, ReadyForStart, ReadyForBar, ReadyForBlind, ReadyForTimed,
                                         ReadyForLine, Untouched
  <2>6. ComesNext(a)
    BY <2>5 DEF ComesNext
  <2>7. Printed(a)
    BY <1>3, <1>13, <2>3 DEF Printed, LineKind
  <2>8. Follows(a, h)
    BY <1>3, <1>6, <1>10, <2>1, <2>3 DEF Follows, Begins
  <2>9. QED
    BY <1>9, <2>2, <2>3, <2>4, <2>6, <2>7, <2>8, OneLinePreserves
<1>14. CASE style \in {"blind", "whole"}
  <2>1. style \notin Headed /\ style \notin {"counted", "lines"}
    BY <1>14 DEF Headed
  <2>2. unread' = unread
    BY <1>2, <2>1
  <2>3. h.kind = "train" /\ h.n = 0 /\ h.pos = 0
    BY <1>6, <1>10, <2>1
  <2>4. TrainerMoves
    BY <1>1, <1>8, <1>11, <2>1 DEF TrainerMoves
  <2>5. Untouched /\ unread = <<>>
    BY <1>4, <1>6, <2>1
  <2>6. Ready(h)
    BY <1>14, <2>1, <2>3, <2>5 DEF Ready, ReadyForStart, ReadyForBar, ReadyForBlind, ReadyForTimed,
                                   ReadyForLine, Untouched, Counts
  <2>7. ComesNext(h)
    BY <2>5, <2>6 DEF ComesNext
  <2>8. QED
    BY <1>9, <2>2, <2>4, <2>7, QuietPreserves
<1>15. QED
  BY <1>3, <1>12, <1>13, <1>14 DEF AllStyles, Headed

\* Two lines one after the other.
LEMMA OneAndOne ==
  ASSUME NEW a, NEW b
  PROVE  <<a>> \o <<b>> = <<a, b>>
<1> DEFINE S == {a, b}
<1>1. /\ <<a>> \in Seq(S) /\ <<b>> \in Seq(S) /\ <<a, b>> \in Seq(S)
      /\ Len(<<a>>) = 1 /\ Len(<<b>>) = 1 /\ Len(<<a, b>>) = 2
  OBVIOUS
<1>2. /\ <<a>> \o <<b>> \in Seq(S) /\ Len(<<a>> \o <<b>>) = 2
      /\ (<<a>> \o <<b>>)[1] = a /\ (<<a>> \o <<b>>)[2] = b
  BY <1>1, ConcatProperties
<1>3. \A i \in 1..2 : (<<a>> \o <<b>>)[i] = <<a, b>>[i]
  <2>1. 1..2 = {1, 2}
    OBVIOUS
  <2>2. QED
    BY <1>2, <2>1
<1>4. QED
  BY <1>1, <1>2, <1>3, SeqEqual

\* A step of training, one case per style.
LEMMA TrainStepPreserves ==
  ASSUME StepsIInv, TrainStep
  PROVE  StepsIInv'
<1> DEFINE p == pos + 1
           n == p - chunk
           frame == Line("frame", n, Span, p)
<1>1. /\ phase = "train" /\ pos < End /\ pos' = p
      /\ phase' = IF n = Span THEN "boundary" ELSE "train"
      /\ UNCHANGED <<style, chunk, saved, launches, positionVars, cadenceVars, historyVars>>
  BY DEF TrainStep
<1>2. PICK lines \in StepLines(p) : unread' = unread \o lines
  BY <1>1 DEF TrainStep, Prints
<1>3. /\ pos \in Nat /\ chunk \in Nat /\ chunk <= pos /\ End \in Nat /\ Span \in Nat
      /\ p \in Nat /\ p <= End /\ n \in Nat /\ 1 <= n /\ n <= Span /\ p - n = chunk /\ n <= p
  <2>1. pos \in Nat /\ chunk \in Nat /\ chunk <= pos /\ End \in Nat /\ pos <= End /\ ChunkLen \in Nat
    BY StepsAssumption DEF StepsIInv, StepsTypeOK, TrainerIsOrderly
  <2>2. Span \in Nat
    BY <1>1, <2>1 DEF Span
  <2>3. pos - chunk < Span
    BY <1>1 DEF StepsIInv, TrainerIsOrderly
  <2>4. QED
    BY <1>1, <2>1, <2>2, <2>3
<1>4. launches # 0 /\ style \in AllStyles
  BY <1>1, StepsAssumption DEF StepsIInv, TrainerIsOrderly, StepsTypeOK
<1>5. /\ frame.kind = "frame" /\ frame.n = n /\ frame.m = Span /\ frame.pos = p /\ frame \in LineType
  BY <1>3 DEF Line, LineType, LineKind
<1>6. \/ style = "lines" /\ lines = <<Line("step", p, 0, p)>>
      \/ style = "timed" /\ lines \in {<<Line("timed", p, 0, p), frame>>, <<frame, Line("timed", p, 0, p)>>}
      \/ style = "whole" /\ lines \in {<<frame>>, <<frame, Line("time", 0, 0, p)>>}
      \/ style \in Bars /\ lines = <<frame>>
      \/ style \in Bars \cup {"whole"} /\ lines = <<>> /\ n # 1 /\ n # Span
  <2>1. /\ <<Line("timed", p, 0, p)>> \o <<frame>> = <<Line("timed", p, 0, p), frame>>
        /\ <<frame>> \o <<Line("timed", p, 0, p)>> = <<frame, Line("timed", p, 0, p)>>
        /\ <<frame>> \o <<Line("time", 0, 0, p)>> = <<frame, Line("time", 0, 0, p)>>
    BY OneAndOne
  <2>2. CASE style = "lines"
    BY <1>2, <2>2 DEF StepLines
  <2>3. CASE style = "timed"
    BY <1>2, <2>1, <2>3 DEF StepLines
  <2>4. CASE style = "whole"
    BY <1>2, <2>1, <2>4 DEF StepLines
  <2>5. CASE style \in Bars
    BY <1>2, <2>5 DEF StepLines, Bars
  <2>6. QED
    BY <1>4, <2>2, <2>3, <2>4, <2>5 DEF AllStyles, Bars
<1> HIDE DEF frame
<1>7. PICK h : h = Here'
  OBVIOUS
<1>8. /\ h.kind = (IF n = Span THEN "boundary" ELSE "train") /\ h.n = n /\ h.pos = p
  BY <1>1, <1>7 DEF Here
<1> HIDE DEF n, p
<1>9. Span' = Span
  BY <1>1 DEF Span
<1>10. TrainerIsOrderly'
  <2>1. /\ chunk' = chunk /\ saved' = saved /\ launches' # 0 /\ style' = style
        /\ pos' - chunk' = n /\ chunk' <= pos' /\ chunk' < pos' /\ phase' \in {"boundary", "train"}
    BY <1>1, <1>3, <1>4 DEF n
  <2>2. phase' = "train" => n < Span
    BY <1>1, <1>3
  <2>3. phase' = "boundary" => n = Span
    BY <1>1
  <2>4. IF style = "whole" THEN chunk = 0
        ELSE (chunk = End \/ Marks(chunk)) /\ (saved = End \/ Marks(saved))
    BY DEF StepsIInv, TrainerIsOrderly
  <2>5. QED
    BY <1>3, <1>9, <2>1, <2>2, <2>3, <2>4 DEF TrainerIsOrderly, Marks
<1>11. TrainerMoves
  <2>1. pos' \in 0..End /\ phase' \in {"boundary", "train"}
    BY <1>1, <1>3
  <2>2. QED
    BY <1>1, <1>4, <1>10, <2>1 DEF StepsIInv, StepsTypeOK, TrainerMoves
<1>12. /\ Here.kind = "train" /\ Here.n = pos - chunk /\ Here.pos = pos /\ p = pos + 1 /\ n = (pos - chunk) + 1
  BY <1>1, <1>3 DEF Here, p, n
<1>13. unread = <<>> => Ready(Here)
  BY DEF StepsIInv, NextLine
<1>14. ASSUME style # "lines"
       PROVE  Printed(frame)
  <2>1. frame.m = SpanFrom(frame.pos - frame.n)
    BY <1>3, <1>5, SpanIsSpanFrom
  <2>2. IF style = "whole" THEN n = p ELSE Marks(p - n)
    BY <1>1, <1>3 DEF StepsIInv, TrainerIsOrderly
  <2>3. QED
    BY <1>3, <1>5, <1>14, <2>1, <2>2 DEF Printed, LineKind
<1>15. CASE style = "lines"
  <2> DEFINE a == Line("step", p, 0, p)
  <2>1. a.kind = "step" /\ a.n = p /\ a.pos = p /\ a.m = 0 /\ a \in LineType
    BY <1>3 DEF Line, LineType, LineKind
  <2>2. unread' = unread \o <<a>>
    BY <1>2, <1>6, <1>15 DEF Bars
  <2> HIDE DEF a
  <2>3. ASSUME NEW y, Printed(y), Follows(y, Here)
        PROVE  Follows(y, a)
    BY <1>12, <1>15, <2>1, <2>3 DEF Follows, Continues, Begins, Printed, Headed, Bars
  <2>4. Ready(Here) => Ready(a)
    BY <1>12, <1>15, <2>1 DEF Ready, ReadyForStart, ReadyForBar, ReadyForBlind, ReadyForTimed, ReadyForLine,
                      Counts, Headed
  <2>5. ComesNext(a)
    BY <1>13, <2>3, <2>4 DEF ComesNext
  <2>6. Printed(a)
    BY <1>3, <1>15, <2>1 DEF Printed, LineKind
  <2>7. Follows(a, h)
    BY <1>8, <1>15, <2>1 DEF Follows, Continues
  <2>8. QED
    BY <1>7, <1>11, <1>15, <2>1, <2>2, <2>5, <2>6, <2>7, OneLinePreserves
<1>16. CASE style = "timed"
  <2> DEFINE a == Line("timed", p, 0, p)
  <2>1. a.kind = "timed" /\ a.n = p /\ a.pos = p /\ a.m = 0 /\ a \in LineType
    BY <1>3 DEF Line, LineType, LineKind
  <2>2. unread' = unread \o <<a, frame>> \/ unread' = unread \o <<frame, a>>
    BY <1>2, <1>6, <1>16 DEF Bars
  <2> HIDE DEF a
  <2>3. ASSUME NEW y, Printed(y), Follows(y, Here)
        PROVE  Follows(y, a) /\ Follows(y, frame)
    <3>1. y.kind = "header" /\ y.pos = 0 /\ Begins(y.pos, Here) => Follows(y, a) /\ Follows(y, frame)
      BY <1>5, <1>12, <2>1 DEF Follows, Begins
    <3>2. y.kind = "resume" /\ Begins(y.pos, Here) => Follows(y, a) /\ Follows(y, frame)
      BY <1>5, <1>12, <2>1 DEF Follows, Begins
    <3>3. y.kind \in {"frame", "step", "timed", "time"} /\ y.pos = pos => Follows(y, a) /\ Follows(y, frame)
      BY <1>5, <1>12, <1>16, <2>1 DEF Follows, Continues
    <3>4. y.kind \in {"frame", "step", "timed", "time"} => Continues(y, Here)
      BY <1>12, <2>3 DEF Follows
    <3>5. Continues(y, Here) => y.pos = pos
      BY <1>12, <1>16 DEF Continues, Bars
    <3>6. y.kind # "max"
      BY <1>16, <2>3 DEF Printed
    <3>7. y.kind \in {"header", "resume"} => Begins(y.pos, Here) /\ (y.kind = "header" => y.pos = 0)
      BY <1>12, <2>3 DEF Follows
    <3>8. y.kind \in LineKind
      BY <2>3 DEF Printed
    <3>9. QED
      BY <3>1, <3>2, <3>3, <3>4, <3>5, <3>6, <3>7, <3>8 DEF LineKind
  <2>4. Ready(Here) => Ready(a)
    BY <1>12, <1>16, <2>1 DEF Ready, ReadyForStart, ReadyForBar, ReadyForBlind, ReadyForTimed, ReadyForLine,
                      Counts, Headed
  <2>5. Ready(Here) => Ready(frame)
    <3> SUFFICES ASSUME Ready(Here)
                 PROVE  Ready(frame)
      OBVIOUS
    <3>1. ReadyForTimed(frame)
      <4>1. step_from_reported_line => step \in {p, p - 1}
        BY <1>3, <1>12, <1>16 DEF Ready, ReadyForTimed
      <4>2. ~step_from_reported_line => n = 1 /\ last_bar_step = NoStep /\ abs_base = p - n /\ ~loss
        BY <1>3, <1>12, <1>16 DEF Ready, ReadyForTimed
      <4>3. QED
        BY <1>5, <4>1, <4>2 DEF ReadyForTimed
    <3>2. QED
      BY <1>5, <1>12, <1>16, <3>1 DEF Ready, ReadyForStart, ReadyForBar, ReadyForBlind, ReadyForLine,
                      Counts, Headed
  <2>6. ComesNext(a) /\ ComesNext(frame)
    BY <1>13, <2>3, <2>4, <2>5 DEF ComesNext
  <2>7. Printed(a) /\ Printed(frame)
    BY <1>3, <1>14, <1>16, <2>1 DEF Printed, LineKind
  <2>8. Follows(a, frame) /\ Follows(frame, a) /\ Follows(a, h) /\ Follows(frame, h)
    BY <1>5, <1>8, <1>16, <2>1 DEF Follows, Continues
  <2>9. a.pos = frame.pos
    BY <1>5, <2>1
  <2>10. CASE unread' = unread \o <<a, frame>>
    BY <1>5, <1>7, <1>11, <2>1, <2>6, <2>7, <2>8, <2>9, <2>10, TwoLinesPreserve
  <2>11. CASE unread' = unread \o <<frame, a>>
    BY <1>5, <1>7, <1>11, <2>1, <2>6, <2>7, <2>8, <2>9, <2>11, TwoLinesPreserve
  <2>12. QED
    BY <2>2, <2>10, <2>11
<1>17. CASE style = "whole"
  <2> DEFINE a == Line("time", 0, 0, p)
  <2>1. a.kind = "time" /\ a.n = 0 /\ a.pos = p /\ a.m = 0 /\ a \in LineType
    BY <1>3 DEF Line, LineType, LineKind
  <2>2. unread' = unread \o <<frame>> \/ unread' = unread \o <<frame, a>> \/ unread' = unread \o <<>>
    BY <1>2, <1>6, <1>17 DEF Bars
  <2> HIDE DEF a
  <2>3. ASSUME NEW y, Printed(y), Follows(y, Here)
        PROVE  Follows(y, frame) /\ (h.n # 1 => Follows(y, h))
    <3>1. y.kind \in {"frame", "time"}
      BY <1>17, <2>3 DEF Printed, Headed, LineKind
    <3>2. QED
      BY <1>5, <1>8, <1>17, <3>1 DEF Follows, Continues
  <2>4. Ready(Here) => Ready(frame) /\ Ready(h)
    BY <1>5, <1>8, <1>12, <1>17 DEF Ready, ReadyForStart, ReadyForBar, ReadyForBlind, ReadyForTimed, ReadyForLine,
                      Counts, Headed
  <2>5. ComesNext(frame) /\ (h.n # 1 => ComesNext(h))
    BY <1>13, <2>3, <2>4 DEF ComesNext
  <2>6. Printed(frame) /\ Printed(a)
    BY <1>3, <1>14, <1>17, <2>1 DEF Printed, LineKind
  <2>7. Follows(frame, a) /\ Follows(a, h) /\ Follows(frame, h)
    BY <1>5, <1>8, <1>17, <2>1 DEF Follows, Continues
  <2>8. CASE unread' = unread \o <<frame>>
    BY <1>5, <1>7, <1>11, <1>17, <2>5, <2>6, <2>7, <2>8, OneLinePreserves
  <2>9. CASE unread' = unread \o <<frame, a>>
    BY <1>5, <1>7, <1>11, <1>17, <2>1, <2>5, <2>6, <2>7, <2>9, TwoLinesPreserve
  <2>10. CASE lines = <<>>
    <3>1. unread' = unread
      BY <1>2, <2>10, ConcatEmptySeq DEF StepsIInv, StepsTypeOK
    <3>2. h.n # 1
      BY <1>5, <1>6, <1>8, <2>10
    <3>3. QED
      BY <1>7, <1>11, <2>5, <3>1, <3>2, QuietPreserves
  <2>11. QED
    BY <1>2, <1>6, <1>17, <2>8, <2>9, <2>10 DEF a, Bars
<1>18. CASE style \in Bars
  <2>1. style \notin {"lines", "timed", "whole"}
    BY <1>18 DEF Bars
  <2>2. ASSUME NEW y, Printed(y), Follows(y, Here)
        PROVE  Follows(y, frame) /\ (n # 1 /\ n # Span => Follows(y, h))
    <3>1. CASE y.kind \in {"header", "resume", "max"}
      <4>1. Begins(y.pos, Here) /\ (y.kind = "header" => y.pos = 0)
        BY <1>12, <2>2, <3>1 DEF Follows, Begins
      <4>2. n = 1 /\ p = y.pos + 1
        BY <1>3, <1>12, <4>1 DEF Begins
      <4>3. QED
        BY <1>5, <3>1, <4>1, <4>2 DEF Follows, Begins
    <3>2. CASE y.kind = "step"
      <4>1. Begins(y.pos, Here)
        BY <1>12, <1>18, <2>1, <2>2, <3>2 DEF Follows, Continues
      <4>2. n = 1 /\ p = y.pos + 1
        BY <1>3, <1>12, <4>1 DEF Begins
      <4>3. QED
        BY <1>5, <1>18, <3>2, <4>2 DEF Follows, Continues, Begins
    <3>3. CASE y.kind = "frame"
      <4>1. y.n \in Nat /\ y.pos \in Nat
        BY <2>2 DEF Printed
      <4>2. \/ SameBar(y, Here) /\ y.n <= Here.n
            \/ y.n = y.m /\ Begins(y.pos, Here)
        BY <1>12, <2>1, <2>2, <3>3 DEF Follows, Continues
      <4>3. CASE SameBar(y, Here) /\ y.n <= Here.n
        <5>1. y.pos - y.n = p - n /\ y.n < n /\ y.n <= n
          BY <1>3, <1>12, <4>1, <4>3 DEF SameBar
        <5>2. SameBar(y, frame) /\ SameBar(y, h)
          BY <1>5, <1>8, <5>1 DEF SameBar
        <5>3. Follows(y, frame)
          BY <1>5, <1>18, <3>3, <5>1, <5>2 DEF Follows, Continues
        <5>4. n # Span => Follows(y, h)
          BY <1>8, <1>18, <3>3, <5>1, <5>2 DEF Follows, Continues
        <5>5. QED
          BY <5>3, <5>4
      <4>4. CASE y.n = y.m /\ Begins(y.pos, Here)
        <5>1. n = 1 /\ p = y.pos + 1
          BY <1>3, <1>12, <4>4 DEF Begins
        <5>2. QED
          BY <1>5, <1>18, <3>3, <4>4, <5>1 DEF Follows, Continues, Begins
      <4>5. QED
        BY <4>2, <4>3, <4>4
    <3>4. QED
      BY <1>18, <2>1, <2>2, <3>1, <3>2, <3>3 DEF Printed, LineKind
  <2>3. ASSUME Ready(Here)
        PROVE  Ready(frame) /\ (n # 1 /\ n # Span => Ready(h))
    <3>1. ReadyForStart(frame) /\ ReadyForStart(h)
      BY <1>5, <1>8, <1>12, <2>3 DEF Ready, ReadyForStart
    <3>2. ReadyForBar(frame) /\ (n # 1 /\ n # Span => ReadyForBar(h))
      <4> SUFFICES ASSUME Counts
                   PROVE  ReadyForBar(frame) /\ (n # 1 /\ n # Span => ReadyForBar(h))
        BY DEF ReadyForBar
      <4>1. ASSUME abs_base # NoStep, n = 1
            PROVE  NextBase(n) = p - n
        BY <1>3, <1>12, <2>3, <4>1 DEF Ready, ReadyForBar
      <4>2. ASSUME abs_base # NoStep, n # 1
            PROVE  /\ abs_base = p - n /\ ~base_from_line /\ last_bar_step # NoStep
                   /\ last_bar_step <= n /\ last_bar_step \in Nat /\ last_bar_step < n
        <5>1. Here.n > 0
          BY <1>3, <1>12, <4>2
        <5>2. /\ abs_base = Here.pos - Here.n /\ ~base_from_line /\ last_bar_step # NoStep
              /\ last_bar_step <= Here.n
          BY <1>12, <2>3, <4>2, <5>1 DEF Ready, ReadyForBar
        <5>3. last_bar_step \in Nat
          BY <5>2 DEF StepsIInv, StepsTypeOK
        <5>4. QED
          BY <1>3, <1>12, <5>2, <5>3
      <4>3. abs_base # NoStep => NextBase(n) = p - n
        <5>1. abs_base # NoStep /\ n # 1 => NextBase(n) = p - n
          BY <1>3, <4>2 DEF NextBase
        <5>2. QED
          BY <4>1, <5>1
      <4>4. QED
        BY <1>3, <1>5, <1>8, <4>2, <4>3 DEF ReadyForBar
    <3>3. ReadyForBlind(frame) /\ (n # 1 /\ n # Span => ReadyForBlind(h))
      <4> SUFFICES ASSUME style = "blind", ~chunked_bar
                   PROVE  ReadyForBlind(frame) /\ (n # 1 /\ n # Span => ReadyForBlind(h))
        BY DEF ReadyForBlind
      <4>1. pos = pos - chunk \/ (last_bar_step # NoStep /\ 1 < last_bar_step /\ pos - chunk = 0)
        BY <1>12, <2>3 DEF Ready, ReadyForBlind
      <4>2. p = n \/ (last_bar_step # NoStep /\ n < last_bar_step /\ n = 1)
        BY <1>3, <1>12, <4>1
      <4>3. QED
        BY <1>3, <1>5, <1>8, <4>2 DEF ReadyForBlind
    <3>4. ReadyForTimed(frame) /\ ReadyForTimed(h) /\ ReadyForLine(frame) /\ ReadyForLine(h)
      BY <1>5, <1>8, <2>1 DEF ReadyForTimed, ReadyForLine
    <3>5. QED
      BY <3>1, <3>2, <3>3, <3>4 DEF Ready
  <2>4. CASE lines = <<frame>>
    <3>1. unread' = unread \o <<frame>>
      BY <1>2, <2>4
    <3>2. ComesNext(frame)
      BY <1>13, <2>2, <2>3 DEF ComesNext
    <3>3. Printed(frame)
      BY <1>14, <2>1
    <3>4. Follows(frame, h)
      <4>1. SameBar(frame, h)
        BY <1>5, <1>8 DEF SameBar
      <4>2. QED
        BY <1>3, <1>5, <1>8, <1>18, <4>1 DEF Follows, Continues
    <3>5. QED
      BY <1>5, <1>7, <1>11, <2>1, <3>1, <3>2, <3>3, <3>4, OneLinePreserves
  <2>5. CASE lines = <<>> /\ n # 1 /\ n # Span
    <3>1. unread' = unread
      BY <1>2, <2>5, ConcatEmptySeq DEF StepsIInv, StepsTypeOK
    <3>2. ComesNext(h)
      BY <1>13, <2>2, <2>3, <2>5 DEF ComesNext
    <3>3. QED
      BY <1>7, <1>11, <3>1, <3>2, QuietPreserves
  <2>6. QED
    BY <1>6, <2>1, <2>4, <2>5
<1>19. QED
  BY <1>4, <1>15, <1>16, <1>17, <1>18 DEF AllStyles, Bars

\* A chunk ends; the position may be printed.
LEMMA BoundaryPreserves ==
  ASSUME StepsIInv, Boundary
  PROVE  StepsIInv'
<1> DEFINE a == Line("step", pos, 0, pos)
<1>1. /\ phase = "boundary" /\ phase' = (IF pos = End THEN "done" ELSE "train") /\ saved' = pos
      /\ chunk' = (IF style = "whole" THEN chunk ELSE pos)
      /\ UNCHANGED <<style, pos, launches, positionVars, cadenceVars, historyVars>>
  BY DEF Boundary
<1>2. unread' = unread \/ (style \in {"harness", "timed", "counted"} /\ unread' = unread \o <<a>>)
  BY DEF Boundary, Prints
<1>3. /\ pos \in Nat /\ chunk \in Nat /\ chunk < pos /\ End \in Nat /\ pos <= End /\ chunk < End
      /\ ChunkLen \in Nat /\ ChunkLen >= 2 /\ style \in AllStyles
  BY <1>1, StepsAssumption DEF StepsIInv, StepsTypeOK, TrainerIsOrderly
<1>4. /\ pos - chunk = Span /\ Span = SpanFrom(chunk) /\ Span \in Nat /\ pos = chunk + Span
  <2>1. pos - chunk = Span
    BY <1>1 DEF StepsIInv, TrainerIsOrderly
  <2>2. QED
    BY <1>3, <2>1, SpanIsSpanFrom
<1>5. style = "whole" => pos = End
  BY <1>3, <1>4 DEF SpanFrom
<1>6. ASSUME style # "whole"
      PROVE  /\ pos = End \/ Marks(pos)
             /\ pos = End \/ 2 <= Span
  <2>1. Marks(chunk)
    BY <1>3, <1>6 DEF StepsIInv, TrainerIsOrderly
  <2>2. pos = End \/ Span = ChunkLen
    BY <1>3, <1>4, <1>6, Spans
  <2>3. Span = ChunkLen => Marks(pos)
    BY <1>3, <1>4, <2>1, MarksFacts
  <2>4. QED
    BY <1>3, <2>2, <2>3
<1>7. launches # 0
  BY <1>1 DEF StepsIInv, TrainerIsOrderly
<1>8. PICK h : h = Here'
  OBVIOUS
<1>9. /\ h.kind = (IF pos = End THEN "done" ELSE "train") /\ h.pos = pos
      /\ pos # End => h.n = 0
  BY <1>1, <1>3, <1>5, <1>8 DEF Here
<1>10. TrainerIsOrderly'
  <2>1. /\ chunk' <= pos' /\ pos' - chunk' <= Span' /\ launches' # 0 /\ style' = style
        /\ phase' \in {"done", "train"} /\ (phase' = "train" => pos' - chunk' < Span')
    <3>1. CASE style = "whole"
      BY <1>1, <1>3, <1>4, <1>5, <1>7, <3>1 DEF Span
    <3>2. CASE style # "whole"
      <4>1. pos' = pos /\ chunk' = pos /\ pos' - chunk' = 0
        BY <1>1, <1>3, <3>2
      <4>2. Span' \in Nat /\ (pos # End => 0 < Span')
        BY <1>1, <1>3, <4>1 DEF Span
      <4>3. QED
        BY <1>1, <1>3, <1>7, <4>1, <4>2
    <3>3. QED
      BY <3>1, <3>2
  <2>2. IF style' = "whole" THEN chunk' = 0
        ELSE (chunk' = End \/ Marks(chunk)') /\ (saved' = End \/ Marks(saved)')
    BY <1>1, <1>6 DEF StepsIInv, TrainerIsOrderly, Marks
  <2>3. QED
    BY <2>1, <2>2 DEF TrainerIsOrderly
<1>11. TrainerMoves
  <2>1. /\ phase' \in {"done", "train"} /\ pos' \in 0..End /\ chunk' \in 0..End /\ saved' \in 0..End
    BY <1>1, <1>3
  <2>2. QED
    BY <1>1, <1>7, <1>10, <2>1 DEF StepsIInv, StepsTypeOK, TrainerMoves
<1>12. Here.kind = "boundary" /\ Here.n = Span /\ Here.pos = pos
  BY <1>1, <1>4 DEF Here
<1>13. unread = <<>> => Ready(Here)
  BY DEF StepsIInv, NextLine
<1>14. ASSUME NEW y, Printed(y), Follows(y, Here)
       PROVE  /\ y.kind \in {"frame", "step", "timed", "time"}
              /\ Continues(y, Here)
              /\ style \in Bars => y.kind = "frame" /\ y.pos = pos /\ y.n = y.m
              /\ style \in {"timed", "lines"} => y.pos = pos
  <2>1. y.kind \in {"frame", "step", "timed", "time"} /\ Continues(y, Here)
    BY <1>12, <1>14 DEF Follows, Begins
  <2>2. ASSUME style \in Bars
        PROVE  y.kind = "frame" /\ y.pos = pos /\ y.n = y.m
    <3>1. y.kind = "frame" /\ SameBar(y, Here) /\ y.n = Here.n
      BY <1>12, <2>1, <2>2 DEF Continues, Begins, Bars
    <3>2. y.n \in Nat /\ y.pos \in Nat /\ y.m = SpanFrom(y.pos - y.n)
      BY <1>14, <3>1 DEF Printed
    <3>3. y.pos - y.n = chunk /\ y.pos = pos
      <4>1. y.n = Span /\ pos - Span = y.pos - y.n
        BY <1>12, <3>1 DEF SameBar
      <4>2. y.pos \in Nat /\ pos \in Nat /\ chunk \in Nat /\ Span \in Nat /\ pos = chunk + Span
        BY <1>3, <1>4, <3>2
      <4>3. y.pos - Span = chunk /\ y.pos = pos
        BY <4>1, <4>2
      <4>4. QED
        BY <4>1, <4>3
    <3>4. QED
      BY <1>4, <1>12, <3>1, <3>2, <3>3
  <2>3. style \in {"timed", "lines"} => y.pos = pos
    BY <1>12, <2>1 DEF Continues, Bars
  <2>4. QED
    BY <2>1, <2>2, <2>3
<1>15. CASE unread' = unread
  <2>1. ASSUME NEW y, Printed(y), Follows(y, Here)
        PROVE  Follows(y, h)
    <3>1. CASE pos = End
      BY <1>9, <1>14, <2>1, <3>1 DEF Follows, Continues
    <3>2. CASE pos # End
      <4>1. h.kind = "train" /\ h.n = 0 /\ h.pos = pos /\ style # "whole"
        BY <1>5, <1>9, <3>2
      <4>2. CASE style \in Bars
        BY <1>14, <2>1, <4>1, <4>2 DEF Follows, Continues, Begins
      <4>3. CASE style \in {"timed", "lines"}
        BY <1>14, <2>1, <4>1, <4>3 DEF Follows, Continues
      <4>4. QED
        BY <1>3, <4>1, <4>2, <4>3 DEF AllStyles, Bars
    <3>3. QED
      BY <3>1, <3>2
  <2>2. ASSUME Ready(Here)
        PROVE  Ready(h)
    <3>1. ReadyForStart(h)
      BY <1>9, <1>12, <2>2 DEF Ready, ReadyForStart
    <3>2. ReadyForBar(h)
      <4> SUFFICES ASSUME Counts, abs_base # NoStep, pos # End
                   PROVE  NextBase(1) = pos
        BY <1>9 DEF ReadyForBar
      <4>1. 2 <= Span
        BY <1>6 DEF Counts
      <4>2. abs_base = pos - Span /\ ~base_from_line /\ last_bar_step = Span /\ last_bar_step # NoStep
        BY <1>3, <1>4, <1>12, <2>2, <4>1 DEF Ready, ReadyForBar
      <4>3. QED
        BY <1>3, <1>4, <4>1, <4>2 DEF NextBase
    <3>3. ReadyForBlind(h)
      <4> SUFFICES ASSUME style = "blind", ~chunked_bar, pos # End
                   PROVE  last_bar_step # NoStep /\ 1 < last_bar_step
        BY <1>9 DEF ReadyForBlind
      <4>1. 2 <= Span
        BY <1>6
      <4>2. last_bar_step = Span
        BY <1>12, <2>2 DEF Ready, ReadyForBlind
      <4>3. QED
        BY <1>4, <4>1, <4>2, StepsAssumption
    <3>4. ReadyForTimed(h)
      <4>1. style = "timed" => step_from_reported_line /\ step = pos
        BY <1>12, <2>2 DEF Ready, ReadyForTimed
      <4>2. QED
        BY <1>9, <4>1 DEF ReadyForTimed
    <3>5. ReadyForLine(h)
      BY <1>9, <1>12, <2>2 DEF Ready, ReadyForLine
    <3>6. QED
      BY <3>1, <3>2, <3>3, <3>4, <3>5 DEF Ready
  <2>3. ComesNext(h)
    BY <1>13, <2>1, <2>2 DEF ComesNext
  <2>4. QED
    BY <1>8, <1>11, <1>15, <2>3, QuietPreserves
<1>16. CASE style \in {"harness", "timed", "counted"} /\ unread' = unread \o <<a>>
  <2>1. a.kind = "step" /\ a.n = pos /\ a.m = 0 /\ a.pos = pos /\ a \in LineType
    BY <1>3 DEF Line, LineType, LineKind
  <2>2. unread' = unread \o <<a>> /\ style \notin {"whole", "blind", "lines"}
    BY <1>16
  <2>3. style \in Bars \/ style = "timed"
    BY <1>16 DEF Bars
  <2> HIDE DEF a
  <2>4. ASSUME NEW y, Printed(y), Follows(y, Here)
        PROVE  Follows(y, a)
    <3>1. CASE style \in Bars
      BY <1>14, <2>1, <2>4, <3>1 DEF Follows, Continues
    <3>2. CASE style = "timed"
      BY <1>14, <2>1, <2>4, <3>2 DEF Follows, Continues
    <3>3. QED
      BY <2>3, <3>1, <3>2
  <2>5. Ready(Here) => Ready(a)
    BY <1>12, <2>1, <2>2 DEF Ready, ReadyForStart, ReadyForBar, ReadyForBlind, ReadyForTimed, ReadyForLine
  <2>6. ComesNext(a)
    BY <1>13, <2>4, <2>5 DEF ComesNext
  <2>7. Printed(a)
    BY <1>3, <1>6, <2>1, <2>2 DEF Printed, LineKind
  <2>8. Follows(a, h)
    <3>1. CASE pos = End
      BY <1>9, <2>1, <3>1 DEF Follows, Continues
    <3>2. CASE pos # End
      BY <1>9, <2>1, <2>3, <3>2 DEF Follows, Continues, Begins
    <3>3. QED
      BY <3>1, <3>2
  <2>9. QED
    BY <1>8, <1>11, <2>1, <2>2, <2>6, <2>7, <2>8, OneLinePreserves
<1>17. QED
  BY <1>2, <1>15, <1>16

-----------------------------------------------------------------------------
\* The invariant holds before anything was launched.
LEMMA InitIsReady == StepsInit => StepsIInv
<1> SUFFICES ASSUME StepsInit
             PROVE  StepsIInv
  OBVIOUS
<1>1. /\ End \in Nat /\ End > 0 /\ ChunkLen \in Nat /\ ChunkLen >= 2 /\ MaxLaunches \in Nat /\ NoStep \notin Nat
      /\ style \in AllStyles /\ Len(unread) = 0 /\ unread = <<>> /\ unread \in Seq(LineType)
  BY StepsAssumption, EmptySeq DEF StepsInit
<1>2. Marks(0)
  BY MarksFacts
<1>3. StepsTypeOK
  <2>1. /\ loss \in BOOLEAN /\ step_history \in BOOLEAN
        /\ chunked_bar \in BOOLEAN /\ step_from_reported_line \in BOOLEAN
        /\ base_from_line \in BOOLEAN /\ cadence_rebase \in BOOLEAN
        /\ saw_reported_step_time \in BOOLEAN /\ anchor_is_baseline \in BOOLEAN
        /\ last_note_at \in BOOLEAN /\ paused \in BOOLEAN
        /\ spoken \in BOOLEAN /\ polled \in BOOLEAN /\ prompt \in BOOLEAN /\ broken \in BOOLEAN
    BY DEF StepsInit
  <2>2. /\ style \in Styles /\ phase = "off" /\ pos \in 0..End /\ chunk \in 0..End /\ saved \in 0..End
        /\ launches \in 0..MaxLaunches
    BY <1>1 DEF StepsInit
  <2>3. /\ step \in Nat /\ max_steps \in Nat /\ stated_max_steps \in Nat /\ last_bar_total \in Nat
        /\ last_bar_step = NoStep /\ abs_base = NoStep /\ resume_start = NoStep
        /\ last_step_seen = NoStep /\ sample = NoStep /\ at \in Nat
    BY DEF StepsInit
  <2>4. QED
    BY <1>1, <2>1, <2>2, <2>3 DEF StepsTypeOK
<1>4. TrainerIsOrderly
  BY <1>1, <1>2 DEF StepsInit, TrainerIsOrderly, Span
<1>5. Untouched
  BY DEF StepsInit, Untouched
<1>6. ReaderKnows /\ NothingRead /\ StepFromBase /\ CadenceOK /\ ProgressIsTheRuns
  BY <1>1, <1>5 DEF StepsInit, ReaderKnows, NothingRead, StepFromBase, CadenceOK, ProgressIsTheRuns, Shown,
                    Untouched
<1>7. LinesFollow /\ TimedPairs
  BY <1>1 DEF LinesFollow, TimedPairs
<1>8. Ready(NextLine)
  <2>1. NextLine.kind = "off"
    BY <1>1 DEF NextLine, Here, StepsInit
  <2>2. ~loss
    BY <1>5 DEF Untouched
  <2>3. QED
    BY <1>5, <2>1, <2>2 DEF Ready, ReadyForStart, ReadyForBar, ReadyForBlind, ReadyForTimed, ReadyForLine, Untouched
<1>9. QED
  BY <1>3, <1>4, <1>6, <1>7, <1>8 DEF StepsIInv

\* Nothing happens.
LEMMA StutterPreserves ==
  ASSUME StepsIInv, UNCHANGED stepsVars
  PROVE  StepsIInv'
<1>1. /\ UNCHANGED <<trainerVars, unread>> /\ UNCHANGED positionVars /\ UNCHANGED cadenceVars
      /\ UNCHANGED historyVars
  BY DEF stepsVars
<1>2. /\ TrainerIsOrderly' /\ LinesFollow' /\ TimedPairs' /\ StepFromBase'
      /\ NextLine' = NextLine /\ style' = style
  BY <1>1, TheQueueStands DEF positionVars, historyVars
<1>3. StepsTypeOK'
  BY <1>1 DEF StepsIInv, StepsTypeOK, trainerVars, positionVars, cadenceVars, historyVars
<1>4. ReaderKnows' /\ NothingRead'
  BY <1>1 DEF StepsIInv, ReaderKnows, NothingRead, Untouched, trainerVars, positionVars, cadenceVars,
              historyVars
<1>5. CadenceOK' /\ ProgressIsTheRuns'
  BY <1>1 DEF StepsIInv, CadenceOK, Counts, ProgressIsTheRuns, Shown, ChunkLocal, trainerVars,
              positionVars, cadenceVars, historyVars
<1>6. Ready(NextLine)'
  <2> SUFFICES ASSUME NEW y, y = NextLine', Ready(y)
               PROVE  Ready(y)'
    BY <1>2, ReadyNext DEF StepsIInv
  <2>1. QED
    BY <1>1, <1>2 DEF Ready, ReadyForStart, ReadyForBar, ReadyForBlind, ReadyForTimed, ReadyForLine,
                      NextBase, Untouched, Counts, positionVars, cadenceVars, historyVars
<1>7. QED
  BY <1>2, <1>3, <1>4, <1>5, <1>6 DEF StepsIInv

\* Every step keeps the invariant.
LEMMA StepsNextPreserves == StepsIInv /\ [StepsNext]_stepsVars => StepsIInv'
<1> SUFFICES ASSUME StepsIInv, [StepsNext]_stepsVars
             PROVE  StepsIInv'
  OBVIOUS
<1>1. CASE Trainer
  BY <1>1, LaunchPreserves, SayResumedPreserves, TrainStepPreserves, BoundaryPreserves,
     StopPreserves DEF Trainer
<1>2. CASE Ingest
  BY <1>2, ReadHeaderPreserves, ReadResumePreserves, ReadMaxStepsPreserves, ReadFramePreserves,
     ReadStepPreserves, ReadTimedStepPreserves, ReadTimePreserves DEF Ingest
<1>3. CASE LookAway \/ NoteNothing
  BY <1>3, LookingPreserves
<1>4. CASE Note
  BY <1>4, NotePreserves
<1>5. CASE UNCHANGED stepsVars
  BY <1>5, StutterPreserves
<1>6. QED
  BY <1>1, <1>2, <1>3, <1>4, <1>5 DEF StepsNext

\* The invariant of the run's position and the view's reading of it
\* (TrainState::apply_event, note_step_progress), for every trainer, every
\* length of chunk and run, any number of launches and of unread lines.
THEOREM StepsInvariant == StepsSpec => []StepsIInv
<1>1. QED
  BY InitIsReady, StepsNextPreserves, PTL DEF StepsSpec

\* The variables of the trainer and of TrainState keep their types.
THEOREM StepsTyped == StepsSpec => []StepsTypeOK
<1>1. StepsIInv => StepsTypeOK
  BY DEF StepsIInv
<1>2. QED
  BY <1>1, StepsInvariant, PTL

\* The position and the budget on the screen are the run's, across chunks,
\* crashes, resumes and new headers (apply_event, begin_new_run).
THEOREM StepsProgress == StepsSpec => []ProgressIsTheRuns
<1>1. StepsIInv => ProgressIsTheRuns
  BY DEF StepsIInv
<1>2. QED
  BY <1>1, StepsInvariant, PTL

\* A sample is taken by Note only, of the step after the anchor and in its chunk.
LEMMA SampleIsOneStep ==
  ASSUME StepsIInv, [StepsNext]_stepsVars, sample' # sample, abs_base # NoStep
  PROVE  prompt /\ ~broken /\ (style # "lines" => (step - 1) % ChunkLen # 0)
<1>1. Note
  <2>1. Trainer => UNCHANGED historyVars
    BY DEF Trainer, Launch, SayResumed, TrainStep, Boundary, Stop
  <2>2. Ingest => UNCHANGED sample
    BY DEF Ingest, ReadHeader, ReadResume, ReadMaxSteps, ReadFrame, ReadStep, ReadTimedStep, ReadTime, Reads
  <2>3. LookAway \/ NoteNothing => UNCHANGED sample
    BY DEF LookAway, NoteNothing
  <2>4. QED
    BY <2>1, <2>2, <2>3 DEF StepsNext, stepsVars, historyVars
<1>2. /\ ~paused /\ ~cadence_rebase /\ last_step_seen # NoStep /\ step > last_step_seen
      /\ ~anchor_is_baseline /\ step = last_step_seen + 1 /\ ~saw_reported_step_time
  BY <1>1 DEF Note, NothingToNote
<1>3. step \in Nat /\ last_step_seen \in Nat /\ NoStep \notin Nat /\ style \in AllStyles
  BY <1>2, StepsAssumption DEF StepsIInv, StepsTypeOK
<1>4. style # "timed"
  BY <1>2, <1>3 DEF StepsIInv, CadenceOK
<1>5. prompt
  BY <1>2, <1>4 DEF StepsIInv, CadenceOK
<1>6. ~broken
  BY <1>2 DEF StepsIInv, CadenceOK
<1>7. ASSUME style # "lines"
      PROVE  (step - 1) % ChunkLen # 0
  <2>1. Counts
    BY <1>3, <1>4, <1>7 DEF StepsIInv, ReaderKnows, Counts, AllStyles
  <2>2. ~base_from_line /\ last_step_seen > abs_base
    BY <1>2, <2>1 DEF StepsIInv, CadenceOK
  <2>3. /\ Marks(abs_base) /\ step = abs_base + last_bar_step /\ last_bar_step <= ChunkLen
        /\ abs_base \in Nat /\ last_bar_step \in Nat /\ ChunkLen \in Nat
    BY <1>2, <1>3, <2>1, <2>2, StepsAssumption DEF StepsIInv, StepFromBase, StepsTypeOK
  <2>4. abs_base < last_step_seen /\ last_step_seen < abs_base + ChunkLen
    BY <1>2, <1>3, <2>2, <2>3
  <2>5. ~Marks(last_step_seen)
    BY <1>3, <2>3, <2>4, MarksFacts
  <2>6. step - 1 = last_step_seen
    BY <1>2, <1>3
  <2>7. QED
    BY <2>5, <2>6 DEF Marks
<1>8. QED
  BY <1>5, <1>6, <1>7

\* A step is timed by watching only while the view was polled and the trainer
\* did nothing but train (note_step_progress).
THEOREM StepsTimed == StepsSpec => OnlyTrainingIsTimed
<1>1. StepsIInv /\ [StepsNext]_stepsVars =>
        [(sample' # sample /\ abs_base # NoStep) =>
           prompt /\ ~broken /\ (style # "lines" => (step - 1) % ChunkLen # 0)]_stepsVars
  BY SampleIsOneStep
<1>2. QED
  BY <1>1, StepsInvariant, PTL DEF StepsSpec, OnlyTrainingIsTimed
=============================================================================
