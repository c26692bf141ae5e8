---------------------------- MODULE SnapshotJoin ----------------------------
(***************************************************************************)
(* The join of a tt-smi document onto the sysfs devices                    *)
(* (rekey_snapshot_by_bus_id in backend/hybrid.rs).  Entries of the        *)
(* document are known by their position; a first pass over the positions   *)
(* joins those that carry a PCI bus id, a second one lets entries without  *)
(* a bus id fall back to the device at their own position.  One step is    *)
(* one turn of either loop.                                                *)
(***************************************************************************)
EXTENDS Naturals

CONSTANTS
  Pos,      \* positions in the document; also the positional device indices
  Index,    \* sysfs device indices
  Bus,      \* PCI bus ids
  None      \* absent key

ASSUME JoinAssumption ==
  /\ Pos \subseteq Index
  /\ Index \subseteq Nat
  /\ None \notin Index
  /\ None \notin Bus

VARIABLES
  busToIndex,   \* sysfs bus id -> device index, None where absent
  positions,    \* every position the document mentions
  busIds,       \* position -> bus id, None where the entry has none
  pass,         \* which loop is running
  todo,         \* the positions the loop has not reached
  mapping,      \* position -> device index, None where unmapped
  claimed       \* device index -> position that owns it, None if free

inputs == <<busToIndex, positions, busIds>>
vars == <<inputs, pass, todo, mapping, claimed>>

\* Each sysfs device has one bus id, so no two bus ids share an index.
Init ==
  /\ busToIndex \in [Bus -> Index \cup {None}]
  /\ \A b, c \in Bus : busToIndex[b] = busToIndex[c] => b = c \/ busToIndex[b] = None
  /\ positions \in SUBSET Pos
  /\ busIds \in [Pos -> Bus \cup {None}]
  /\ \A p \in Pos : busIds[p] # None => p \in positions
  /\ pass = "start"
  /\ todo = {}
  /\ mapping = [p \in Pos |-> None]
  /\ claimed = [i \in Index |-> None]

\* No bus id was resolved for any sysfs device: the document keeps its own
\* positions.
KeepPositions ==
  /\ pass = "start"
  /\ \A b \in Bus : busToIndex[b] = None
  /\ mapping' = [p \in Pos |-> IF p \in positions THEN p ELSE None]
  /\ claimed' = [i \in Index |-> IF i \in positions THEN i ELSE None]
  /\ pass' = "done"
  /\ UNCHANGED <<inputs, todo>>

BeginBusPass ==
  /\ pass = "start"
  /\ \E b \in Bus : busToIndex[b] # None
  /\ pass' = "bus"
  /\ todo' = positions
  /\ UNCHANGED <<inputs, mapping, claimed>>

\* Both loops walk the positions in ascending order.
Takes(p) ==
  /\ p \in todo
  /\ \A q \in todo : p <= q
  /\ todo' = todo \ {p}

Claim(p, i) ==
  /\ mapping' = [mapping EXCEPT ![p] = i]
  /\ claimed' = [claimed EXCEPT ![i] = p]

Drop == UNCHANGED <<mapping, claimed>>

\* Where the bus id of position p points; None without id or without match.
Target(p) == IF busIds[p] = None THEN None ELSE busToIndex[busIds[p]]

\* Mistake: a later entry with the same bus id takes the card over.
JoinByBusLastWins(p) ==
  /\ pass = "bus"
  /\ Takes(p)
  /\ IF Target(p) = None
     THEN Drop
     ELSE /\ mapping' = [q \in Pos |-> IF q = p THEN Target(p)
                                       ELSE IF mapping[q] = Target(p) THEN None
                                       ELSE mapping[q]]
          /\ claimed' = [claimed EXCEPT ![Target(p)] = p]
  /\ UNCHANGED <<inputs, pass>>

\* Pass 1: the first position that names a card owns it; a second one, and
\* one that names no sysfs device, are dropped.
JoinByBus(p) ==
  /\ pass = "bus"
  /\ Takes(p)
  /\ IF Target(p) # None /\ claimed[Target(p)] = None
     THEN Claim(p, Target(p))
     ELSE Drop
  /\ UNCHANGED <<inputs, pass>>

BeginPositionPass ==
  /\ pass = "bus"
  /\ todo = {}
  /\ pass' = "position"
  /\ todo' = positions
  /\ UNCHANGED <<inputs, mapping, claimed>>

\* Pass 2: an entry without a bus id takes the index of its position, unless
\* a card that identified itself already owns it.
JoinByPosition(p) ==
  /\ pass = "position"
  /\ Takes(p)
  /\ IF busIds[p] = None /\ claimed[p] = None THEN Claim(p, p) ELSE Drop
  /\ UNCHANGED <<inputs, pass>>

Finish ==
  /\ pass = "position"
  /\ todo = {}
  /\ pass' = "done"
  /\ UNCHANGED <<inputs, todo, mapping, claimed>>

Done == pass = "done" /\ UNCHANGED vars

Next ==
  \/ KeepPositions \/ BeginBusPass \/ BeginPositionPass \/ Finish \/ Done
  \/ \E p \in Pos : JoinByBus(p) \/ JoinByPosition(p)

Spec == Init /\ [][Next]_vars

-----------------------------------------------------------------------------
TypeOK ==
  /\ busToIndex \in [Bus -> Index \cup {None}]
  /\ positions \in SUBSET Pos
  /\ busIds \in [Pos -> Bus \cup {None}]
  /\ pass \in {"start", "bus", "position", "done"}
  /\ todo \in SUBSET Pos
  /\ mapping \in [Pos -> Index \cup {None}]
  /\ claimed \in [Index -> Pos \cup {None}]

\* No card is given the data of two entries: the mapping is injective, so
\* collecting the re-keyed entries into a map loses none and the outcome does
\* not depend on the iteration order of that map.
Injective ==
  \A p, q \in Pos : (mapping[p] # None /\ mapping[p] = mapping[q]) => p = q

\* A real identifier beats a guess: a card named by the bus id of some entry
\* ends up with the first such entry; an entry without a bus id only gets the
\* card at its position when no entry names that card; an entry naming a card
\* sysfs does not have is dropped, never attributed elsewhere.
Owner(i) == {p \in positions : /\ Target(p) = i
                               /\ \A q \in positions : Target(q) = i => p <= q}

RightCard ==
  (pass = "done" /\ \E b \in Bus : busToIndex[b] # None) =>
    \A p \in Pos, i \in Index :
      mapping[p] = i <=>
        \/ p \in Owner(i)
        \/ Owner(i) = {} /\ p = i /\ p \in positions /\ busIds[p] = None

=============================================================================
