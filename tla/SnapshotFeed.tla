---------------------------- MODULE SnapshotFeed ----------------------------
(***************************************************************************)
(* What every background feed of tt-toplike promises the thread that draws *)
(* the screen: a producer replaces one shared snapshot by a newer one, and *)
(* the consumer, while it is open, ends up showing the newest one.         *)
(* Snapshots are numbered in the order they are produced; 0 is the empty   *)
(* snapshot that is there before the first one.  The consumer may skip     *)
(* snapshots, and may never show one that is older than what it showed.    *)
(*                                                                         *)
(* HybridBackend and WsBackend are shown to implement this specification.  *)
(***************************************************************************)
EXTENDS Naturals

VARIABLES
  produced,   \* number of the snapshot in the shared slot
  shown,      \* number of the snapshot the consumer has adopted
  closed      \* the consumer has begun to shut the feed down

feedVars == <<produced, shown, closed>>

FeedInit ==
  /\ produced = 0
  /\ shown = 0
  /\ closed = FALSE

Produce ==
  /\ produced' \in Nat
  /\ produced' > produced
  /\ UNCHANGED <<shown, closed>>

Show ==
  /\ ~closed
  /\ shown < produced
  /\ shown' = produced
  /\ UNCHANGED <<produced, closed>>

Close ==
  /\ ~closed
  /\ closed' = TRUE
  /\ UNCHANGED <<produced, shown>>

FeedNext == Produce \/ Show \/ Close

FeedSafety == FeedInit /\ [][FeedNext]_feedVars

\* While the feed is open the newest snapshot is eventually shown.
FeedSpec == FeedSafety /\ WF_feedVars(Show)

=============================================================================
