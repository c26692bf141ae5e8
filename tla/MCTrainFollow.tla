---------------------------- MODULE MCTrainFollow ----------------------------
(***************************************************************************)
(* Two pids and two processes, so that a pid can pass from a trainer to a  *)
(* trainer or to another process; two log lines, so that a log can be      *)
(* truncated and grow again; a negative probe that is retried at the       *)
(* second scan after it.                                                   *)
(***************************************************************************)
EXTENDS TrainFollow

TwoPids == {1, 2}
Either == {"arcade", "training"}
Arcade == {"arcade"}
=============================================================================
