---------------------------- MODULE MCResetWatch ----------------------------
(***************************************************************************)
(* Two pids, a reset command and another one: a pid can pass from a reset  *)
(* to another reset or to an unrelated process.  All four behaviours.  A   *)
(* demo of two animations has a first and a last one.                      *)
(***************************************************************************)
EXTENDS ResetWatch

TwoPids == {1, 2}
Reset == {"reset"}
Other == {"other"}
All == {"ignore", "inform", "dazzle", "demo"}
=============================================================================
