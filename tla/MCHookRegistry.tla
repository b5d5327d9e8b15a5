--------------------------- MODULE MCHookRegistry ---------------------------
(***************************************************************************)
(* Three concurrent callers and two hooks per family: enough for two adds  *)
(* and a clear, or an add and two removes of one id, to overlap.           *)
(***************************************************************************)
EXTENDS HookRegistry

CONSTANTS c1, c2, c3

MCCaller == {c1, c2, c3}
=============================================================================
