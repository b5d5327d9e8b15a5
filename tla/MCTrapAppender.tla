--------------------------- MODULE MCTrapAppender ---------------------------
(***************************************************************************)
(* Two destinations that may fail, on the main dispatch, and two ways to   *)
(* route error records: to the same two, as in a default deployment, or,   *)
(* with stderr_from, to stderr alone, which works.                         *)
(***************************************************************************)
EXTENDS TrapAppender, TLC

CONSTANTS t1, t2, d1, d2, err

Pair   == {t1, t2}
Main   == <<d1, d2>>
Either == {<<d1, d2>>, <<err>>}
Shared == {<<d1, d2>>}
=============================================================================
