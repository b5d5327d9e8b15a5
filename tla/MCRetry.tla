------------------------------ MODULE MCRetry ------------------------------
(***************************************************************************)
(* Widths and exponents small enough for every saturation to be reached    *)
(* within six attempts; Doubling has the real exponent cap, 20.            *)
(***************************************************************************)
EXTENDS Retry

Small ==
  {[kind |-> "None"], [kind |-> "Fixed", delay |-> 3]}
  \cup [kind : {"Exponential"}, base : {0, 1, 3, 20}, factor : {0, 2, 5}, max : {0, 7, 31, 40}]

Doubling == {[kind |-> "Exponential", base |-> 1, factor |-> 2, max |-> 2^22]}
=============================================================================
