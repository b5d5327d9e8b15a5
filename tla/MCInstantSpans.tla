--------------------------- MODULE MCInstantSpans ---------------------------
(***************************************************************************)
(* Four spans and four frames with two retained boundaries: boundaries are *)
(* evicted twice, with drains, clears and forgotten guards between them.   *)
(***************************************************************************)
EXTENDS InstantSpans
=============================================================================
