---------------------------- MODULE MCPanicHook ----------------------------
(***************************************************************************)
(* A capture hook and two sinks; the capture hook and the first sink may   *)
(* panic, the second sink constructs faults of its own.  In one program    *)
(* they do so on every fault, in the other on application faults only.     *)
(***************************************************************************)
EXTENDS PanicHook, TLC

CONSTANTS t1, t2, capture, first, second

Pair == {t1, t2}
One  == <<capture>>
Two  == <<first, second>>

On(types) == [panics |-> {first, capture} \X types, constructs |-> {second} \X types]
MCPrograms == {On(Types), On({"App"})}

\* Hooks that panic on everything and construct nothing.
Panicky == {[On(Types) EXCEPT !.constructs = {}]}

Symmetric == Permutations(Pair)
=============================================================================
