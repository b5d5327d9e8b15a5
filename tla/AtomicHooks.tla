---------------------------- MODULE AtomicHooks ----------------------------
(***************************************************************************)
(* What a hook registry promises its callers: a list of hooks per family,  *)
(* changed by indivisible operations.  A hook is registered at most once,  *)
(* a hook that was taken out never comes back, and the built-in hook is    *)
(* first and stays.                                                        *)
(*                                                                         *)
(* HookRegistry, the copy-under-a-mutex protocol of src/src/hook.rs, is    *)
(* shown to implement this module.                                         *)
(***************************************************************************)
EXTENDS Naturals, Sequences, Functions

CONSTANT Ids        \* the identities a hook can be registered under, all but 0

Builtin == 0                        \* the built-in hook of each family
Family  == {"sink", "capture"}      \* add_error_hook / add_capture_hook

VARIABLES
  hooks,    \* hooks[f]: the registered hooks of family f, in fan-out order
  used      \* used[f]: the identities ever registered in family f

vars == <<hooks, used>>

Init ==
  /\ hooks = [f \in Family |-> <<Builtin>>]
  /\ used  = [f \in Family |-> {}]

\* A fresh hook joins at the end.
Add(f, id) ==
  /\ id \notin used[f]
  /\ hooks' = [hooks EXCEPT ![f] = Append(@, id)]
  /\ used'  = [used EXCEPT ![f] = @ \cup {id}]

\* s without its k-th element.
DropAt(s, k) == [i \in 1..(Len(s) - 1) |-> IF i < k THEN s[i] ELSE s[i + 1]]

\* One sink hook leaves; the others keep their order.
Remove(k) ==
  /\ hooks["sink"][k] # Builtin
  /\ hooks' = [hooks EXCEPT !["sink"] = DropAt(@, k)]
  /\ UNCHANGED used

\* Every sink hook leaves but the built-in one.
Clear ==
  /\ hooks' = [hooks EXCEPT !["sink"] = <<Builtin>>]
  /\ UNCHANGED used

Next ==
  \/ \E f \in Family, id \in Ids : Add(f, id)
  \/ \E k \in 1..Len(hooks["sink"]) : Remove(k)
  \/ Clear

Spec == Init /\ [][Next]_vars
=============================================================================
