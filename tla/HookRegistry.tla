---------------------------- MODULE HookRegistry ----------------------------
(***************************************************************************)
(* The two hook registries of src/src/hook.rs: HOOKS (sink hooks, with     *)
(* ids) and CAPTURE_HOOKS.  Both are a HookRegistry<F>: a mutex around an  *)
(* Arc<Vec<F>>.  A reader clones the Arc; a writer takes the mutex, clones *)
(* the vector, changes the clone and stores it before it lets go.          *)
(*                                                                         *)
(* A call is two or three steps.  add_error_hook draws its id from an      *)
(* atomic counter BEFORE it takes the mutex, so two registrations may be   *)
(* stored in the opposite order of their ids, and a clear may fall between *)
(* the two halves of an add.  The clone a writer made is kept in its call  *)
(* record until it is stored: without the mutex it would be stale then.    *)
(*                                                                         *)
(* HookIds are opaque (private field), so a caller can remove only an id   *)
(* an add has returned to somebody.  Capture hooks have no ids in the      *)
(* code; their number here only names them.                                *)
(***************************************************************************)
EXTENDS Naturals, Sequences, Functions

CONSTANTS
  Caller,     \* the activations that call registry operations
  Nobody,     \* no activation
  MaxHooks    \* bound: hooks registered per family in a behaviour

ASSUME CallerAssumption   == Nobody \notin Caller
ASSUME MaxHooksAssumption == MaxHooks \in Nat

Family  == {"sink", "capture"}
Builtin == 0                \* DEFAULT_HOOK_ID; the built-in capture hooks
Ids     == 1..MaxHooks

VARIABLES
  slots,      \* slots[f]: the vector behind the snapshot Arc of family f
  holder,     \* holder[f]: who holds the mutex of family f
  nextId,     \* nextId[f]: NEXT_HOOK_ID for sinks
  call,       \* call[c]: the registry operation c is in
  issued,     \* history: the ids an add has returned
  retired     \* history: the ids a remove or a clear took out

vars == <<slots, holder, nextId, call, issued, retired>>

Idle == [step |-> "idle", kind |-> "none", fam |-> "sink", id |-> Builtin,
         copy |-> <<>>]

Call == [step : {"idle", "waiting", "locked"},
         kind : {"none", "add", "remove", "clear"},
         fam  : Family,
         id   : {Builtin} \cup Ids,
         copy : Seq({Builtin} \cup Ids)]

TypeOK ==
  /\ slots   \in [Family -> Seq({Builtin} \cup Ids)]
  /\ holder  \in [Family -> Caller \cup {Nobody}]
  /\ nextId  \in [Family -> 1..(MaxHooks + 1)]
  /\ call    \in [Caller -> Call]
  /\ issued  \in [Family -> SUBSET Ids]
  /\ retired \in [Family -> SUBSET Ids]

Init ==
  /\ slots   = [f \in Family |-> <<Builtin>>]
  /\ holder  = [f \in Family |-> Nobody]
  /\ nextId  = [f \in Family |-> 1]
  /\ call    = [c \in Caller |-> Idle]
  /\ issued  = [f \in Family |-> {}]
  /\ retired = [f \in Family |-> {}]

-----------------------------------------------------------------------------
\* Entering an operation.

\* add_error_hook / add_capture_hook: fetch_add the id, then wait for the
\* mutex in push.
BeginAdd(c, f) ==
  /\ call[c].step = "idle"
  /\ nextId[f] <= MaxHooks
  /\ nextId' = [nextId EXCEPT ![f] = @ + 1]
  /\ call' = [call EXCEPT ![c] = [step |-> "waiting", kind |-> "add", fam |-> f,
                                  id |-> nextId[f], copy |-> <<>>]]
  /\ UNCHANGED <<slots, holder, issued, retired>>

\* remove_error_hook: refuses the default hook's id at once, returning false
\* with nothing changed, so only other ids get as far as remove_where.
BeginRemove(c, id) ==
  /\ call[c].step = "idle"
  /\ id \in issued["sink"] \cup {Builtin}
  /\ id # Builtin
  /\ call' = [call EXCEPT ![c] = [step |-> "waiting", kind |-> "remove",
                                  fam |-> "sink", id |-> id, copy |-> <<>>]]
  /\ UNCHANGED <<slots, holder, nextId, issued, retired>>

\* clear_error_hooks: HookRegistry::reset.
BeginClear(c) ==
  /\ call[c].step = "idle"
  /\ call' = [call EXCEPT ![c] = [step |-> "waiting", kind |-> "clear",
                                  fam |-> "sink", id |-> Builtin, copy |-> <<>>]]
  /\ UNCHANGED <<slots, holder, nextId, issued, retired>>

-----------------------------------------------------------------------------
\* The critical section.

Free(f) == holder[f] = Nobody

\* Faulty: the clone is made without waiting for the mutex.
AcquireHeld(c) ==
  LET f == call[c].fam IN
  /\ call[c].step = "waiting"
  /\ holder' = [holder EXCEPT ![f] = c]
  /\ call' = [call EXCEPT ![c] = [@ EXCEPT !.step = "locked", !.copy = slots[f]]]
  /\ UNCHANGED <<slots, nextId, issued, retired>>

\* self.slots.lock(), then (**guard).clone().
Acquire(c) ==
  LET f == call[c].fam IN
  /\ call[c].step = "waiting"
  /\ Free(f)
  /\ holder' = [holder EXCEPT ![f] = c]
  /\ call' = [call EXCEPT ![c] = [step |-> "locked", kind |-> call[c].kind,
                                  fam |-> f, id |-> call[c].id,
                                  copy |-> slots[f]]]
  /\ UNCHANGED <<slots, nextId, issued, retired>>

\* s without its k-th element (Vec::retain where exactly one entry matches:
\* the ids in a vector are distinct, see DistinctHooks).
DropAt(s, k) == [i \in 1..(Len(s) - 1) |-> IF i < k THEN s[i] ELSE s[i + 1]]

\* The call returns and its guard is dropped.
Leave(c) ==
  /\ holder' = [holder EXCEPT ![call[c].fam] = Nobody]
  /\ call' = [call EXCEPT ![c] = Idle]
  /\ UNCHANGED nextId

\* push: *guard = Arc::new(clone + hook); add_error_hook returns the id.
StoreAdd(c) ==
  LET f == call[c].fam  id == call[c].id IN
  /\ call[c].step = "locked" /\ call[c].kind = "add"
  /\ slots'  = [slots EXCEPT ![f] = Append(call[c].copy, id)]
  /\ issued' = [issued EXCEPT ![f] = @ \cup {id}]
  /\ Leave(c)
  /\ UNCHANGED retired

\* Faulty: the clone without the hook is never stored.
StoreRemoveForgotten(c) ==
  /\ call[c].step = "locked" /\ call[c].kind = "remove"
  /\ call[c].id \in Range(call[c].copy)
  /\ retired' = [retired EXCEPT !["sink"] = @ \cup {call[c].id}]
  /\ Leave(c)
  /\ UNCHANGED <<slots, issued>>

\* remove_where found the id: the clone without it is stored, returns true.
StoreRemove(c) ==
  LET old == call[c].copy  id == call[c].id IN
  /\ call[c].step = "locked" /\ call[c].kind = "remove"
  /\ \E k \in DOMAIN old :
       /\ old[k] = id
       /\ slots' = [slots EXCEPT !["sink"] = DropAt(old, k)]
  /\ retired' = [retired EXCEPT !["sink"] = @ \cup {id}]
  /\ Leave(c)
  /\ UNCHANGED issued

\* Faulty: the early return leaks the guard.
MissRemoveLeaking(c) ==
  /\ call[c].step = "locked" /\ call[c].kind = "remove"
  /\ call[c].id \notin Range(call[c].copy)
  /\ call' = [call EXCEPT ![c] = Idle]
  /\ UNCHANGED <<slots, holder, nextId, issued, retired>>

\* remove_where found nothing (already removed or cleared): returns false.
MissRemove(c) ==
  /\ call[c].step = "locked" /\ call[c].kind = "remove"
  /\ call[c].id \notin Range(call[c].copy)
  /\ Leave(c)
  /\ UNCHANGED <<slots, issued, retired>>

\* Faulty: the reset stores an empty vector, the built-in hook is gone.
StoreEmpty(c) ==
  /\ call[c].step = "locked" /\ call[c].kind = "clear"
  /\ slots'   = [slots EXCEPT !["sink"] = <<>>]
  /\ retired' = [retired EXCEPT !["sink"] = @ \cup (Range(slots["sink"]) \ {Builtin})]
  /\ Leave(c)
  /\ UNCHANGED issued

\* reset: *guard = Arc::new((self.default)()).
StoreClear(c) ==
  /\ call[c].step = "locked" /\ call[c].kind = "clear"
  /\ slots'   = [slots EXCEPT !["sink"] = <<Builtin>>]
  /\ retired' = [retired EXCEPT !["sink"] = @ \cup (Range(slots["sink"]) \ {Builtin})]
  /\ Leave(c)
  /\ UNCHANGED issued

Store(c) == StoreAdd(c) \/ StoreRemove(c) \/ MissRemove(c) \/ StoreClear(c)

Next ==
  \E c \in Caller :
    \/ \E f \in Family : BeginAdd(c, f)
    \/ \E id \in issued["sink"] \cup {Builtin} : BeginRemove(c, id)
    \/ BeginClear(c)
    \/ Acquire(c)
    \/ Store(c)

Spec == Init /\ [][Next]_vars

(***************************************************************************)
(* A thread inside the critical section runs on (weak fairness).  The      *)
(* mutex is parking_lot's, which hands over fairly from time to time, so a *)
(* waiter is not overtaken for ever (strong fairness).                     *)
(***************************************************************************)
Fairness == \A c \in Caller : SF_vars(Acquire(c)) /\ WF_vars(Store(c))

FairSpec == Spec /\ Fairness

-----------------------------------------------------------------------------
\* Properties.

\* The comment at HOOKS ("INVARIANT: index 0 is ALWAYS the default hook") and
\* the one at CAPTURE_HOOKS: whatever adds, removes and clears run together,
\* the built-in hook is first and is nowhere else; set_default_hook_enabled
\* skips position 0 on the strength of it.
BuiltinFirst ==
  \A f \in Family :
    /\ Len(slots[f]) > 0
    /\ \A i \in 1..Len(slots[f]) : slots[f][i] = Builtin <=> i = 1

\* No hook is in a vector twice: an error reaches each sink once, and
\* remove_where takes out exactly one entry.
DistinctHooks ==
  \A f \in Family : \A i, j \in 1..Len(slots[f]) :
    slots[f][i] = slots[f][j] => i = j

\* The vector holds exactly the hooks whose add has returned and that nobody
\* has removed or cleared since: no concurrent writer loses a registration
\* and none brings a removed hook back.
HooksAreLive ==
  \A f \in Family :
    /\ \A i \in 1..Len(slots[f]) : slots[f][i] \in {Builtin} \cup (issued[f] \ retired[f])
    /\ \A id \in issued[f] \ retired[f] : \E i \in 1..Len(slots[f]) : slots[f][i] = id

\* Every registry call returns.
CallReturns == \A c \in Caller : call[c].step # "idle" ~> call[c].step = "idle"

\* The registry implements the atomic one.
Atomic == INSTANCE AtomicHooks WITH hooks <- slots, used <- issued

ImplementsAtomicHooks == Atomic!Spec

-----------------------------------------------------------------------------
\* The inductive invariant.

\* Whoever holds a mutex is inside its critical section and the other way
\* round; the clone made there is still the current vector.
Exclusive ==
  \A c \in Caller :
    call[c].step = "locked" => /\ holder[call[c].fam] = c
                               /\ call[c].copy = slots[call[c].fam]

\* An id drawn but not yet stored belongs to one add and is in no vector.
FreshIds ==
  /\ \A f \in Family : \A id \in issued[f] : id < nextId[f]
  /\ \A f \in Family : retired[f] \subseteq issued[f]
  /\ \A c \in Caller : call[c].step # "idle" /\ call[c].kind = "add" =>
       /\ call[c].id < nextId[call[c].fam]
       /\ call[c].id \in Ids
       /\ call[c].id \notin issued[call[c].fam]
  /\ \A c, d \in Caller :
       /\ call[c].step # "idle" /\ call[c].kind = "add"
       /\ call[d].step # "idle" /\ call[d].kind = "add"
       /\ call[c].fam = call[d].fam
       /\ call[c].id = call[d].id
       => c = d

\* Removes and clears address sinks only, and never the built-in one.
CallShape ==
  \A c \in Caller :
    /\ call[c].kind \in {"remove", "clear"} => call[c].fam = "sink"
    /\ call[c].step # "idle" /\ call[c].kind = "remove" =>
         call[c].id \in issued["sink"]

Inv ==
  /\ TypeOK
  /\ BuiltinFirst
  /\ DistinctHooks
  /\ HooksAreLive
  /\ Exclusive
  /\ FreshIds
  /\ CallShape
=============================================================================
