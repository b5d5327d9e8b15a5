---------------------------- MODULE HookPipeline ----------------------------
(***************************************************************************)
(* The construction of a fault, from Frame::capture (src/src/exn.rs) to    *)
(* the last sink hook (hook::run_capture_hooks and hook::invoke in         *)
(* src/src/hook.rs), by several threads at once, with the hook registries  *)
(* changing under it.                                                      *)
(*                                                                         *)
(* Frame::capture runs the capture hooks on a snapshot of CAPTURE_HOOKS;   *)
(* invoke then bumps the counter of the error's type, asks the throttle,   *)
(* takes a snapshot of HOOKS, reads DEFAULT_HOOK_ENABLED and calls the     *)
(* sinks one by one.  No mutex is held while a hook runs, so a hook may    *)
(* construct a fault or call any registry operation itself: a thread has a *)
(* stack of activations, and activation <<t, d>> is the d-th call on the   *)
(* stack of t.  A hook may also panic; catch_unwind contains it.           *)
(*                                                                         *)
(* Whether the throttle suppresses a fault is a free choice here: every    *)
(* verdict of RateLimiter, for any limit and clock, is one of the two.     *)
(***************************************************************************)
EXTENDS Naturals, Sequences, FiniteSets

CONSTANTS
  Threads,     \* the threads of the process
  Nobody,      \* no activation (a free mutex)
  Types,       \* the error types, the keys of ERROR_COUNTS
  MaxDepth,    \* bound: calls nested on one thread's stack
  MaxHooks,    \* bound: hooks registered per family
  MaxFaults    \* bound: faults constructed per type

ASSUME BoundsAssumption ==
  MaxDepth \in Nat \ {0} /\ MaxHooks \in Nat /\ MaxFaults \in Nat

Activation == Threads \X (1..MaxDepth)

ASSUME NobodyAssumption == Nobody \notin Activation

VARIABLES
  \* the registries (HookRegistry)
  slots, holder, nextId, call, issued, retired,
  \* the pipeline
  depth,            \* depth[t]: number of calls on t's stack
  fault,            \* fault[a]: the construction activation a is in
  errorCounts,      \* ERROR_COUNTS
  defaultEnabled,   \* DEFAULT_HOOK_ENABLED
  begun             \* history: constructions begun per type

registryVars == <<slots, holder, nextId, call, issued, retired>>
processVars  == <<errorCounts, defaultEnabled, begun>>
vars == <<registryVars, depth, fault, processVars>>

Registry == INSTANCE HookRegistry WITH Caller <- Activation

Default == 0        \* the id of the default hook

NoFault == [pc |-> "none", type |-> "none", fam |-> "capture", snap |-> <<>>,
            at |-> 0, skip |-> FALSE, ran |-> <<>>, ordinal |-> 0, seen |-> 0,
            gone |-> {}]

Hooks == 0..MaxHooks

Fault == [pc   : {"none", "snapshot", "load", "next", "call", "throttle"},
          type : Types \cup {"none"},
          fam  : {"capture", "sink"},
          snap : Seq(Hooks),      \* the snapshot Arc of the current loop
          at   : Nat,             \* the position of the loop in it
          skip : BOOLEAN,         \* skip_default
          ran  : Seq(Hooks),      \* history: the hooks called by this loop
          ordinal : Nat,          \* the count this fault's own bump made
          seen : Nat,             \* Envelope.occurrence; 0: no envelope yet
          gone : SUBSET Hooks]    \* history: sinks retired before it began

TypeOK ==
  /\ Registry!TypeOK
  /\ depth \in [Threads -> 0..MaxDepth]
  /\ fault \in [Activation -> Fault]
  /\ errorCounts \in [Types -> Nat]
  /\ defaultEnabled \in BOOLEAN
  /\ begun \in [Types -> 0..MaxFaults]
  /\ \A a \in Activation : a[2] > depth[a[1]] => fault[a] = NoFault /\ call[a] = Registry!Idle

Init ==
  /\ Registry!Init
  /\ depth = [t \in Threads |-> 0]
  /\ fault = [a \in Activation |-> NoFault]
  /\ errorCounts = [ty \in Types |-> 0]
  /\ defaultEnabled = TRUE
  /\ begun = [ty \in Types |-> 0]

-----------------------------------------------------------------------------
\* The stack of a thread.

Top(t) == <<t, depth[t]>>
New(t) == <<t, depth[t] + 1>>

\* t runs user code: outside the library, or inside a hook.
InUserCode(t) == depth[t] > 0 => fault[Top(t)].pc = "call"

Push(t) ==
  /\ InUserCode(t)
  /\ depth[t] < MaxDepth
  /\ depth' = [depth EXCEPT ![t] = @ + 1]

Pop(t) == depth' = [depth EXCEPT ![t] = @ - 1]

-----------------------------------------------------------------------------
\* Registry operations, called from user code.

BeginRegistryCall(t) ==
  /\ Push(t)
  /\ \/ \E f \in Registry!Family : Registry!BeginAdd(New(t), f)
     \/ \E id \in issued["sink"] \cup {Default} : Registry!BeginRemove(New(t), id)
     \/ Registry!BeginClear(New(t))
  /\ UNCHANGED <<fault, processVars>>

LockRegistry(t) ==
  /\ depth[t] > 0
  /\ Registry!Acquire(Top(t))
  /\ UNCHANGED <<depth, fault, processVars>>

EndRegistryCall(t) ==
  /\ depth[t] > 0
  /\ Registry!Store(Top(t))
  /\ Pop(t)
  /\ UNCHANGED <<fault, processVars>>

\* set_default_hook_enabled: one relaxed store.
SetDefaultHookEnabled(t, enabled) ==
  /\ InUserCode(t)
  /\ defaultEnabled' = enabled
  /\ UNCHANGED <<registryVars, depth, fault, errorCounts, begun>>

-----------------------------------------------------------------------------
\* The construction.

\* The construction on top of t's stack is at pc / goes on as c.
At(t, pc)    == depth[t] > 0 /\ fault[Top(t)].pc = pc
Become(t, c) == fault' = [fault EXCEPT ![Top(t)] = c]

\* Frame::capture is entered.
Construct(t, ty) ==
  /\ begun[ty] < MaxFaults
  /\ Push(t)
  /\ fault' = [fault EXCEPT ![New(t)] = [NoFault EXCEPT !.pc = "snapshot", !.type = ty,
                                                        !.gone = retired["sink"]]]
  /\ begun' = [begun EXCEPT ![ty] = @ + 1]
  /\ UNCHANGED <<registryVars, errorCounts, defaultEnabled>>

\* Faulty: the guard of the registry lives as long as the snapshot.
TakeSnapshotHolding(t) ==
  LET c == fault[Top(t)] IN
  /\ At(t, "snapshot")
  /\ Registry!Free(c.fam)
  /\ holder' = [holder EXCEPT ![c.fam] = Top(t)]
  /\ Become(t, [c EXCEPT !.snap = slots[c.fam], !.at = 1, !.ran = <<>>,
                         !.pc = IF c.fam = "sink" THEN "load" ELSE "next"])
  /\ UNCHANGED <<slots, nextId, call, issued, retired, depth, processVars>>

\* registry.snapshot(): the mutex is taken for the clone of the Arc and is free
\* again before anything else happens.
TakeSnapshot(t) ==
  LET c == fault[Top(t)] IN
  /\ At(t, "snapshot")
  /\ Registry!Free(c.fam)
  /\ Become(t, [c EXCEPT !.snap = slots[c.fam], !.at = 1, !.ran = <<>>,
                         !.pc = IF c.fam = "sink" THEN "load" ELSE "next"])
  /\ UNCHANGED <<registryVars, depth, processVars>>

\* skip_default = !DEFAULT_HOOK_ENABLED.load(): after the snapshot, a second
\* read of shared state.
LoadDefaultEnabled(t) ==
  LET c == fault[Top(t)] IN
  /\ At(t, "load")
  /\ Become(t, [c EXCEPT !.skip = ~defaultEnabled, !.pc = "next"])
  /\ UNCHANGED <<registryVars, depth, processVars>>

\* The loop is at the disabled default hook: `if i == 0 && skip_default`.
AtSkipped(c) == c.fam = "sink" /\ c.at = 1 /\ c.skip

\* Faulty: the envelope carries the count before the bump.
CallHookBeforeBump(t) ==
  LET c == fault[Top(t)]  hook == c.snap[c.at] IN
  /\ At(t, "next")
  /\ c.at <= Len(c.snap)
  /\ ~AtSkipped(c)
  /\ Become(t, [c EXCEPT !.pc = "call", !.ran = Append(@, hook),
                         !.seen = IF c.fam = "sink" /\ hook = Default
                                    THEN errorCounts[c.type] - 1 ELSE @])
  /\ UNCHANGED <<registryVars, depth, processVars>>

\* One turn of the loop enters the hook.  The default hook logs an envelope
\* whose occurrence it reads from ERROR_COUNTS now.
CallHook(t) ==
  LET c == fault[Top(t)]  hook == c.snap[c.at] IN
  /\ At(t, "next")
  /\ c.at <= Len(c.snap)
  /\ ~AtSkipped(c)
  /\ Become(t, [c EXCEPT !.pc = "call", !.ran = Append(@, hook),
                         !.seen = IF c.fam = "sink" /\ hook = Default
                                    THEN errorCounts[c.type] ELSE @])
  /\ UNCHANGED <<registryVars, depth, processVars>>

SkipDefault(t) ==
  LET c == fault[Top(t)] IN
  /\ At(t, "next")
  /\ AtSkipped(c)
  /\ Become(t, [c EXCEPT !.at = 2])
  /\ UNCHANGED <<registryVars, depth, processVars>>

HookReturns(t) ==
  LET c == fault[Top(t)] IN
  /\ At(t, "call")
  /\ Become(t, [c EXCEPT !.pc = "next", !.at = @ + 1])
  /\ UNCHANGED <<registryVars, depth, processVars>>

\* Faulty: catch_unwind is around the loop, so a panic ends the fan-out.
HookPanicsOut(t) ==
  LET c == fault[Top(t)] IN
  /\ At(t, "call")
  /\ Become(t, [c EXCEPT !.pc = "next", !.at = Len(c.snap) + 1])
  /\ UNCHANGED <<registryVars, depth, processVars>>

\* catch_unwind discards the panic; the loop goes on with the next hook.
HookPanics(t) == HookReturns(t)

LoopDone(t, f) ==
  LET c == fault[Top(t)] IN At(t, "next") /\ c.fam = f /\ c.at > Len(c.snap)

\* run_capture_hooks returns (its snapshot is dropped), the frame is shared,
\* invoke is entered and record_error bumps the counter.
RecordError(t) ==
  LET c == fault[Top(t)] IN
  /\ LoopDone(t, "capture")
  /\ errorCounts' = [errorCounts EXCEPT ![c.type] = @ + 1]
  /\ Become(t, [NoFault EXCEPT !.pc = "throttle", !.type = c.type, !.gone = c.gone,
                               !.ordinal = errorCounts[c.type] + 1])
  /\ UNCHANGED <<registryVars, depth, defaultEnabled, begun>>

\* throttled() said no.
Admit(t) ==
  LET c == fault[Top(t)] IN
  /\ At(t, "throttle")
  /\ Become(t, [c EXCEPT !.fam = "sink", !.pc = "snapshot"])
  /\ UNCHANGED <<registryVars, depth, processVars>>

Return(t) ==
  /\ Become(t, NoFault)
  /\ Pop(t)
  /\ UNCHANGED <<registryVars, processVars>>

\* throttled() said yes: invoke returns without calling a sink.
Suppress(t) == At(t, "throttle") /\ Return(t)

\* The fan-out is over and the constructor returns.
Finish(t) == LoopDone(t, "sink") /\ Return(t)

-----------------------------------------------------------------------------
\* A step of the library on behalf of t (as opposed to a call t chooses to make).
Proceed(t) ==
  \/ EndRegistryCall(t)
  \/ LoadDefaultEnabled(t)
  \/ CallHook(t) \/ SkipDefault(t)
  \/ HookReturns(t) \/ HookPanics(t)
  \/ RecordError(t)
  \/ Admit(t) \/ Suppress(t)
  \/ Finish(t)

\* Steps that wait for a registry mutex.
Wait(t) == LockRegistry(t) \/ TakeSnapshot(t)

Next ==
  \E t \in Threads :
    \/ BeginRegistryCall(t)
    \/ \E enabled \in BOOLEAN : SetDefaultHookEnabled(t, enabled)
    \/ \E ty \in Types : Construct(t, ty)
    \/ Wait(t)
    \/ Proceed(t)

Spec == Init /\ [][Next]_vars

\* The hook that activation <<t, d>> is in ends.
HookEnds(t, d) == depth[t] = d /\ (HookReturns(t) \/ HookPanics(t))

(***************************************************************************)
(* Threads are scheduled, and a waiter of a parking_lot mutex is not       *)
(* overtaken for ever: a thread whose next step is the library's takes it  *)
(* in the end, if its mutex is free again and again (strong fairness).     *)
(* And a hook, however often it calls back into the library, ends: that is *)
(* an assumption about user code.  It is enabled again after each call,    *)
(* not while the call lasts, hence strong fairness again; at MaxDepth a    *)
(* hook makes no calls and the first assumption covers it.                 *)
(***************************************************************************)
Fairness ==
  \A t \in Threads :
    /\ SF_vars(Proceed(t) \/ Wait(t))
    /\ \A d \in 1..(MaxDepth - 1) : SF_vars(HookEnds(t, d))

FairSpec == Spec /\ Fairness

-----------------------------------------------------------------------------
\* Properties.

\* "Every constructed Fault fans out to ALL registered hooks" (hook.rs, module
\* comment): a fault that the throttle let through returns only after it has
\* called every hook of its snapshot once and in order, the disabled default
\* excepted, whichever of them panicked or constructed faults of their own.
CalledAll(c) ==
  \/ ~c.skip /\ c.ran = c.snap
  \/ c.skip /\ <<Default>> \o c.ran = c.snap /\ \A i \in 1..Len(c.ran) : c.ran[i] # Default

FansOutToAll ==
  [][\A a \in Activation :
       fault[a].fam = "sink" /\ fault'[a].pc = "none" => CalledAll(fault[a])]_vars

\* The counter counts constructions, not notifications (exn.rs, record_error):
\* nothing is lost between threads, and throttled faults count too.  A fault is
\* not counted yet while its capture hooks run.
Uncounted(ty) == {a \in Activation : /\ fault[a].pc # "none"
                                     /\ fault[a].type = ty
                                     /\ fault[a].ordinal = 0}

CountsConstructions ==
  \A ty \in Types : begun[ty] = errorCounts[ty] + Cardinality(Uncounted(ty))

\* "occurrence = constructions of this error type so far INCLUDING this one"
\* (hook.rs, Envelope): the count the default hook logs is never below the
\* fault's own place in the order of constructions, however late it is read.
OccurrenceIncludesSelf ==
  \A a \in Activation :
    LET c == fault[a] IN
    c.seen # 0 => c.ordinal # 0 /\ c.ordinal <= c.seen /\ c.seen <= errorCounts[c.type]

\* The counts that the hooks tell are right.
Inv == TypeOK /\ CountsConstructions /\ OccurrenceIncludesSelf

\* A sink whose removal has returned is not called for any fault constructed
\* afterwards, though faults already fanning out may still reach it.
NoCallAfterRemoval ==
  \A a \in Activation :
    fault[a].fam = "sink" => \A i \in 1..Len(fault[a].ran) : fault[a].ran[i] \notin fault[a].gone

\* No call of the program hangs, a construction or a registry operation: not even
\* with the hooks on its stack constructing faults and changing the registries
\* in turn, while other threads change them too.
CallReturns == \A t \in Threads : depth[t] > 0 ~> depth[t] = 0
=============================================================================
