----------------------------- MODULE PanicHook -----------------------------
(***************************************************************************)
(* Panics and the error pipeline (src/src/deploy.rs, install_panic_hook;   *)
(* src/src/hook.rs, invoke and run_capture_hooks).  A deployment installs  *)
(* a panic hook that turns each panic into a Fault<PanicError>, so that    *)
(* the capture hooks and the sinks see it, and then calls the hook it      *)
(* found.  The hooks of a fault run under catch_unwind; the panic hook's   *)
(* own fault is constructed under another catch_unwind.                    *)
(*                                                                         *)
(* The Rust runtime is external.  A panic first runs the process's panic   *)
(* hook, on the panicking thread, and only then unwinds to the nearest     *)
(* catch_unwind; a panic raised while the thread is inside the panic hook  *)
(* aborts the process at once (std::panicking, rust_panic_with_hook), and  *)
(* no catch_unwind gets to see it.                                         *)
(***************************************************************************)
EXTENDS Naturals, Sequences, FiniteSets, SequencesExt

CONSTANTS
  Threads,
  CaptureHooks,   \* the capture hooks, in order
  SinkHooks,      \* the sink hooks, in order
  Programs,       \* the behaviours of hooks to consider, see Program
  MaxPanics,      \* bound: panics
  MaxFaults       \* bound: application faults

Hooks == CaptureHooks \o SinkHooks
Types == {"App", "PanicError"}

\* <<hook, type>>: the hook may panic, may construct an application fault, when it
\* is given a fault of that type.
Program == [panics     : SUBSET (ToSet(Hooks) \X Types),
            constructs : SUBSET (ToSet(Hooks) \X Types)]

ASSUME HooksAssumption ==
  CaptureHooks \in Seq(ToSet(CaptureHooks)) /\ SinkHooks \in Seq(ToSet(SinkHooks))
ASSUME ProgramsAssumption == Programs \subseteq Program
ASSUME BoundsAssumption == MaxPanics \in Nat /\ MaxFaults \in Nat

VARIABLES
  program,     \* what the hooks of this process may do
  alive,       \* FALSE once the runtime has aborted the process
  installed,   \* install_panic_hook has run
  stack,       \* stack[t]: the constructions and panic hooks t is in
  errorCounts, \* ERROR_COUNTS
  panics,      \* history: panics raised
  chained,     \* history: times the previous panic hook was called, by whom
  built        \* history: application faults

vars == <<program, alive, installed, stack, errorCounts, panics, chained, built>>

\* A construction walks Hooks; it is counted between the two families.
Building(ty) == [kind |-> "fault", type |-> ty, at |-> 1, counted |-> FALSE,
                 pc |-> "next", ran |-> <<>>]
InPanicHook  == [kind |-> "panicHook"]

Fault == [kind : {"fault"}, type : Types, at : 1..(Len(Hooks) + 1), counted : BOOLEAN,
          pc : {"next", "call"}, ran : Seq(ToSet(Hooks))]

TypeOK ==
  /\ program \in Programs
  /\ alive \in BOOLEAN /\ installed \in BOOLEAN
  /\ stack \in [Threads -> Seq(Fault \cup {InPanicHook})]
  /\ errorCounts \in [Types -> Nat]
  /\ panics \in 0..MaxPanics /\ built \in 0..MaxFaults
  /\ chained \in [{"alone", "afterOurs"} -> Nat]
  /\ \A t \in Threads : \A i \in 1..Len(stack[t]) :
       stack[t][i] = InPanicHook => i < Len(stack[t]) /\ stack[t][i + 1].type = "PanicError"

Init ==
  /\ program \in Programs
  /\ alive = TRUE /\ installed = FALSE
  /\ stack = [t \in Threads |-> <<>>]
  /\ errorCounts = [ty \in Types |-> 0]
  /\ panics = 0 /\ built = 0
  /\ chained = [by \in {"alone", "afterOurs"} |-> 0]

-----------------------------------------------------------------------------
Top(t)       == Last(stack[t])
SetTop(s, f) == [s EXCEPT ![Len(s)] = f]
At(t, pc)    == stack[t] # <<>> /\ alive /\ Top(t).pc = pc
Hook(t)      == Hooks[Top(t).at]

\* The fan-out goes on with the next hook.
NextHook(f) == [f EXCEPT !.at = @ + 1, !.pc = "next"]

\* Faulty: the panic of a hook ends the loop over the hooks.
UnwoundOut(s) ==
  IF s = <<>> THEN s ELSE SetTop(s, [Last(s) EXCEPT !.at = Len(Hooks) + 1, !.pc = "next"])

\* s where the catch_unwind around the hook (or, outside hooks, the owner of the
\* thread) has caught the panic.
Unwound(s) == IF s = <<>> THEN s ELSE SetTop(s, NextHook(Last(s)))

\* install_panic_hook; a deployment's init gets here once.
Install ==
  /\ alive /\ ~installed
  /\ installed' = TRUE
  /\ UNCHANGED <<program, alive, stack, errorCounts, panics, chained, built>>

\* Fault::new, from user code or from a hook that constructs faults.
Construct(t) ==
  /\ alive
  /\ built < MaxFaults
  /\ stack[t] # <<>> => Top(t).pc = "call" /\ <<Hook(t), Top(t).type>> \in program.constructs
  /\ stack' = [stack EXCEPT ![t] = Append(@, Building("App"))]
  /\ built' = built + 1
  /\ UNCHANGED <<program, alive, installed, errorCounts, panics, chained>>

\* The turn of the next hook.  The sinks come after the count.
CallHook(t) ==
  /\ At(t, "next")
  /\ Top(t).at <= Len(Hooks)
  /\ Top(t).at > Len(CaptureHooks) => Top(t).counted
  /\ stack' = [stack EXCEPT ![t] =
                 SetTop(@, [Top(t) EXCEPT !.pc = "call", !.ran = Append(@, Hook(t))])]
  /\ UNCHANGED <<program, alive, installed, errorCounts, panics, chained, built>>

HookReturns(t) ==
  /\ At(t, "call")
  /\ stack' = [stack EXCEPT ![t] = SetTop(@, NextHook(Top(t)))]
  /\ UNCHANGED <<program, alive, installed, errorCounts, panics, chained, built>>

\* record_error, once the capture hooks have run.
Count(t) ==
  /\ At(t, "next")
  /\ Top(t).at = Len(CaptureHooks) + 1
  /\ ~Top(t).counted
  /\ errorCounts' = [errorCounts EXCEPT ![Top(t).type] = @ + 1]
  /\ stack' = [stack EXCEPT ![t] = SetTop(@, [Top(t) EXCEPT !.counted = TRUE])]
  /\ UNCHANGED <<program, alive, installed, panics, chained, built>>

\* Faulty: the installed hook replaces the one it found.
LeaveFaultUnchained(t) ==
  LET outer == Front(stack[t]) IN
  /\ UNCHANGED chained
  /\ stack' = [stack EXCEPT ![t] =
                 IF outer # <<>> /\ Last(outer) = InPanicHook
                 THEN Unwound(Front(outer)) ELSE outer]

\* The construction is over.  The panic hook's chains to the previous hook and
\* returns, and the runtime unwinds.
LeaveFault(t) ==
  LET outer == Front(stack[t]) IN
  IF outer # <<>> /\ Last(outer) = InPanicHook
  THEN /\ stack' = [stack EXCEPT ![t] = Unwound(Front(outer))]
       /\ chained' = [chained EXCEPT !["afterOurs"] = @ + 1]
  ELSE stack' = [stack EXCEPT ![t] = outer] /\ UNCHANGED chained

\* The throttle suppresses the fan-out to the sinks.
Suppress(t) ==
  /\ At(t, "next")
  /\ Top(t).at = Len(CaptureHooks) + 1
  /\ Top(t).counted
  /\ LeaveFault(t)
  /\ UNCHANGED <<program, alive, installed, errorCounts, panics, built>>

Finish(t) ==
  /\ At(t, "next")
  /\ Top(t).at > Len(Hooks)
  /\ Top(t).counted
  /\ LeaveFault(t)
  /\ UNCHANGED <<program, alive, installed, errorCounts, panics, built>>

\* Faulty: no panic of a hook can be caught.
NestsInHooks(t) == stack[t] # <<>>

\* The thread is inside the panic hook, at whatever depth.
Nests(t) == \E i \in DOMAIN stack[t] : stack[t][i] = InPanicHook

\* The installed hook begins: it constructs its fault.
Ours(t) == stack[t] \o <<InPanicHook, Building("PanicError")>>

\* A panic of the code t is running.
Panic(t) ==
  /\ panics < MaxPanics
  /\ panics' = panics + 1
  /\ \/ /\ Nests(t)
        /\ alive' = FALSE
        /\ UNCHANGED <<stack, chained>>
     \/ /\ ~Nests(t) /\ installed
        /\ stack' = [stack EXCEPT ![t] = Ours(t)]
        /\ UNCHANGED <<alive, chained>>
     \/ /\ ~Nests(t) /\ ~installed
        /\ chained' = [chained EXCEPT !["alone"] = @ + 1]
        /\ stack' = [stack EXCEPT ![t] = Unwound(@)]
        /\ UNCHANGED alive
  /\ UNCHANGED <<program, installed, errorCounts, built>>

HookPanics(t) ==
  /\ At(t, "call")
  /\ <<Hook(t), Top(t).type>> \in program.panics
  /\ Panic(t)

\* Outside any hook; the thread's owner catches the panic or starts another one.
UserPanics(t) == alive /\ stack[t] = <<>> /\ Panic(t)

Next ==
  \/ Install
  \/ \E t \in Threads :
       \/ Construct(t) \/ CallHook(t) \/ HookReturns(t) \/ Count(t)
       \/ Suppress(t) \/ Finish(t)
       \/ HookPanics(t) \/ UserPanics(t)

Spec == Init /\ [][Next]_vars

-----------------------------------------------------------------------------
\* Properties.

\* The positions of all frames, those of panic hooks, and those of the faults of
\* panics that have been counted.
Frames     == UNION {{t} \X DOMAIN stack[t] : t \in Threads}
FrameAt(p) == stack[p[1]][p[2]]
HookFrames == {p \in Frames : FrameAt(p) = InPanicHook}
CountedFrames == {p \in Frames : /\ FrameAt(p) # InPanicHook
                                 /\ FrameAt(p).type = "PanicError" /\ FrameAt(p).counted}

\* "Then CHAINS to the previously installed hook - never stomp": every panic
\* reaches the previous hook exactly once, though the report of it may raise
\* panics or construct faults; only the panic that aborts does not.
EveryPanicChained ==
  panics = chained["alone"] + chained["afterOurs"] + Cardinality(HookFrames)
           + (IF alive THEN 0 ELSE 1)

\* "the panic is counted in error_counts": and it is before the previous hook
\* gets to see it, once per panic that came to the installed hook.
PanicsCounted ==
  errorCounts["PanicError"] = chained["afterOurs"] + Cardinality(CountedFrames)

\* A fan-out that a panicking hook interrupted is taken up after the panic has
\* been reported, with the hook after it: no fault ends with a hook left out.
FansOutAcrossPanics ==
  [][\A t \in Threads : \A i \in 1..Len(stack[t]) :
       /\ stack[t][i] # InPanicHook
       /\ i > Len(stack'[t])
       => stack[t][i].ran \in {CaptureHooks, Hooks}]_vars

\* "A panicking hook is contained and does not prevent later hooks from running"
\* (add_error_hook): the process survives the panics of its hooks, at whatever
\* depth of constructions in hooks, if no hook panics on the fault of a panic, or
\* constructs one of its own on it, which another could panic on.
HooksContained ==
  (\A hook \in ToSet(Hooks) :
     <<hook, "PanicError">> \notin program.panics \cup program.constructs) => alive

\* Panics are counted, and do no more harm than that.
Inv == TypeOK /\ PanicsCounted /\ HooksContained

\* "a panic while REPORTING a panic must not abort inside the hook"
\* (install_panic_hook).
ProcessSurvives == alive
=============================================================================
