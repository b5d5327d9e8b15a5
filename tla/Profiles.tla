------------------------------ MODULE Profiles ------------------------------
(***************************************************************************)
(* Which profiling backends are live, and measured runs: the mask of       *)
(* ObserveConfig (src/src/config.rs), the scopes that read it when they are*)
(* entered (profiling.rs), and run_profiled (bench.rs), which turns the    *)
(* instant backend on for a closure and reports the spans the closure left *)
(* in the accumulator of its thread.                                       *)
(*                                                                         *)
(* The mask is one atomic word for the process; a thread's accumulator is  *)
(* its own (InstantSpans has its details: here it is the set of the spans  *)
(* that have finished).  Threads interleave between the steps of           *)
(* set_backends and of run_profiled.  bench.rs asks callers to serialize   *)
(* runs: serialized says whether they do.                                  *)
(***************************************************************************)
EXTENDS Naturals, Sequences, FiniteSets, SequencesExt

CONSTANTS
  Threads,
  Backends,      \* BACKENDS_INFO: the backends in the order they are checked
  instant, web, puffin, fastrace,
  Available,     \* those compiled in
  Masks,         \* masks the program sets
  MaxScopesOpen, \* bound: scopes a thread has open
  MaxSpans,      \* bound: spans recorded
  MaxCalls       \* bound: calls of set_backends and run_profiled

ASSUME BackendsAssumption ==
  /\ Backends \in Seq(ToSet(Backends))
  /\ {instant, web, puffin, fastrace} \cup Available \subseteq ToSet(Backends)
  /\ puffin # fastrace
ASSUME MasksAssumption == Masks \subseteq SUBSET ToSet(Backends)
\* The cargo feature of bench.rs implies that of the instant backend.
ASSUME BenchAssumption == instant \in Available
ASSUME ProfilesBoundAssumption == {MaxScopesOpen, MaxSpans, MaxCalls} \subseteq Nat

VARIABLES
  serialized,  \* the program sets masks and measures in one thread at a time; it
               \* does not change
  mask,        \* ObserveConfig.backends
  warned,      \* WARNED
  scopesOn,    \* puffin::set_scopes_on was called
  setting,     \* per thread: the set_backends in progress, if any
  open,        \* per thread: the scopes on its stack
  finished,    \* per thread: the accumulator
  runs,        \* per thread: the run_profiled calls on its stack
  warnings,    \* history: how often each backend was warned about
  wanted,      \* history: the mask the program asked for last
  requested,   \* history: every backend ever asked for
  spans,       \* history: scopes entered, each has its number
  calls,       \* history: calls made
  reported     \* history: the spans the last run reported, those its closure entered,
               \* and whether that measured too

maskVars    == <<mask, setting, requested>>
warnVars    == <<warned, warnings>>
spanVars    == <<open, finished, spans>>
runVars     == <<runs, reported>>
programVars == <<serialized, wanted, calls>>
profileVars == <<maskVars, warnVars, spanVars, runVars, programVars, scopesOn>>

Idle == [next |-> 0, backends |-> {}, previous |-> {}]

ProfilesInit ==
  /\ serialized \in BOOLEAN
  /\ mask = {fastrace} /\ warned = {} /\ scopesOn = FALSE
  /\ setting = [t \in Threads |-> Idle]
  /\ open = [t \in Threads |-> <<>>]
  /\ finished = [t \in Threads |-> {}]
  /\ runs = [t \in Threads |-> <<>>]
  /\ warnings = [b \in ToSet(Backends) |-> 0]
  /\ wanted = {fastrace} /\ requested = {} /\ spans = 0 /\ calls = 0
  /\ reported = [spans |-> {}, entered |-> {}, nested |-> FALSE]

-----------------------------------------------------------------------------
\* set_backends: the swap, one look at each backend, the hook of puffin.

Busy(t) == setting[t] # Idle \/ runs[t] # <<>>

\* What the program may start on thread t.
MayCall(t) ==
  /\ calls < MaxCalls
  /\ setting[t] = Idle
  /\ serialized => \A u \in Threads \ {t} : ~Busy(u)

\* self.backends.swap
Swap(t, backends) ==
  /\ mask' = backends
  /\ setting' = [setting EXCEPT ![t] = [next |-> 1, backends |-> backends, previous |-> mask]]
  /\ requested' = requested \cup backends

SetBackends(t, backends) ==
  /\ MayCall(t)
  /\ serialized => runs[t] = <<>>
  /\ calls' = calls + 1
  /\ Swap(t, backends)
  /\ wanted' = backends
  /\ UNCHANGED <<warnVars, spanVars, runVars, serialized, scopesOn>>

\* Faulty: the flag is read and written apart, another thread's bits are lost.
WarnUnavailableReset(t) ==
  LET b == Backends[setting[t].next] IN
  /\ setting[t].next \in DOMAIN Backends
  /\ setting' = [setting EXCEPT ![t].next = @ + 1]
  /\ IF b \in Available \/ b \notin setting[t].backends THEN UNCHANGED warnVars
     ELSE /\ warned' = {b}
          /\ warnings' = IF b \in warned THEN warnings ELSE [warnings EXCEPT ![b] = @ + 1]
  /\ UNCHANGED <<spanVars, runVars, programVars, mask, scopesOn, requested>>

\* One turn of the loop of warn_unavailable: WARNED.fetch_or.
WarnUnavailable(t) ==
  LET b == Backends[setting[t].next] IN
  /\ setting[t].next \in DOMAIN Backends
  /\ setting' = [setting EXCEPT ![t].next = @ + 1]
  /\ IF b \in Available \/ b \notin setting[t].backends THEN UNCHANGED warnVars
     ELSE /\ warned' = warned \cup {b}
          /\ warnings' = IF b \in warned THEN warnings ELSE [warnings EXCEPT ![b] = @ + 1]
  /\ UNCHANGED <<spanVars, runVars, programVars, mask, scopesOn, requested>>

\* puffin's scopes are switched on when its bit comes up.
OnEnable(t) ==
  /\ setting[t].next = Len(Backends) + 1
  /\ setting' = [setting EXCEPT ![t] = Idle]
  /\ scopesOn' = (scopesOn \/ puffin \in (setting[t].backends \ setting[t].previous) \cap Available)
  /\ UNCHANGED <<warnVars, spanVars, runVars, programVars, mask, requested>>

-----------------------------------------------------------------------------
\* Scopes.

\* In the code of the program: outside the library or in a measured closure.
InProgram(t) ==
  /\ setting[t] = Idle
  /\ runs[t] # <<>> => Last(runs[t]).at = "closure"

\* The scopes that were open when the innermost run of t began.
Outside(t) == IF runs[t] = <<>> THEN 0 ELSE Last(runs[t]).open

\* ScopeGuard::new_static: the spans of web ride on the instant backend.  The guards
\* of the other backends are stubs or external, and never looked at again.
Times == instant \in mask \/ web \in mask

EnterScope(t) ==
  /\ InProgram(t)
  /\ Len(open[t]) < MaxScopesOpen /\ spans < MaxSpans
  /\ spans' = spans + 1
  /\ open' = [open EXCEPT ![t] = Append(@, [timed |-> Times, span |-> spans'])]
  /\ runs' = [runs EXCEPT ![t] =
       [i \in DOMAIN @ |-> [@[i] EXCEPT !.entered = runs[t][i].entered \cup {spans'}]]]
  /\ UNCHANGED <<maskVars, warnVars, programVars, scopesOn, finished, reported>>

\* The innermost scope ends: it finishes what it began, whatever the mask is by now.
LeaveScope(t) ==
  /\ InProgram(t) /\ Len(open[t]) > Outside(t)
  /\ LET scope == Last(open[t]) IN
     /\ open' = [open EXCEPT ![t] = Front(@)]
     /\ finished' = IF scope.timed THEN [finished EXCEPT ![t] = @ \cup {scope.span}]
                    ELSE finished
  /\ UNCHANGED <<maskVars, warnVars, runVars, programVars, scopesOn, spans>>

-----------------------------------------------------------------------------
\* run_profiled.

At(t, place) == runs[t] # <<>> /\ Last(runs[t]).at = place /\ setting[t] = Idle

Move(t, place) == [runs EXCEPT ![t][Len(runs[t])].at = place]

\* The saved mask is loaded ...
Measure(t) ==
  /\ MayCall(t) /\ InProgram(t)
  /\ calls' = calls + 1
  /\ runs' = [runs EXCEPT ![t] =
       Append([i \in DOMAIN @ |-> [@[i] EXCEPT !.nested = TRUE]],
              [at |-> "force", saved |-> mask, open |-> Len(open[t]), entered |-> {},
               nested |-> FALSE])]
  /\ UNCHANGED <<maskVars, warnVars, spanVars, serialized, scopesOn, wanted, reported>>

\* ... and the instant bit added to what was loaded.
ForceInstant(t) ==
  /\ At(t, "force")
  /\ Swap(t, Last(runs[t]).saved \cup {instant})
  /\ runs' = Move(t, "clear")
  /\ UNCHANGED <<warnVars, spanVars, programVars, scopesOn, reported>>

ClearFinished(t) ==
  /\ At(t, "clear")
  /\ finished' = [finished EXCEPT ![t] = {}]
  /\ runs' = Move(t, "closure")
  /\ UNCHANGED <<maskVars, warnVars, programVars, scopesOn, open, spans, reported>>

\* The closure returns, its scopes have ended: drain.
Report(t) ==
  /\ At(t, "closure") /\ Len(open[t]) = Outside(t)
  /\ reported' = [spans   |-> finished[t],
                  entered |-> Last(runs[t]).entered,
                  nested  |-> Last(runs[t]).nested]
  /\ finished' = [finished EXCEPT ![t] = {}]
  /\ runs' = Move(t, "restore")
  /\ UNCHANGED <<maskVars, warnVars, programVars, scopesOn, open, spans>>

\* The closure panics: unwinding ends its scopes, then drops Restore.
ClosurePanics(t) ==
  /\ At(t, "closure") /\ Len(open[t]) = Outside(t)
  /\ runs' = Move(t, "restore")
  /\ UNCHANGED <<maskVars, warnVars, spanVars, programVars, scopesOn, reported>>

\* Restore::drop
Restore(t) ==
  /\ At(t, "restore")
  /\ Swap(t, Last(runs[t]).saved)
  /\ runs' = [runs EXCEPT ![t] = Front(@)]
  /\ UNCHANGED <<warnVars, spanVars, programVars, scopesOn, reported>>

ProfilesNext ==
  \E t \in Threads :
    \/ \E m \in Masks : SetBackends(t, m)
    \/ WarnUnavailable(t) \/ OnEnable(t)
    \/ EnterScope(t) \/ LeaveScope(t)
    \/ Measure(t) \/ ForceInstant(t) \/ ClearFinished(t)
    \/ Report(t) \/ ClosurePanics(t) \/ Restore(t)

ProfilesSpec == ProfilesInit /\ [][ProfilesNext]_profileVars
-----------------------------------------------------------------------------
\* Properties.

Settled == \A t \in Threads : setting[t] = Idle
Missing == requested \ Available

ProfilesTypeOK ==
  /\ {mask, warned, wanted, requested} \subseteq SUBSET ToSet(Backends)
  /\ scopesOn \in BOOLEAN
  /\ \A t \in Threads :
       /\ setting[t].next \in 0..(Len(Backends) + 1)
       /\ finished[t] \subseteq 1..spans
       /\ \A i \in DOMAIN open[t] : open[t][i].span \in 1..spans
       /\ \A i \in DOMAIN runs[t] : runs[t][i].at \in {"force", "clear", "closure", "restore"}
  /\ reported.spans \subseteq 1..spans

\* "One log::warn! per requested-but-not-compiled-in backend, once per process"
\* (warn_unavailable), whichever threads ask for it at once, those that measure and
\* restore included; and puffin, which records nothing before it is switched on, is
\* on by the time the mask that has it is settled.
SettledMaskWorks ==
  /\ \A b \in ToSet(Backends) : warnings[b] <= 1
  /\ Settled => /\ \A b \in Missing : warnings[b] = 1
                /\ puffin \in mask \cap Available => scopesOn

\* "The previous backend set is restored afterwards, even on panic" (run_profiled):
\* when no run is on, the mask is what the program asked for.
MaskRestored ==
  serialized /\ (\A t \in Threads : runs[t] = <<>>) => mask = wanted

\* A run reports the spans that its closure entered, and none that were open
\* or in the accumulator before, or on other threads: all of them, if no run in the
\* closure cleared the accumulator.  (run_profiled)
ReportsOwnSpans ==
  serialized => /\ reported.spans \subseteq reported.entered
                /\ ~reported.nested => reported.entered \subseteq reported.spans

\* A mask that is settled works, measuring leaves none behind, and what a run
\* reports is its closure's.
ProfilesInv == ProfilesTypeOK /\ SettledMaskWorks /\ MaskRestored /\ ReportsOwnSpans
=============================================================================
