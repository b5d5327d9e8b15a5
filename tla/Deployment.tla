----------------------------- MODULE Deployment -----------------------------
(***************************************************************************)
(* The deployment of the stack (src/src/deploy.rs): init wires the config  *)
(* toggles, the appenders, the global logger, its level, the trace         *)
(* reporter, the panic hook and the exit flush, one after the other.  Any  *)
(* number of callers may init at the same time, the program may install a  *)
(* logger and panic hooks of its own, and it is told to terminate.         *)
(*                                                                         *)
(* External: the log facade (one logger, first come; a global level), the  *)
(* logforth dispatch (a record goes to every appender of each dispatch     *)
(* whose filters let it pass), the filter of RUST_LOG directives (a level  *)
(* filter per target), std's panic hook (one value, taken and set in two   *)
(* calls) and the signals of the process.                                  *)
(*                                                                         *)
(* Severities are 1 (Error) to 5 (Trace); a level filter is the last one   *)
(* that passes, 0 for Off.  A record is the program's or, as the warnings  *)
(* of init, on a target of the library.                                    *)
(***************************************************************************)
EXTENDS Naturals, Sequences, FiniteSets, SequencesExt

CONSTANTS
  Callers,       \* the threads that call init
  Program,       \* the program's own code
  Nobody,
  Unset,         \* a setting or variable that is not given
  Bad,           \* a variable whose value is no level
  Settings,      \* the deployments the callers choose from
  EnvLevels,     \* what OBSERVE_LOG and RUST_LOG hold, in this order
  Directives,    \* what they say, of each target, if they hold more than a level
  EnvConfig,     \* what config() holds after the environment overrides
  PanicHooks     \* the panic hooks the program installs

Severities == 1..5
Error == 1
Warn  == 2
Info  == 3
Trace == 5

Targets == {"program", "library"}

Configs    == [backends : Nat, throttle : Nat]
Requested  == {"stdout", "file", "syslog", "journald"}
Appenders  == Requested \cup {"fastrace-events"}

\* `split` is stderr_from, `stamped` whether static_diag is not empty, `filtered`
\* whether rust_log_filter is on (with feature filter-rustlog), `traces` whether there
\* are traces: feature fastrace is compiled in and not TracesChoice::Off.
Deployments ==
  [level : 0..5 \cup {Unset}, appenders : SUBSET Requested, backends : Nat \cup {Unset},
   throttle : Nat \cup {Unset}, split : Severities \cup {Unset}, stamped : BOOLEAN,
   filtered : BOOLEAN, traces : BOOLEAN, panicHook : BOOLEAN, flushOnExit : BOOLEAN]

ASSUME PeopleAssumption   == Program \notin Callers /\ Nobody \notin Callers \cup {Program}
ASSUME ValuesAssumption   == Unset \notin Nat /\ Bad \notin Nat \cup {Unset}
ASSUME SettingsAssumption == Settings \subseteq Deployments
ASSUME EnvAssumption ==
  /\ EnvLevels \in [1..2 -> 0..5 \cup {Unset, Bad}] /\ EnvConfig \in Configs
  /\ Directives \in [1..2 -> [Targets -> 0..5]]
ASSUME HooksAssumption    == PanicHooks \cap Callers = {}

VARIABLES
  config,      \* the toggles of config()
  logger,      \* the global logger: its installer and its dispatches
  maxLevel,    \* log::max_level
  reporter,    \* who set the fastrace reporter
  hook,        \* the panic hook: what runs, in order, before the default one
  exitFlush,   \* who registered the flush at exit and on signals
  pc, plan,    \* per caller: where init is, the deployment it wires
  built,       \* per caller: the appenders it built
  previous,    \* per caller: the hook it took
  fate,        \* history: what became of each panic hook
  unheard,     \* history: warnings that no appender got
  signals,     \* history: SIGTERMs received
  alive        \* the process has not been terminated

vars == <<config, logger, maxLevel, reporter, hook, exitFlush, pc, plan, built,
          previous, fate, unheard, signals, alive>>

Steps == {"idle", "toggles", "throttle", "appenders", "apply", "clamp", "reporter", "takeHook",
          "setHook", "exitFlush", "ok", "failed"}

Dispatch == [passes : [Targets -> SUBSET Severities], to : SUBSET (Appenders \cup {"stderr"})]
NoLogger == [by |-> Nobody, dispatches |-> {}]
EnvVars  == <<"OBSERVE_LOG", "RUST_LOG">>
Hooks    == Callers \cup PanicHooks
Sources  == Appenders \cup ToSet(EnvVars)     \* what a warning is about

TypeOK ==
  /\ config    \in Configs
  /\ logger    \in [by : Callers \cup {Program, Nobody}, dispatches : SUBSET Dispatch]
  /\ maxLevel  \in 0..5
  /\ reporter  \in Callers \cup {Nobody}
  /\ hook      \in Seq(Hooks)
  /\ exitFlush \in SUBSET Callers
  /\ pc        \in [Callers -> Steps]
  /\ plan      \in [Callers -> Settings]
  /\ built     \in [Callers -> SUBSET Appenders]
  /\ previous  \in [Callers -> Seq(Hooks)]
  /\ fate      \in [Hooks -> {"none", "kept", "late", "replaced"}]
  /\ unheard   \in SUBSET Sources
  /\ signals   \in 0..1
  /\ alive     \in BOOLEAN

Init ==
  /\ config = EnvConfig
  /\ logger = NoLogger /\ maxLevel = 0
  /\ reporter = Nobody /\ hook = <<>> /\ exitFlush = {}
  /\ pc = [c \in Callers |-> "idle"]
  /\ plan \in [Callers -> Settings]
  /\ built = [c \in Callers |-> {}]
  /\ previous = [c \in Callers |-> <<>>]
  /\ fate = [h \in Hooks |-> "none"]
  /\ unheard = {} /\ signals = 0 /\ alive = TRUE

-----------------------------------------------------------------------------
\* The log facade and the dispatch.

\* The appenders that get a record, given the logger and the level.
Route(lg, max, target, severity) ==
  IF severity > max THEN {}
  ELSE UNION {d.to : d \in {x \in lg.dispatches : severity \in x.passes[target]}}

\* The warnings about `sources`, logged now.
Unheard(lg, max, sources) == IF Route(lg, max, "library", Warn) = {} THEN sources ELSE {}

Everywhere(S) == [t \in Targets |-> S]

-----------------------------------------------------------------------------
\* The pure parts of init.

Or(value, default) == IF value = Unset THEN default ELSE value

Parsable   == {i \in 1..2 : EnvLevels[i] \in 0..5}
FirstOf(S) == CHOOSE i \in S : \A j \in S : i <= j

\* resolve_level: the first source that holds a level, unparsable ones skipped.
Resolve(d) ==
  IF d.level # Unset THEN d.level
  ELSE IF Parsable = {} THEN Info ELSE EnvLevels[FirstOf(Parsable)]

\* The environment variables that resolve_level warns about on its way.
Misread(d) ==
  {EnvVars[i] : i \in {k \in 1..2 : /\ d.level = Unset /\ EnvLevels[k] = Bad
                                     /\ \A j \in Parsable : k < j}}

\* build_rust_log_filter: the first variable that is set, a level or directives;
\* the last severity that passes, by target.
EnvFilter ==
  LET given == {i \in 1..2 : EnvLevels[i] # Unset}
  IN  [t \in Targets |->
         CASE given = {} -> Info
           [] given # {} /\ EnvLevels[FirstOf(given)] = Bad -> Directives[FirstOf(given)][t]
           [] OTHER -> EnvLevels[FirstOf(given)]]

\* Whether the filter of a deployment, if it has one, drops a record.
Drops(d, target, severity) == d.filtered /\ severity > EnvFilter[target]

\* The filters of a dispatch: its severities and, in `common`, the environment's.
Filters(d, S) == [t \in Targets |-> {s \in S : ~Drops(d, t, s)}]

\* Section 3 of wire: the main dispatch and, with a split level, the one to
\* stderr.  Without a main appender there is a dispatch to stderr, of all
\* severities, if static context was given, and none otherwise.
Dispatches(d, mains) ==
  IF mains = {} THEN
    IF d.split # Unset /\ d.stamped
    THEN {[passes |-> Filters(d, Severities), to |-> {"stderr"}]} ELSE {}
  ELSE IF d.split = Unset THEN {[passes |-> Filters(d, Severities), to |-> mains]}
  ELSE {[passes |-> Filters(d, {s \in Severities : s > d.split}), to |-> mains],
        [passes |-> Filters(d, {s \in Severities : s <= d.split}), to |-> {"stderr"}]}

-----------------------------------------------------------------------------
\* The steps of wire.

Goto(c, from, to) == alive /\ pc[c] = from /\ pc' = [pc EXCEPT ![c] = to]

Begin(c) ==
  /\ Goto(c, "idle", "toggles")
  /\ UNCHANGED <<config, logger, maxLevel, reporter, hook, exitFlush, plan, built,
                 previous, fate, unheard, signals, alive>>

\* 1. The runtime toggles that are set, one after the other.
SetBackends(c) ==
  /\ Goto(c, "toggles", "throttle")
  /\ config' = [config EXCEPT !.backends = Or(plan[c].backends, @)]
  /\ UNCHANGED <<logger, maxLevel, reporter, hook, exitFlush, plan, built, previous, fate,
                 unheard, signals, alive>>

\* Faulty: an unset toggle resets the one in place.
SetThrottleAlways(c) ==
  /\ Goto(c, "throttle", "appenders")
  /\ config' = [config EXCEPT !.throttle = Or(plan[c].throttle, EnvConfig.throttle)]
  /\ UNCHANGED <<logger, maxLevel, reporter, hook, exitFlush, plan, built, previous, fate,
                 unheard, signals, alive>>

SetThrottle(c) ==
  /\ Goto(c, "throttle", "appenders")
  /\ config' = [config EXCEPT !.throttle = Or(plan[c].throttle, @)]
  /\ UNCHANGED <<logger, maxLevel, reporter, hook, exitFlush, plan, built, previous, fate,
                 unheard, signals, alive>>

\* 2. Stdout and the appender of trace events can always be built; the others may
\* not be compiled in or not be there, which is warned about.
BuildAppenders(c) ==
  /\ Goto(c, "appenders", "apply")
  /\ \E ok \in SUBSET plan[c].appenders :
       /\ "stdout" \in plan[c].appenders => "stdout" \in ok
       /\ built' = [built EXCEPT ![c] =
                      IF plan[c].traces THEN ok \cup {"fastrace-events"} ELSE ok]
       /\ unheard' = unheard \cup Unheard(logger, maxLevel, plan[c].appenders \ ok)
  /\ UNCHANGED <<config, logger, maxLevel, reporter, hook, exitFlush, plan, previous, fate,
                 signals, alive>>

\* Faulty: the error of try_apply is dropped, as hook::init drops it.
TryApplyIgnored(c) ==
  /\ Goto(c, "apply", "clamp")
  /\ logger' = IF logger.by = Nobody
               THEN [by |-> c, dispatches |-> Dispatches(plan[c], built[c])] ELSE logger
  /\ maxLevel' = IF logger.by = Nobody THEN Trace ELSE maxLevel
  /\ UNCHANGED <<config, reporter, hook, exitFlush, plan, built, previous, fate, unheard,
                 signals, alive>>

\* 3 and 4. try_apply; it sets the level to Trace.
TryApply(c) ==
  /\ \/ /\ logger.by = Nobody
        /\ Goto(c, "apply", "clamp")
        /\ logger' = [by |-> c, dispatches |-> Dispatches(plan[c], built[c])]
        /\ maxLevel' = Trace
     \/ /\ logger.by # Nobody
        /\ Goto(c, "apply", "failed")
        /\ UNCHANGED <<logger, maxLevel>>
  /\ UNCHANGED <<config, reporter, hook, exitFlush, plan, built, previous, fate, unheard,
                 signals, alive>>

\* Faulty: the level is set first and resolved again for the warnings.
ClampLevelEarly(c) ==
  /\ Goto(c, "clamp", "reporter")
  /\ maxLevel' = Resolve(plan[c])
  /\ unheard' = unheard \cup Unheard(logger, maxLevel', Misread(plan[c]))
  /\ UNCHANGED <<config, logger, reporter, hook, exitFlush, plan, built, previous, fate,
                 signals, alive>>

\* 5. set_max_level(resolve_level(level)), whose warnings come first.
ClampLevel(c) ==
  /\ Goto(c, "clamp", "reporter")
  /\ unheard' = unheard \cup Unheard(logger, maxLevel, Misread(plan[c]))
  /\ maxLevel' = Resolve(plan[c])
  /\ UNCHANGED <<config, logger, reporter, hook, exitFlush, plan, built, previous, fate,
                 signals, alive>>

\* 6. The fastrace reporter; then 7 or 8.
SetReporter(c) ==
  /\ Goto(c, "reporter", IF plan[c].panicHook THEN "takeHook" ELSE "exitFlush")
  /\ reporter' = IF plan[c].traces THEN c ELSE reporter
  /\ UNCHANGED <<config, logger, maxLevel, hook, exitFlush, plan, built, previous, fate,
                 unheard, signals, alive>>

\* 7. install_panic_hook: take_hook leaves the default one in place.
TakeHook(c) ==
  /\ Goto(c, "takeHook", "setHook")
  /\ previous' = [previous EXCEPT ![c] = hook]
  /\ hook' = <<>>
  /\ UNCHANGED <<config, logger, maxLevel, reporter, exitFlush, plan, built, fate, unheard,
                 signals, alive>>

SetHook(c) ==
  /\ Goto(c, "setHook", "exitFlush")
  /\ hook' = <<c>> \o previous[c]
  /\ fate' = [fate EXCEPT ![c] = "kept"]
  /\ UNCHANGED <<config, logger, maxLevel, reporter, exitFlush, plan, built, previous, unheard,
                 signals, alive>>

\* 8. atexit, SIGTERM and SIGHUP; init returns.
InstallExitFlush(c) ==
  /\ Goto(c, "exitFlush", "ok")
  /\ exitFlush' = IF plan[c].flushOnExit THEN exitFlush \cup {c} ELSE exitFlush
  /\ UNCHANGED <<config, logger, maxLevel, reporter, hook, plan, built, previous, fate,
                 unheard, signals, alive>>

-----------------------------------------------------------------------------
\* The program around it.

\* It installs a logger of its own, which gets everything up to Info.
ForeignLogger ==
  /\ alive /\ logger.by = Nobody
  /\ logger' = [by |-> Program, dispatches |-> {[passes |-> Everywhere(Severities), to |-> {"stdout"}]}]
  /\ maxLevel' = Info
  /\ UNCHANGED <<config, reporter, hook, exitFlush, pc, plan, built, previous, fate, unheard,
                 signals, alive>>

\* It installs a panic hook, in front of the one in place or instead of it; late,
\* if a caller has taken the chain and not put it back.  Bound: each one once.
ForeignHook(h) ==
  /\ alive /\ fate[h] = "none"
  /\ \E chained \in BOOLEAN :
       /\ hook' = IF chained THEN <<h>> \o hook ELSE <<h>>
       /\ fate' = [x \in Hooks |->
                    CASE x = h -> IF \E c \in Callers : pc[c] = "setHook" THEN "late" ELSE "kept"
                      [] x # h /\ ~chained /\ x \in ToSet(hook) -> "replaced"
                      [] OTHER -> fate[x]]
  /\ UNCHANGED <<config, logger, maxLevel, reporter, exitFlush, pc, plan, built, previous,
                 unheard, signals, alive>>

\* The signal's default action ends the process; the handler flushes and returns.
Sigterm ==
  /\ alive /\ signals = 0
  /\ signals' = signals + 1
  /\ alive' = (exitFlush # {})
  /\ UNCHANGED <<config, logger, maxLevel, reporter, hook, exitFlush, pc, plan, built,
                 previous, fate, unheard>>

Next ==
  \/ \E c \in Callers :
       \/ Begin(c) \/ SetBackends(c) \/ SetThrottle(c) \/ BuildAppenders(c)
       \/ TryApply(c) \/ ClampLevel(c) \/ SetReporter(c) \/ TakeHook(c) \/ SetHook(c)
       \/ InstallExitFlush(c)
  \/ ForeignLogger
  \/ \E h \in PanicHooks : ForeignHook(h)
  \/ Sigterm

Spec == Init /\ [][Next]_vars

-----------------------------------------------------------------------------
\* Properties.

\* The whole stack is one caller's: whoever inits at the same time, the reporter,
\* the panic hook (once) and the exit flush come from the caller whose logger is
\* installed, and only that caller is told Ok.
OneDeployment ==
  /\ reporter \in {Nobody, logger.by}
  /\ exitFlush \subseteq {logger.by}
  /\ \A i, j \in DOMAIN hook : hook[i] \in Callers /\ hook[j] \in Callers => i = j
  /\ ToSet(hook) \cap Callers \subseteq {logger.by}
  /\ \A c \in Callers : pc[c] = "ok" => logger.by = c

\* Once init has returned Ok, the level is what it was told and stays so, whatever
\* the callers that fail do.
LevelSettles == \A c \in Callers : pc[c] = "ok" => maxLevel = Resolve(plan[c])

\* "Config toggles are applied before the logger check and stay applied"
\* (init), and nothing else sets them: with no init under way each toggle is the
\* environment's or one that a caller asked for, a failed one not excluded, and
\* never the environment's after a caller has set it.
TogglesStay ==
  LET over     == {c \in Callers : pc[c] \in {"ok", "failed"}}
      asked(f) == {plan[c][f] : c \in over} \ {Unset}
  IN  (\A c \in Callers : pc[c] \in {"idle", "ok", "failed"}) =>
        \A f \in {"backends", "throttle"} :
          IF asked(f) = {} THEN config[f] = EnvConfig[f] ELSE config[f] \in asked(f)

\* With an appender to log to, a record of any severity goes either to all main
\* appenders or to stderr alone, as the split says, never to both; and to none of
\* them only if the filter of the environment drops it.
RoutedOnce ==
  \A c \in Callers : logger.by = c /\ built[c] # {} =>
    \A t \in Targets, s \in Severities :
      Route(logger, Trace, t, s) =
        CASE Drops(plan[c], t, s) -> {}
          [] ~Drops(plan[c], t, s) /\ plan[c].split # Unset /\ s <= plan[c].split -> {"stderr"}
          [] OTHER -> built[c]

\* What init promises of the settings it was given.
Inv == TypeOK /\ LevelSettles /\ TogglesStay /\ RoutedOnce

\* resolve_level speaks after the logger is live and before the level is clamped,
\* so that a warning about the environment is heard even at level Off, whichever
\* callers fail meanwhile, unless the filter of the environment drops the library's
\* own warnings.
EnvWarningsHeard ==
  \A c \in Callers :
    logger.by = c /\ built[c] # {} /\ ~Drops(plan[c], "library", Warn)
      => unheard \cap ToSet(EnvVars) = {}

\* The panic hooks in place and those that a caller has taken and not put back.
Chain == ToSet(hook) \cup UNION {ToSet(previous[c]) : c \in {d \in Callers : pc[d] = "setHook"}}

\* A panic hook, the program's or init's, is gone from the chain only if the program
\* replaced it, or installed it between the take_hook and the set_hook of a caller
\* ("a concurrent set_hook between them would be lost", install_panic_hook), however
\* many callers init.
OnlyLateHooksLost == \A h \in Hooks : fate[h] = "kept" => h \in Chain

\* "The prior hook is never stomped" (Deployment::panic_hook), whenever it came.
NeverStomped == \A h \in Hooks : fate[h] \in {"kept", "late"} => h \in Chain

\* "Unparseable env values warn" (resolve_level), the warning being one of a logger
\* with an appender.
MisreadIsHeard ==
  \A c \in Callers : logger.by = c /\ built[c] # {} => unheard \cap ToSet(EnvVars) = {}

\* "Route records at or above this level to a dedicated `Stderr` appender"
\* (stderr_from), "so error records aren't silently dropped" (wire).
SplitReachesStderr ==
  \A c \in Callers : logger.by = c /\ plan[c].split # Unset =>
    \A s \in 1..plan[c].split : Route(logger, Trace, "program", s) = {"stderr"}

\* "wire() warns on target fast_observe.deploy and skips the appender" (syslog,
\* journald): the warning is logged where someone may hear it.
AppenderWarningsHeard ==
  \A c \in Callers : pc[c] = "ok" /\ maxLevel >= Warn /\ "stdout" \in built[c]
    => unheard \cap Appenders = {}

\* "servers die by signal" (fastrace_flush_trampoline).
SigtermEnds == [][signals' # signals => ~alive']_vars
=============================================================================
