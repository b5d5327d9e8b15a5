-------------------------- MODULE DeploymentProofs --------------------------
(***************************************************************************)
(* Whoever inits at the same time, and whatever the program installs in    *)
(* between, the stack is one caller's.  try_apply is the only step that    *)
(* decides: a caller is past it exactly if the logger is its own, and      *)
(* every later piece is installed from there.  From the winner follows the *)
(* rest: nobody else touches the level or the dispatches it set, and the   *)
(* warnings about the environment meet a logger that passes them.          *)
(*                                                                         *)
(* The destinations it installed may fail, at any time and on any threads: *)
(* each of them is reported once, and no other is passed over for it.      *)
(***************************************************************************)
EXTENDS Deployment, TrapAppender, TLAPS

Won == {"clamp", "reporter", "takeHook", "setHook", "exitFlush", "ok"}

\* A caller is past try_apply exactly if the logger is its own.
WinnerInv ==
  /\ logger.by \in Callers \cup {Program, Nobody}
  /\ pc \in [Callers -> Steps]
  /\ \A c \in Callers : pc[c] \in Won <=> logger.by = c
  /\ reporter \in {Nobody, logger.by}
  /\ exitFlush \subseteq Callers /\ exitFlush \subseteq {logger.by}

\* A hook of a caller is in place only if it is the winner's, once, and after the
\* winner has set it; it is never in a chain that was taken.
HookInv ==
  /\ hook \in Seq(Hooks)
  /\ previous \in [Callers -> Seq(Hooks)]
  /\ \A i \in DOMAIN hook : hook[i] \in Callers =>
       hook[i] = logger.by /\ pc[hook[i]] \in {"exitFlush", "ok"}
  /\ \A i, j \in DOMAIN hook : hook[i] \in Callers /\ hook[j] \in Callers => i = j
  /\ \A c \in Callers : \A i \in DOMAIN previous[c] : previous[c][i] \notin Callers

StackInv == WinnerInv /\ HookInv

LEMMA InitStack == Init => StackInv
<1> SUFFICES ASSUME Init PROVE StackInv
  OBVIOUS
<1>1. WinnerInv
  BY PeopleAssumption DEF Init, NoLogger, WinnerInv, Won, Steps
<1>2. HookInv
  BY DEF Init, HookInv, Hooks
<1> QED BY <1>1, <1>2 DEF StackInv

\* A hook in front of a chain without callers' hooks.
LEMMA InFront ==
  ASSUME NEW h \in Hooks, NEW s \in Seq(Hooks)
  PROVE  /\ <<h>> \o s \in Seq(Hooks)
         /\ Len(<<h>> \o s) = Len(s) + 1
         /\ (<<h>> \o s)[1] = h
         /\ \A i \in 2..(Len(s) + 1) : (<<h>> \o s)[i] = s[i - 1]
OBVIOUS

LEMMA NextWinner == StackInv /\ [Next]_vars => WinnerInv'
<1> SUFFICES ASSUME StackInv, [Next]_vars PROVE WinnerInv'
  OBVIOUS
<1> USE DEF StackInv, WinnerInv, Steps, Won
<1>1. ASSUME NEW c \in Callers, Begin(c) PROVE WinnerInv'
  BY <1>1 DEF Begin, Goto
<1>2. ASSUME NEW c \in Callers, SetBackends(c) PROVE WinnerInv'
  BY <1>2 DEF SetBackends, Goto
<1>3. ASSUME NEW c \in Callers, SetThrottle(c) PROVE WinnerInv'
  BY <1>3 DEF SetThrottle, Goto
<1>4. ASSUME NEW c \in Callers, BuildAppenders(c) PROVE WinnerInv'
  BY <1>4 DEF BuildAppenders, Goto
<1>5. ASSUME NEW c \in Callers, TryApply(c) PROVE WinnerInv'
  <2>1. CASE logger.by = Nobody
    <3>1. /\ pc[c] = "apply" /\ pc' = [pc EXCEPT ![c] = "clamp"]
          /\ logger'.by = c /\ UNCHANGED <<reporter, exitFlush>>
      BY <1>5, <2>1 DEF TryApply, Goto
    <3>2. exitFlush = {} /\ reporter = Nobody
      BY <2>1, PeopleAssumption
    <3>3. \A d \in Callers : pc'[d] \in Won <=> logger'.by = d
      BY <2>1, <3>1, PeopleAssumption
    <3> QED BY <3>1, <3>2, <3>3
  <2>2. CASE logger.by # Nobody
    <3>1. pc[c] = "apply" /\ pc' = [pc EXCEPT ![c] = "failed"]
      BY <1>5, <2>2 DEF TryApply, Goto
    <3>2. UNCHANGED <<logger, reporter, exitFlush>>
      BY <1>5, <2>2 DEF TryApply
    <3> QED BY <3>1, <3>2
  <2> QED BY <2>1, <2>2
<1>6. ASSUME NEW c \in Callers, ClampLevel(c) PROVE WinnerInv'
  BY <1>6 DEF ClampLevel, Goto
<1>7. ASSUME NEW c \in Callers, SetReporter(c) PROVE WinnerInv'
  <2>1. /\ pc[c] = "reporter"
        /\ \/ pc' = [pc EXCEPT ![c] = "takeHook"]
           \/ pc' = [pc EXCEPT ![c] = "exitFlush"]
    BY <1>7 DEF SetReporter, Goto
  <2>2. UNCHANGED <<logger, exitFlush>> /\ reporter' \in {c, reporter}
    BY <1>7 DEF SetReporter
  <2> QED BY <2>1, <2>2
<1>8. ASSUME NEW c \in Callers, TakeHook(c) PROVE WinnerInv'
  BY <1>8 DEF TakeHook, Goto
<1>9. ASSUME NEW c \in Callers, SetHook(c) PROVE WinnerInv'
  BY <1>9 DEF SetHook, Goto
<1>10. ASSUME NEW c \in Callers, InstallExitFlush(c) PROVE WinnerInv'
  <2>1. pc[c] = "exitFlush" /\ pc' = [pc EXCEPT ![c] = "ok"]
    BY <1>10 DEF InstallExitFlush, Goto
  <2>2. UNCHANGED <<logger, reporter>> /\ exitFlush' \subseteq exitFlush \cup {c}
    BY <1>10 DEF InstallExitFlush
  <2> QED BY <2>1, <2>2
<1>11. CASE ForeignLogger
  <2>1. logger'.by = Program /\ UNCHANGED <<pc, reporter, exitFlush>> /\ logger.by = Nobody
    BY <1>11 DEF ForeignLogger
  <2> QED BY <2>1, PeopleAssumption
<1>12. ASSUME NEW h \in PanicHooks, ForeignHook(h) PROVE WinnerInv'
  BY <1>12 DEF ForeignHook
<1>13. CASE Sigterm
  BY <1>13 DEF Sigterm
<1>14. CASE UNCHANGED vars
  BY <1>14 DEF vars
<1> QED BY <1>1, <1>2, <1>3, <1>4, <1>5, <1>6, <1>7, <1>8, <1>9, <1>10, <1>11, <1>12,
           <1>13, <1>14 DEF Next

LEMMA NextHook == StackInv /\ [Next]_vars => HookInv'
<1> SUFFICES ASSUME StackInv, [Next]_vars PROVE HookInv'
  OBVIOUS
<1> USE DEF StackInv, HookInv
\* What leaves the hooks alone, the winner where it is and every caller that has
\* set its hook past that.
<1>a. ASSUME UNCHANGED <<hook, previous, logger>>, NEW c \in Callers, NEW to,
             pc' = [pc EXCEPT ![c] = to], pc[c] \notin {"exitFlush", "ok"}
      PROVE  HookInv'
  BY <1>a DEF WinnerInv
<1>1. ASSUME NEW c \in Callers, Begin(c) PROVE HookInv'
  BY <1>1, <1>a DEF Begin, Goto
<1>2. ASSUME NEW c \in Callers, SetBackends(c) PROVE HookInv'
  BY <1>2, <1>a DEF SetBackends, Goto
<1>3. ASSUME NEW c \in Callers, SetThrottle(c) PROVE HookInv'
  BY <1>3, <1>a DEF SetThrottle, Goto
<1>4. ASSUME NEW c \in Callers, BuildAppenders(c) PROVE HookInv'
  BY <1>4, <1>a DEF BuildAppenders, Goto
<1>5. ASSUME NEW c \in Callers, TryApply(c) PROVE HookInv'
  <2>1. UNCHANGED <<hook, previous>>
    BY <1>5 DEF TryApply
  <2>2. CASE logger.by = Nobody
    <3>1. \A i \in DOMAIN hook : hook[i] \notin Callers
      BY <2>2, PeopleAssumption
    <3> QED BY <2>1, <3>1
  <2>3. CASE logger.by # Nobody
    BY <1>5, <2>3, <1>a DEF TryApply, Goto
  <2> QED BY <2>2, <2>3
<1>6. ASSUME NEW c \in Callers, ClampLevel(c) PROVE HookInv'
  BY <1>6, <1>a DEF ClampLevel, Goto
<1>7. ASSUME NEW c \in Callers, SetReporter(c) PROVE HookInv'
  BY <1>7, <1>a DEF SetReporter, Goto
<1>8. ASSUME NEW c \in Callers, TakeHook(c) PROVE HookInv'
  <2>1. /\ pc[c] = "takeHook" /\ hook' = <<>>
        /\ previous' = [previous EXCEPT ![c] = hook]
    BY <1>8 DEF TakeHook, Goto
  <2>2. \A i \in DOMAIN hook : hook[i] \notin Callers
    <3>1. logger.by = c
      BY <2>1 DEF WinnerInv, Won
    <3> QED BY <2>1, <3>1
  <2> QED BY <2>1, <2>2
<1>9. ASSUME NEW c \in Callers, SetHook(c) PROVE HookInv'
  <2>1. /\ pc[c] = "setHook" /\ pc' = [pc EXCEPT ![c] = "exitFlush"]
        /\ hook' = <<c>> \o previous[c] /\ UNCHANGED <<previous, logger>>
    BY <1>9 DEF SetHook, Goto
  <2>2. c \in Hooks /\ previous[c] \in Seq(Hooks)
    BY DEF Hooks
  <2>3. /\ hook' \in Seq(Hooks) /\ hook'[1] = c
        /\ DOMAIN hook' = 1..(Len(previous[c]) + 1)
        /\ \A i \in 2..(Len(previous[c]) + 1) : hook'[i] = previous[c][i - 1]
    BY <2>1, <2>2, InFront
  <2>4. \A i \in DOMAIN hook' : hook'[i] \in Callers => i = 1
    <3> SUFFICES ASSUME NEW i \in DOMAIN hook', i # 1 PROVE hook'[i] \notin Callers
      OBVIOUS
    <3>1. i \in 2..(Len(previous[c]) + 1) /\ i - 1 \in DOMAIN previous[c]
      BY <2>2, <2>3
    <3> QED BY <2>3, <3>1
  <2>5. logger.by = c /\ pc'[c] = "exitFlush"
    BY <2>1 DEF WinnerInv, Won
  <2> QED BY <2>1, <2>3, <2>4, <2>5
<1>10. ASSUME NEW c \in Callers, InstallExitFlush(c) PROVE HookInv'
  <2>1. pc' = [pc EXCEPT ![c] = "ok"] /\ UNCHANGED <<hook, previous, logger>>
    BY <1>10 DEF InstallExitFlush, Goto
  <2> QED BY <2>1 DEF WinnerInv
<1>11. CASE ForeignLogger
  <2>1. UNCHANGED <<hook, previous, pc>> /\ logger.by = Nobody
    BY <1>11 DEF ForeignLogger
  <2>2. \A i \in DOMAIN hook : hook[i] \notin Callers
    BY <2>1, PeopleAssumption
  <2> QED BY <2>1, <2>2
<1>12. ASSUME NEW h \in PanicHooks, ForeignHook(h) PROVE HookInv'
  <2>1. UNCHANGED <<previous, logger, pc>> /\ hook' \in {<<h>> \o hook, <<h>>}
    BY <1>12 DEF ForeignHook
  <2>2. h \in Hooks /\ h \notin Callers
    BY HooksAssumption DEF Hooks
  <2>3. CASE hook' = <<h>>
    BY <2>1, <2>2, <2>3
  <2>4. CASE hook' = <<h>> \o hook
    <3>1. /\ hook' \in Seq(Hooks) /\ hook'[1] = h
          /\ DOMAIN hook' = 1..(Len(hook) + 1)
          /\ \A i \in 2..(Len(hook) + 1) : hook'[i] = hook[i - 1]
      BY <2>2, <2>4, InFront
    <3>2. \A i \in DOMAIN hook' : hook'[i] \in Callers =>
            i - 1 \in DOMAIN hook /\ hook'[i] = hook[i - 1]
      <4> SUFFICES ASSUME NEW i \in DOMAIN hook', hook'[i] \in Callers
                   PROVE  i - 1 \in DOMAIN hook /\ hook'[i] = hook[i - 1]
        OBVIOUS
      <4>1. i \in 2..(Len(hook) + 1)
        BY <2>2, <3>1
      <4> QED BY <3>1, <4>1
    <3>3. \A i \in DOMAIN hook' : hook'[i] \in Callers =>
            hook'[i] = logger'.by /\ pc'[hook'[i]] \in {"exitFlush", "ok"}
      BY <2>1, <3>2
    <3>4. \A i, j \in DOMAIN hook' : hook'[i] \in Callers /\ hook'[j] \in Callers => i = j
      BY <3>1, <3>2
    <3> QED BY <2>1, <3>1, <3>3, <3>4
  <2> QED BY <2>1, <2>3, <2>4
<1>13. CASE Sigterm
  BY <1>13 DEF Sigterm
<1>14. CASE UNCHANGED vars
  BY <1>14 DEF vars
<1> QED BY <1>1, <1>2, <1>3, <1>4, <1>5, <1>6, <1>7, <1>8, <1>9, <1>10, <1>11, <1>12,
           <1>13, <1>14 DEF Next

\* The winner and the hooks, at every moment.
THEOREM StackInvariant == Spec => []StackInv
<1>1. StackInv /\ [Next]_vars => StackInv'
  BY NextWinner, NextHook DEF StackInv
<1> QED BY <1>1, InitStack, PTL DEF Spec

\* The reporter, the panic hook and the exit flush are those of the caller whose
\* logger is installed, and only that caller is told Ok.
THEOREM StackIsOneCallers == Spec => []OneDeployment
<1>1. StackInv => OneDeployment
  <2> SUFFICES ASSUME StackInv PROVE OneDeployment
    OBVIOUS
  <2>1. ToSet(hook) \cap Callers \subseteq {logger.by}
    BY DEF StackInv, HookInv, ToSet
  <2> QED BY <2>1 DEF StackInv, WinnerInv, HookInv, Won, OneDeployment
<1> QED BY <1>1, StackInvariant, PTL

-----------------------------------------------------------------------------
\* The level, the dispatches and the toggles.

\* The callers that are past setting a toggle.
PastBackends == {c \in Callers : pc[c] \notin {"idle", "toggles"}}
PastThrottle == {c \in Callers : pc[c] \notin {"idle", "toggles", "throttle"}}

AskedBackends == {plan[c].backends : c \in PastBackends} \ {Unset}
AskedThrottle == {plan[c].throttle : c \in PastThrottle} \ {Unset}

ValuesInv ==
  /\ config   \in Configs
  /\ logger   \in [by : Callers \cup {Program, Nobody}, dispatches : SUBSET Dispatch]
  /\ maxLevel \in 0..5
  /\ reporter \in Callers \cup {Nobody}
  /\ plan     \in [Callers -> Settings]
  /\ built    \in [Callers -> SUBSET Appenders]
  /\ fate     \in [Hooks -> {"none", "kept", "late", "replaced"}]
  /\ unheard  \in SUBSET Sources
  /\ signals  \in 0..1
  /\ alive    \in BOOLEAN

\* The winner's logger and level are what it made them.
LevelInv ==
  \A c \in Callers : pc[c] \in Won =>
    /\ logger.dispatches = Dispatches(plan[c], built[c])
    /\ maxLevel = IF pc[c] = "clamp" THEN Trace ELSE Resolve(plan[c])

\* Each toggle is that of somebody who is past setting it, if anybody asked for it.
TogglesInv ==
  /\ IF AskedBackends = {} THEN config.backends = EnvConfig.backends
     ELSE config.backends \in AskedBackends
  /\ IF AskedThrottle = {} THEN config.throttle = EnvConfig.throttle
     ELSE config.throttle \in AskedThrottle

\* Only a winner that has no appender, or a filter that drops the warnings, warns
\* about the environment in vain.
Unhearing(c) == built[c] = {} \/ Drops(plan[c], "library", Warn)

HeardInv ==
  unheard \cap ToSet(EnvVars) # {} => \E c \in Callers : pc[c] \in Won /\ Unhearing(c)

DeploymentIInv == StackInv /\ ValuesInv /\ LevelInv /\ TogglesInv /\ HeardInv

\* What the pure parts of init compute.

LEMMA ResolvedLevel ==
  ASSUME NEW d \in Deployments
  PROVE  Resolve(d) \in 0..5
<1>1. CASE d.level # Unset
  BY <1>1 DEF Resolve, Deployments
<1>2. CASE d.level = Unset /\ Parsable = {}
  BY <1>2 DEF Resolve, Info
<1>3. CASE d.level = Unset /\ Parsable # {}
  <2>1. \E i \in Parsable : \A j \in Parsable : i <= j
    <3>1. Parsable \subseteq 1..2
      BY DEF Parsable
    <3>2. CASE 1 \in Parsable
      BY <3>1, <3>2
    <3>3. CASE 1 \notin Parsable
      <4>1. \A j \in Parsable : j = 2
        BY <3>1, <3>3
      <4> QED BY <1>3, <4>1
    <3> QED BY <3>2, <3>3
  <2>2. FirstOf(Parsable) \in Parsable
    BY <2>1 DEF FirstOf
  <2> QED BY <1>3, <2>2 DEF Resolve, Parsable
<1> QED BY <1>1, <1>2, <1>3

LEMMA DispatchesTyped ==
  ASSUME NEW d \in Deployments, NEW mains \in SUBSET Appenders
  PROVE  Dispatches(d, mains) \in SUBSET Dispatch
<1>1. ASSUME NEW S \in SUBSET Severities
      PROVE  Filters(d, S) \in [Targets -> SUBSET Severities]
  BY DEF Filters
<1> DEFINE all   == Filters(d, Severities)
           above == Filters(d, {s \in Severities : s > d.split})
           below == Filters(d, {s \in Severities : s <= d.split})
<1>2. {all, above, below} \subseteq [Targets -> SUBSET Severities]
  BY <1>1
<1>3. Dispatches(d, mains) \subseteq
        {[passes |-> all, to |-> {"stderr"}], [passes |-> all, to |-> mains],
         [passes |-> above, to |-> mains], [passes |-> below, to |-> {"stderr"}]}
  BY DEF Dispatches
<1> HIDE DEF all, above, below
<1> QED BY <1>2, <1>3 DEF Dispatch

\* What one dispatch gives a record to.
LEMMA OneDispatch ==
  ASSUME NEW r
  PROVE  UNION {x.to : x \in {r}} = r.to
OBVIOUS

\* With an appender a record goes to all of them or to stderr, as the split says, if
\* the filter of the environment lets it pass.
LEMMA DispatchesRoute ==
  ASSUME NEW d \in Deployments, NEW mains \in SUBSET Appenders, mains # {},
         NEW lg, lg.dispatches = Dispatches(d, mains), NEW t \in Targets, NEW s \in Severities
  PROVE  Route(lg, Trace, t, s) =
           IF Drops(d, t, s) THEN {}
           ELSE IF d.split # Unset /\ s <= d.split THEN {"stderr"} ELSE mains
<1> DEFINE high  == {x \in Severities : x > d.split}
           low   == {x \in Severities : x <= d.split}
           all   == [passes |-> Filters(d, Severities), to |-> mains]
           above == [passes |-> Filters(d, high), to |-> mains]
           below == [passes |-> Filters(d, low), to |-> {"stderr"}]
           get   == {x \in lg.dispatches : s \in x.passes[t]}
<1>1. Route(lg, Trace, t, s) = UNION {x.to : x \in get}
  BY DEF Route, Trace, Severities
<1>2. \A S : s \in Filters(d, S)[t] <=> s \in S /\ ~Drops(d, t, s)
  BY DEF Filters
<1>3. CASE Drops(d, t, s)
  <2>1. lg.dispatches \subseteq {all, above, below}
    BY DEF Dispatches
  <2>2. s \notin all.passes[t] /\ s \notin above.passes[t] /\ s \notin below.passes[t]
    BY <1>2, <1>3
  <2> HIDE DEF all, above, below
  <2>3. get = {}
    BY <2>1, <2>2
  <2> QED BY <1>1, <1>3, <2>3
<1>4. CASE ~Drops(d, t, s) /\ d.split = Unset
  <2>1. lg.dispatches = {all}
    BY <1>4 DEF Dispatches
  <2>2. s \in all.passes[t]
    BY <1>2, <1>4
  <2>3. UNION {x.to : x \in {all}} = mains
    BY OneDispatch
  <2> HIDE DEF all
  <2>4. get = {all}
    BY <2>1, <2>2
  <2> HIDE DEF get
  <2> QED BY <1>1, <1>4, <2>3, <2>4
<1>5. CASE ~Drops(d, t, s) /\ d.split # Unset
  <2>1. lg.dispatches = {above, below}
    BY <1>5 DEF Dispatches
  <2>2. d.split \in Nat /\ s \in Nat
    BY <1>5 DEF Deployments, Severities
  <2>3. CASE s <= d.split
    <3>1. s \notin high /\ s \in low
      BY <2>2, <2>3
    <3>2. s \notin above.passes[t] /\ s \in below.passes[t]
      BY <1>2, <1>5, <3>1
    <3>3. UNION {x.to : x \in {below}} = {"stderr"}
      BY OneDispatch
    <3> HIDE DEF above, below
    <3>4. get = {below}
      BY <2>1, <3>2
    <3> HIDE DEF get
    <3> QED BY <1>1, <1>5, <2>3, <3>3, <3>4
  <2>4. CASE ~(s <= d.split)
    <3>1. s \in high /\ s \notin low
      BY <2>2, <2>4
    <3>2. s \in above.passes[t] /\ s \notin below.passes[t]
      BY <1>2, <1>5, <3>1
    <3>3. UNION {x.to : x \in {above}} = mains
      BY OneDispatch
    <3> HIDE DEF above, below
    <3>4. get = {above}
      BY <2>1, <3>2
    <3> HIDE DEF get
    <3> QED BY <1>1, <1>5, <2>4, <3>3, <3>4
  <2> QED BY <2>3, <2>4
<1> QED BY <1>3, <1>4, <1>5

\* A warning that is logged while every severity passes is heard, unless the filter
\* drops it.
LEMMA WarningHeard ==
  ASSUME NEW d \in Deployments, NEW mains \in SUBSET Appenders, mains # {},
         NEW lg, lg.dispatches = Dispatches(d, mains), NEW sources, ~Drops(d, "library", Warn)
  PROVE  Unheard(lg, Trace, sources) = {}
<1>1. Warn \in Severities /\ "library" \in Targets
  BY DEF Warn, Severities, Targets
<1>2. Route(lg, Trace, "library", Warn) \in {{"stderr"}, mains}
  BY <1>1, DispatchesRoute
<1> QED BY <1>2 DEF Unheard

LEMMA InitDeployment == Init => DeploymentIInv
<1> SUFFICES ASSUME Init PROVE DeploymentIInv
  OBVIOUS
<1> USE DEF Init
<1>1. ValuesInv
  BY EnvAssumption DEF ValuesInv, NoLogger
<1>2. PastBackends = {} /\ PastThrottle = {}
  BY DEF PastBackends, PastThrottle
<1>3. TogglesInv
  BY <1>2 DEF TogglesInv, AskedBackends, AskedThrottle
<1>4. LevelInv /\ HeardInv
  BY DEF LevelInv, HeardInv, Won
<1> QED BY <1>1, <1>3, <1>4, InitStack DEF DeploymentIInv

LEMMA NextValues == DeploymentIInv /\ [Next]_vars => ValuesInv'
<1> SUFFICES ASSUME DeploymentIInv, [Next]_vars PROVE ValuesInv'
  OBVIOUS
<1> USE DEF DeploymentIInv, ValuesInv
<1>1. \A c \in Callers : plan[c] \in Deployments /\ built[c] \in SUBSET Appenders
  BY SettingsAssumption
<1>2. ASSUME NEW c \in Callers, SetBackends(c) \/ SetThrottle(c) PROVE ValuesInv'
  <2>1. plan[c].backends \in Nat \cup {Unset} /\ plan[c].throttle \in Nat \cup {Unset}
    BY <1>1 DEF Deployments
  <2> QED BY <1>2, <2>1 DEF SetBackends, SetThrottle, Configs, Or
<1>3. ASSUME NEW c \in Callers, BuildAppenders(c) PROVE ValuesInv'
  <2>1. plan[c].appenders \subseteq Requested
    BY <1>1 DEF Deployments
  <2>2. PICK ok \in SUBSET plan[c].appenders :
          /\ built' = [built EXCEPT ![c] =
                         IF plan[c].traces THEN ok \cup {"fastrace-events"} ELSE ok]
          /\ unheard' = unheard \cup Unheard(logger, maxLevel, plan[c].appenders \ ok)
    BY <1>3 DEF BuildAppenders
  <2>3. Unheard(logger, maxLevel, plan[c].appenders \ ok) \subseteq Appenders
    BY <2>1 DEF Unheard, Appenders
  <2>4. unheard' \in SUBSET Sources
    BY <2>2, <2>3 DEF Sources
  <2>5. built' \in [Callers -> SUBSET Appenders]
    BY <2>1, <2>2 DEF Appenders
  <2> QED BY <1>3, <2>4, <2>5 DEF BuildAppenders
<1>4. ASSUME NEW c \in Callers, TryApply(c) PROVE ValuesInv'
  <2>1. Dispatches(plan[c], built[c]) \in SUBSET Dispatch
    BY <1>1, DispatchesTyped
  <2> QED BY <1>4, <2>1 DEF TryApply, Trace
<1>5. ASSUME NEW c \in Callers, ClampLevel(c) PROVE ValuesInv'
  <2>1. Resolve(plan[c]) \in 0..5
    BY <1>1, ResolvedLevel
  <2>2. Misread(plan[c]) \subseteq ToSet(EnvVars)
    BY DEF Misread, ToSet, EnvVars
  <2>3. Unheard(logger, maxLevel, Misread(plan[c])) \subseteq Sources
    BY <2>2 DEF Unheard, Sources
  <2> QED BY <1>5, <2>1, <2>3 DEF ClampLevel
<1>6. CASE ForeignLogger
  <2>1. {[passes |-> Everywhere(Severities), to |-> {"stdout"}]} \in SUBSET Dispatch
    BY DEF Dispatch, Appenders, Requested, Everywhere
  <2> QED BY <1>6, <2>1 DEF ForeignLogger, Info
<1>7. CASE Sigterm
  BY <1>7 DEF Sigterm
<1>8. ASSUME NEW c \in Callers,
             Begin(c) \/ SetReporter(c) \/ TakeHook(c) \/ SetHook(c) \/ InstallExitFlush(c)
      PROVE  ValuesInv'
  BY <1>8 DEF Begin, SetReporter, TakeHook, SetHook, InstallExitFlush
<1>9. ASSUME NEW h \in PanicHooks, ForeignHook(h) PROVE ValuesInv'
  <2>1. fate' \in [Hooks -> {"none", "kept", "late", "replaced"}]
    BY <1>9 DEF ForeignHook
  <2> QED BY <1>9, <2>1 DEF ForeignHook
<1>10. CASE UNCHANGED vars
  BY <1>10 DEF vars
<1> QED BY <1>2, <1>3, <1>4, <1>5, <1>6, <1>7, <1>8, <1>9, <1>10 DEF Next

LEMMA NextLevel == DeploymentIInv /\ [Next]_vars => LevelInv'
<1> SUFFICES ASSUME DeploymentIInv, [Next]_vars PROVE LevelInv'
  OBVIOUS
<1> USE DEF DeploymentIInv, LevelInv, Won
<1>1. /\ pc \in [Callers -> Steps] /\ Nobody \notin Callers
      /\ \A c \in Callers : pc[c] \in Won <=> logger.by = c
  BY PeopleAssumption DEF StackInv, WinnerInv
<1>2. plan \in [Callers -> Settings] /\ built \in [Callers -> SUBSET Appenders]
  BY DEF ValuesInv
<1>3. ASSUME NEW c \in Callers, Begin(c) \/ SetBackends(c) \/ SetThrottle(c) PROVE LevelInv'
  BY <1>1, <1>3 DEF Begin, SetBackends, SetThrottle, Goto
<1>4. ASSUME NEW c \in Callers, BuildAppenders(c) PROVE LevelInv'
  <2>1. /\ pc[c] = "appenders" /\ pc' = [pc EXCEPT ![c] = "apply"]
        /\ UNCHANGED <<logger, maxLevel, plan>> /\ \E a : built' = [built EXCEPT ![c] = a]
    BY <1>4 DEF BuildAppenders, Goto
  <2> QED BY <1>1, <1>2, <2>1
<1>5. ASSUME NEW c \in Callers, TryApply(c) PROVE LevelInv'
  <2>1. CASE logger.by = Nobody
    <3>1. /\ pc[c] = "apply" /\ pc' = [pc EXCEPT ![c] = "clamp"]
          /\ logger'.dispatches = Dispatches(plan[c], built[c]) /\ maxLevel' = Trace
          /\ UNCHANGED <<plan, built>>
      BY <1>5, <2>1 DEF TryApply, Goto
    <3>2. \A d \in Callers : pc[d] \notin Won
      BY <1>1, <2>1
    <3> QED BY <1>1, <3>1, <3>2
  <2>2. CASE logger.by # Nobody
    BY <1>1, <1>5, <2>2 DEF TryApply, Goto
  <2> QED BY <2>1, <2>2
<1>6. ASSUME NEW c \in Callers, ClampLevel(c) PROVE LevelInv'
  <2>1. /\ pc[c] = "clamp" /\ pc' = [pc EXCEPT ![c] = "reporter"]
        /\ maxLevel' = Resolve(plan[c]) /\ UNCHANGED <<logger, plan, built>>
    BY <1>6 DEF ClampLevel, Goto
  <2>2. \A d \in Callers : pc[d] \in Won => d = c
    BY <1>1, <2>1
  <2> QED BY <1>1, <2>1, <2>2
<1>7. ASSUME NEW c \in Callers, SetReporter(c) PROVE LevelInv'
  BY <1>1, <1>7 DEF SetReporter, Goto
<1>8. ASSUME NEW c \in Callers, TakeHook(c) \/ SetHook(c) \/ InstallExitFlush(c) PROVE LevelInv'
  BY <1>1, <1>8 DEF TakeHook, SetHook, InstallExitFlush, Goto
<1>9. CASE ForeignLogger
  <2>1. UNCHANGED <<pc, plan, built>> /\ \A d \in Callers : pc[d] \notin Won
    BY <1>1, <1>9 DEF ForeignLogger
  <2> QED BY <2>1
<1>10. ASSUME NEW h \in PanicHooks, ForeignHook(h) PROVE LevelInv'
  BY <1>10 DEF ForeignHook
<1>11. CASE Sigterm \/ UNCHANGED vars
  BY <1>11 DEF Sigterm, vars
<1> QED BY <1>3, <1>4, <1>5, <1>6, <1>7, <1>8, <1>9, <1>10, <1>11 DEF Next

LEMMA NextToggles == DeploymentIInv /\ [Next]_vars => TogglesInv'
<1> SUFFICES ASSUME DeploymentIInv, [Next]_vars PROVE TogglesInv'
  OBVIOUS
<1> USE DEF DeploymentIInv
<1>1. pc \in [Callers -> Steps] /\ config \in Configs
  BY DEF StackInv, WinnerInv, ValuesInv
\* What sets no toggle.
<1>2. ASSUME UNCHANGED <<config, plan, PastBackends, PastThrottle>> PROVE TogglesInv'
  BY <1>2 DEF TogglesInv, AskedBackends, AskedThrottle
<1>3. ASSUME UNCHANGED <<config, plan>>, NEW c \in Callers, NEW to, pc' = [pc EXCEPT ![c] = to],
             \/ pc[c] = "idle" /\ to = "toggles"
             \/ /\ pc[c] \notin {"idle", "toggles", "throttle"}
                /\ to \notin {"idle", "toggles", "throttle"}
      PROVE  TogglesInv'
  BY <1>1, <1>2, <1>3 DEF PastBackends, PastThrottle
<1>4. ASSUME NEW c \in Callers, Begin(c) PROVE TogglesInv'
  BY <1>3, <1>4 DEF Begin, Goto
<1>5. ASSUME NEW c \in Callers, SetBackends(c) PROVE TogglesInv'
  <2>1. /\ pc[c] = "toggles" /\ pc' = [pc EXCEPT ![c] = "throttle"] /\ UNCHANGED plan
        /\ config' = [config EXCEPT !.backends = Or(plan[c].backends, @)]
    BY <1>5 DEF SetBackends, Goto
  <2>2. PastBackends' = PastBackends \cup {c} /\ PastThrottle' = PastThrottle
    BY <1>1, <2>1 DEF PastBackends, PastThrottle
  <2>3. AskedThrottle' = AskedThrottle /\ config'.throttle = config.throttle
    BY <1>1, <2>1, <2>2 DEF AskedThrottle, Configs
  <2>4. config'.backends = IF plan[c].backends = Unset THEN config.backends ELSE plan[c].backends
    BY <1>1, <2>1 DEF Or, Configs
  <2>5. AskedBackends' = AskedBackends \cup ({plan[c].backends} \ {Unset})
    BY <2>1, <2>2 DEF AskedBackends
  <2> QED BY <2>3, <2>4, <2>5 DEF TogglesInv
<1>6. ASSUME NEW c \in Callers, SetThrottle(c) PROVE TogglesInv'
  <2>1. /\ pc[c] = "throttle" /\ pc' = [pc EXCEPT ![c] = "appenders"] /\ UNCHANGED plan
        /\ config' = [config EXCEPT !.throttle = Or(plan[c].throttle, @)]
    BY <1>6 DEF SetThrottle, Goto
  <2>2. PastThrottle' = PastThrottle \cup {c} /\ PastBackends' = PastBackends
    BY <1>1, <2>1 DEF PastBackends, PastThrottle
  <2>3. AskedBackends' = AskedBackends /\ config'.backends = config.backends
    BY <1>1, <2>1, <2>2 DEF AskedBackends, Configs
  <2>4. config'.throttle = IF plan[c].throttle = Unset THEN config.throttle ELSE plan[c].throttle
    BY <1>1, <2>1 DEF Or, Configs
  <2>5. AskedThrottle' = AskedThrottle \cup ({plan[c].throttle} \ {Unset})
    BY <2>1, <2>2 DEF AskedThrottle
  <2> QED BY <2>3, <2>4, <2>5 DEF TogglesInv
<1>7. ASSUME NEW c \in Callers,
             \/ BuildAppenders(c) \/ TryApply(c) \/ ClampLevel(c) \/ SetReporter(c)
             \/ TakeHook(c) \/ SetHook(c) \/ InstallExitFlush(c)
      PROVE  TogglesInv'
  <2>1. /\ UNCHANGED <<config, plan>>
        /\ pc[c] \notin {"idle", "toggles", "throttle"}
        /\ \E to : /\ pc' = [pc EXCEPT ![c] = to]
                   /\ to \notin {"idle", "toggles", "throttle"}
    BY <1>7 DEF BuildAppenders, TryApply, ClampLevel, SetReporter, TakeHook, SetHook,
                InstallExitFlush, Goto
  <2> QED BY <1>3, <2>1
<1>8. ASSUME UNCHANGED <<config, plan, pc>> PROVE TogglesInv'
  BY <1>2, <1>8 DEF PastBackends, PastThrottle
<1>9. CASE ForeignLogger \/ (\E h \in PanicHooks : ForeignHook(h)) \/ Sigterm \/ UNCHANGED vars
  BY <1>8, <1>9 DEF ForeignLogger, ForeignHook, Sigterm, vars
<1> QED BY <1>4, <1>5, <1>6, <1>7, <1>9 DEF Next

LEMMA NextHeard == DeploymentIInv /\ [Next]_vars => HeardInv'
<1> SUFFICES ASSUME DeploymentIInv, [Next]_vars PROVE HeardInv'
  OBVIOUS
<1> USE DEF DeploymentIInv
<1>1. pc \in [Callers -> Steps] /\ built \in [Callers -> SUBSET Appenders]
  BY DEF StackInv, WinnerInv, ValuesInv
<1>2. Appenders \cap ToSet(EnvVars) = {}
  BY DEF Appenders, Requested, ToSet, EnvVars
\* A winner stays one.
<1>3. ASSUME NEW c \in Callers, NEW to, pc' = [pc EXCEPT ![c] = to], pc[c] \in Won => to \in Won,
             UNCHANGED <<built, plan, unheard>>
      PROVE  HeardInv'
  BY <1>1, <1>3 DEF HeardInv, Unhearing
<1>4. ASSUME NEW c \in Callers,
             \/ Begin(c) \/ SetBackends(c) \/ SetThrottle(c) \/ TryApply(c) \/ SetReporter(c)
             \/ TakeHook(c) \/ SetHook(c) \/ InstallExitFlush(c)
      PROVE  HeardInv'
  <2>1. /\ UNCHANGED <<built, plan, unheard>>
        /\ \E to : pc' = [pc EXCEPT ![c] = to] /\ (pc[c] \in Won => to \in Won)
    BY <1>4 DEF Begin, SetBackends, SetThrottle, TryApply, SetReporter, TakeHook, SetHook,
                InstallExitFlush, Goto, Won
  <2> QED BY <1>3, <2>1
<1>5. ASSUME NEW c \in Callers, BuildAppenders(c) PROVE HeardInv'
  <2>1. /\ pc[c] = "appenders" /\ pc' = [pc EXCEPT ![c] = "apply"] /\ UNCHANGED plan
        /\ \E a : built' = [built EXCEPT ![c] = a]
        /\ \E ok : unheard' = unheard \cup Unheard(logger, maxLevel, plan[c].appenders \ ok)
    BY <1>5 DEF BuildAppenders, Goto
  <2>2. plan[c].appenders \subseteq Appenders
    BY SettingsAssumption DEF ValuesInv, Deployments, Appenders
  <2>3. unheard' \cap ToSet(EnvVars) = unheard \cap ToSet(EnvVars)
    BY <1>2, <2>1, <2>2 DEF Unheard
  <2>4. \A d \in Callers : pc[d] \in Won => d # c /\ pc'[d] = pc[d] /\ built'[d] = built[d]
    BY <1>1, <2>1 DEF Won
  <2> QED BY <2>1, <2>3, <2>4 DEF HeardInv, Unhearing
<1>6. ASSUME NEW c \in Callers, ClampLevel(c) PROVE HeardInv'
  <2>1. /\ pc[c] = "clamp" /\ pc' = [pc EXCEPT ![c] = "reporter"] /\ UNCHANGED <<built, plan>>
        /\ unheard' = unheard \cup Unheard(logger, maxLevel, Misread(plan[c]))
    BY <1>6 DEF ClampLevel, Goto
  <2>2. pc'[c] \in Won /\ \A d \in Callers : pc[d] \in Won => pc'[d] \in Won
    BY <1>1, <2>1 DEF Won
  <2>3. CASE Unhearing(c)
    BY <2>1, <2>2, <2>3 DEF HeardInv, Unhearing
  <2>4. CASE ~Unhearing(c)
    <3>1. maxLevel = Trace /\ logger.dispatches = Dispatches(plan[c], built[c])
      BY <2>1 DEF LevelInv, Won
    <3>2. plan[c] \in Deployments /\ built[c] \in SUBSET Appenders
      BY SettingsAssumption DEF ValuesInv
    <3>3. Unheard(logger, Trace, Misread(plan[c])) = {}
      BY <2>4, <3>1, <3>2, WarningHeard DEF Unhearing
    <3>4. unheard' = unheard
      BY <2>1, <3>1, <3>3
    <3> QED BY <2>1, <2>2, <3>4 DEF HeardInv, Unhearing
  <2> QED BY <2>3, <2>4
<1>7. CASE ForeignLogger \/ (\E h \in PanicHooks : ForeignHook(h)) \/ Sigterm \/ UNCHANGED vars
  <2>1. UNCHANGED <<pc, built, plan, unheard>>
    BY <1>7 DEF ForeignLogger, ForeignHook, Sigterm, vars
  <2> QED BY <2>1 DEF HeardInv, Unhearing
<1> QED BY <1>4, <1>5, <1>6, <1>7 DEF Next

LEMMA DeploymentInvariant == Spec => []DeploymentIInv
<1>1. DeploymentIInv /\ [Next]_vars => DeploymentIInv'
  BY NextWinner, NextHook, NextValues, NextLevel, NextToggles, NextHeard
     DEF DeploymentIInv, StackInv
<1> QED BY <1>1, InitDeployment, PTL DEF Spec

\* Who was told Ok has its level for good, a toggle keeps the value of somebody who
\* asked for it, and a record is routed to all main appenders or to stderr alone, for
\* any number of callers and whatever the program does meanwhile.  (wire, resolve_level)
THEOREM SettingsHold == Spec => []Inv
<1>1. ASSUME DeploymentIInv PROVE Inv
  <2> USE <1>1 DEF DeploymentIInv
  <2>1. TypeOK
    BY DEF TypeOK, ValuesInv, StackInv, WinnerInv, HookInv, Hooks
  <2>2. LevelSettles
    BY DEF LevelSettles, LevelInv, Won
  <2>3. TogglesStay
    <3> SUFFICES ASSUME \A c \in Callers : pc[c] \in {"idle", "ok", "failed"},
                        NEW f \in {"backends", "throttle"}
                 PROVE  LET over == {d \in Callers : pc[d] \in {"ok", "failed"}}
                            asked == {plan[c][f] : c \in over} \ {Unset}
                        IN  IF asked = {} THEN config[f] = EnvConfig[f] ELSE config[f] \in asked
      BY DEF TogglesStay
    <3> DEFINE over == {d \in Callers : pc[d] \in {"ok", "failed"}}
    <3>1. PastBackends = over /\ PastThrottle = over
      BY DEF PastBackends, PastThrottle
    <3>2. CASE f = "backends"
      BY <3>1, <3>2 DEF TogglesInv, AskedBackends
    <3>3. CASE f = "throttle"
      BY <3>1, <3>3 DEF TogglesInv, AskedThrottle
    <3> QED BY <3>2, <3>3
  <2>4. RoutedOnce
    <3> SUFFICES ASSUME NEW c \in Callers, logger.by = c, built[c] # {},
                        NEW t \in Targets, NEW s \in Severities
                 PROVE  Route(logger, Trace, t, s) =
                          IF Drops(plan[c], t, s) THEN {}
                          ELSE IF plan[c].split # Unset /\ s <= plan[c].split
                               THEN {"stderr"} ELSE built[c]
      BY DEF RoutedOnce
    <3>1. logger.dispatches = Dispatches(plan[c], built[c])
      BY DEF StackInv, WinnerInv, LevelInv
    <3>2. plan[c] \in Deployments /\ built[c] \in SUBSET Appenders
      BY SettingsAssumption DEF ValuesInv
    <3> QED BY <3>1, <3>2, DispatchesRoute
  <2> QED BY <2>1, <2>2, <2>3, <2>4 DEF Inv
<1> QED BY <1>1, DeploymentInvariant, PTL

\* resolve_level speaks while the logger is live and the level lets everything pass,
\* whatever level it resolves to and whoever else inits, so that its warnings are lost
\* only to a filter of the environment that drops warnings on the library's target.
THEOREM WarningsAreHeard == Spec => []EnvWarningsHeard
<1>1. ASSUME DeploymentIInv PROVE EnvWarningsHeard
  BY <1>1 DEF DeploymentIInv, HeardInv, Unhearing, StackInv, WinnerInv, EnvWarningsHeard
<1> QED BY <1>1, DeploymentInvariant, PTL

-----------------------------------------------------------------------------
\* The chain of panic hooks.

\* While a caller has taken the chain, what is in place came late; and what was kept
\* is in place or in the chain that was taken.
ChainInv ==
  /\ \A c \in Callers : pc[c] = "setHook" => \A x \in ToSet(hook) : fate[x] = "late"
  /\ \A h \in Hooks : fate[h] = "kept" => h \in Chain

\* A hook in front of a chain keeps the chain.
LEMMA ChainInFront ==
  ASSUME NEW h \in Hooks, NEW s \in Seq(Hooks)
  PROVE  ToSet(<<h>> \o s) = {h} \cup ToSet(s)
<1> DEFINE chain == <<h>> \o s
<1>1. /\ chain \in Seq(Hooks) /\ Len(chain) = Len(s) + 1 /\ chain[1] = h
      /\ \A i \in 2..(Len(s) + 1) : chain[i] = s[i - 1]
  BY InFront
<1> HIDE DEF chain
<1>2. Len(s) \in Nat /\ DOMAIN s = 1..Len(s) /\ DOMAIN chain = 1..(Len(s) + 1)
  BY <1>1
<1>3. ASSUME NEW x \in ToSet(s) PROVE x \in ToSet(chain)
  <2>1. PICK i \in 1..Len(s) : x = s[i]
    BY <1>2, <1>3 DEF ToSet
  <2>2. i + 1 \in 2..(Len(s) + 1) /\ (i + 1) - 1 = i /\ i + 1 \in DOMAIN chain
    BY <1>2
  <2>3. chain[i + 1] = s[i]
    BY <1>1, <2>2
  <2> QED BY <2>1, <2>2, <2>3 DEF ToSet
<1>4. ASSUME NEW x \in ToSet(chain) PROVE x = h \/ x \in ToSet(s)
  <2>1. PICK i \in 1..(Len(s) + 1) : x = chain[i]
    BY <1>2, <1>4 DEF ToSet
  <2>2. CASE i = 1
    BY <1>1, <2>1, <2>2
  <2>3. CASE i # 1
    <3>1. i \in 2..(Len(s) + 1) /\ i - 1 \in 1..Len(s)
      BY <1>2, <2>3
    <3>2. chain[i] = s[i - 1]
      BY <1>1, <3>1
    <3> QED BY <1>2, <2>1, <3>1, <3>2 DEF ToSet
  <2> QED BY <2>2, <2>3
<1>5. h \in ToSet(chain)
  BY <1>1, <1>2 DEF ToSet
<1> QED BY <1>3, <1>4, <1>5 DEF chain

\* Only one caller has taken the chain at a time.
LEMMA OneTaker ==
  ASSUME StackInv, NEW c \in Callers, NEW d \in Callers, pc[c] \in Won, pc[d] \in Won
  PROVE  c = d
BY DEF StackInv, WinnerInv

LEMMA NextChain == StackInv /\ ValuesInv /\ ChainInv /\ [Next]_vars => ChainInv'
<1> SUFFICES ASSUME StackInv, ValuesInv, ChainInv, [Next]_vars PROVE ChainInv'
  OBVIOUS
<1>1. /\ pc \in [Callers -> Steps] /\ hook \in Seq(Hooks) /\ previous \in [Callers -> Seq(Hooks)]
      /\ fate \in [Hooks -> {"none", "kept", "late", "replaced"}]
  BY DEF StackInv, WinnerInv, HookInv, ValuesInv
<1>2. ToSet(hook) \subseteq Hooks
  BY <1>1 DEF ToSet
\* What leaves the hooks alone and nobody with the chain in hand.
<1>3. ASSUME UNCHANGED <<hook, previous, fate>>,
             \A d \in Callers : pc'[d] = "setHook" <=> pc[d] = "setHook"
      PROVE  ChainInv'
  BY <1>3 DEF ChainInv, Chain
<1>4. ASSUME NEW c \in Callers,
             \/ Begin(c) \/ SetBackends(c) \/ SetThrottle(c) \/ BuildAppenders(c) \/ TryApply(c)
             \/ ClampLevel(c) \/ SetReporter(c) \/ InstallExitFlush(c)
      PROVE  ChainInv'
  <2>1. /\ UNCHANGED <<hook, previous, fate>> /\ pc[c] # "setHook"
        /\ \E to : to # "setHook" /\ pc' = [pc EXCEPT ![c] = to]
    BY <1>4 DEF Begin, SetBackends, SetThrottle, BuildAppenders, TryApply, ClampLevel, SetReporter,
                InstallExitFlush, Goto
  <2> QED BY <1>1, <1>3, <2>1
<1>5. ASSUME NEW c \in Callers, TakeHook(c) PROVE ChainInv'
  <2>1. /\ pc[c] = "takeHook" /\ pc' = [pc EXCEPT ![c] = "setHook"]
        /\ previous' = [previous EXCEPT ![c] = hook] /\ hook' = <<>> /\ UNCHANGED fate
    BY <1>5 DEF TakeHook, Goto
  <2>2. ToSet(hook') = {}
    BY <2>1 DEF ToSet
  <2>3. \A d \in Callers : pc[d] # "setHook"
    BY <2>1, OneTaker DEF Won
  <2>4. Chain = ToSet(hook)
    BY <2>3 DEF Chain
  <2>5. pc'[c] = "setHook" /\ previous'[c] = hook
    BY <1>1, <2>1
  <2>6. ToSet(hook) \subseteq Chain'
    BY <2>5 DEF Chain
  <2> QED BY <2>1, <2>2, <2>4, <2>6 DEF ChainInv
<1>6. ASSUME NEW c \in Callers, SetHook(c) PROVE ChainInv'
  <2>1. /\ pc[c] = "setHook" /\ pc' = [pc EXCEPT ![c] = "exitFlush"]
        /\ hook' = <<c>> \o previous[c] /\ UNCHANGED previous
        /\ fate' = [fate EXCEPT ![c] = "kept"]
    BY <1>6 DEF SetHook, Goto
  <2>2. c \in Hooks /\ previous[c] \in Seq(Hooks)
    BY <1>1 DEF Hooks
  <2>3. ToSet(hook') = {c} \cup ToSet(previous[c])
    BY <2>1, <2>2, ChainInFront
  <2>4. \A d \in Callers : pc[d] = "setHook" => d = c
    BY <2>1, OneTaker DEF Won
  <2>5. \A d \in Callers : pc'[d] # "setHook"
    BY <1>1, <2>1, <2>4
  <2>6. Chain \subseteq ToSet(hook) \cup ToSet(previous[c])
    BY <2>4 DEF Chain
  <2>7. \A h \in Hooks : fate'[h] = "kept" => h \in ToSet(hook')
    <3> SUFFICES ASSUME NEW h \in Hooks, h # c, fate[h] = "kept" PROVE h \in ToSet(previous[c])
      BY <1>1, <2>1, <2>2, <2>3
    <3>1. h \in Chain /\ h \notin ToSet(hook)
      BY <2>1 DEF ChainInv
    <3> QED BY <2>6, <3>1
  <2> QED BY <2>5, <2>7 DEF ChainInv, Chain
<1>7. ASSUME NEW h \in PanicHooks, ForeignHook(h) PROVE ChainInv'
  <2>1. UNCHANGED <<pc, previous>> /\ h \in Hooks
    BY <1>7 DEF ForeignHook, Hooks
  <2>2. PICK chained \in BOOLEAN :
          /\ hook' = IF chained THEN <<h>> \o hook ELSE <<h>>
          /\ fate' = [x \in Hooks |->
                       CASE x = h -> IF \E c \in Callers : pc[c] = "setHook"
                                     THEN "late" ELSE "kept"
                         [] x # h /\ ~chained /\ x \in ToSet(hook) -> "replaced"
                         [] OTHER -> fate[x]]
    BY <1>7 DEF ForeignHook
  <2>3. ToSet(hook') = IF chained THEN {h} \cup ToSet(hook) ELSE {h}
    <3>1. ToSet(<<h>> \o hook) = {h} \cup ToSet(hook)
      BY <1>1, <2>1, ChainInFront
    <3>2. ToSet(<<h>>) = {h}
      BY DEF ToSet
    <3> QED BY <2>2, <3>1, <3>2
  <2>4. \A x \in Hooks : x # h => fate'[x] \in {fate[x], "replaced"}
    BY <2>2
  <2>5. \A x \in Hooks : x # h /\ fate'[x] = "kept" => chained \/ x \notin ToSet(hook)
    BY <2>2
  <2>6. ASSUME NEW c \in Callers, pc'[c] = "setHook" PROVE \A x \in ToSet(hook') : fate'[x] = "late"
    <3>1. fate'[h] = "late"
      BY <2>1, <2>2, <2>6
    <3>2. ASSUME NEW x \in ToSet(hook), x # h, chained PROVE fate'[x] = "late"
      <4>1. fate[x] = "late" /\ x \in Hooks
        BY <1>2, <2>1, <2>6 DEF ChainInv
      <4> QED BY <2>2, <3>2, <4>1
    <3> QED BY <2>3, <3>1, <3>2
  <2>7. ASSUME NEW x \in Hooks, fate'[x] = "kept" PROVE x \in Chain'
    <3>1. CASE x = h
      BY <2>3, <3>1 DEF Chain
    <3>2. CASE x # h
      <4>1. fate[x] = "kept"
        BY <2>4, <2>7, <3>2
      <4>2. x \in Chain /\ (chained \/ x \notin ToSet(hook))
        BY <2>5, <2>7, <3>2, <4>1 DEF ChainInv
      <4> QED BY <2>1, <2>3, <4>2 DEF Chain
    <3> QED BY <3>1, <3>2
  <2> QED BY <2>6, <2>7 DEF ChainInv
<1>8. CASE ForeignLogger \/ Sigterm \/ UNCHANGED vars
  BY <1>3, <1>8 DEF ForeignLogger, Sigterm, vars
<1> QED BY <1>4, <1>5, <1>6, <1>7, <1>8 DEF Next

\* Whatever is installed at whatever moment, and however many callers init: what
\* install_panic_hook found, and what it installed, is in the chain, unless the program
\* replaced it or installed it between the take and the set.  (That such a one is lost
\* shows MCDeploymentAsDocumented.cfg.)
THEOREM PanicHooksOutlastInit == Spec => []OnlyLateHooksLost
<1>1. Init => ChainInv
  <2> SUFFICES ASSUME Init PROVE ChainInv
    OBVIOUS
  <2>1. (\A c \in Callers : pc[c] = "idle") /\ \A h \in Hooks : fate[h] = "none"
    BY DEF Init
  <2> QED BY <2>1 DEF ChainInv
<1>2. DeploymentIInv => StackInv /\ ValuesInv
  BY DEF DeploymentIInv
<1>3. ChainInv => OnlyLateHooksLost
  BY DEF ChainInv, OnlyLateHooksLost
<1> QED BY <1>1, <1>2, <1>3, DeploymentInvariant, NextChain, PTL DEF Spec
-----------------------------------------------------------------------------
\* The appenders' traps.  The argument is about one stack of log calls at a time: a
\* call has tried what is before the place where it stands, and the appender whose
\* report it waits for is in its OnceLock.

Stands(f) ==
  /\ f.at \in 1..(Len(f.route) + 1)
  /\ f.pc = "next" => f.tried = SubSeq(f.route, 1, f.at - 1)
  /\ f.pc # "next" => f.at <= Len(f.route) /\ f.tried = SubSeq(f.route, 1, f.at)

\* Who waits for the report of an appender is below the calls of that report.
CallsOK(s, claimed) ==
  /\ s \in Seq(Frame)
  /\ \A i \in 1..Len(s) : Stands(s[i])
  /\ \A i \in 1..Len(s) : i < Len(s) <=> s[i].pc = "reporting"
  /\ \A i \in 1..Len(s) : s[i].pc = "reporting" => s[i].route[s[i].at] \in claimed

Claimed == {a \in Destinations : reported[a].state # "new"}

TrapsIInv ==
  /\ TrapsTypeOK /\ ReportedOnce
  /\ \A t \in Threads : CallsOK(frames[t], Claimed)

LEMMA RouteOK ==
  ASSUME NEW route \in Routes
  PROVE  /\ route \in Seq(Destinations) /\ SubSeq(route, 1, 0) = <<>>
         /\ SubSeq(route, 1, Len(route)) = route
         /\ \A k \in 1..Len(route) :
              /\ SubSeq(route, 1, k) \in Seq(Destinations)
              /\ Append(SubSeq(route, 1, k - 1), route[k]) = SubSeq(route, 1, k)
<1>1. route \in Seq(ToSet(route)) /\ ToSet(route) \subseteq Destinations
  BY RoutesAssumption DEF Destinations
<1>2. route \in Seq(Destinations)
  BY <1>1
<1>3. SubSeq(route, 1, 0) = <<>> /\ SubSeq(route, 1, Len(route)) = route
  BY <1>2
<1>4. ASSUME NEW k \in 1..Len(route)
      PROVE  /\ SubSeq(route, 1, k) \in Seq(Destinations)
             /\ Append(SubSeq(route, 1, k - 1), route[k]) = SubSeq(route, 1, k)
  BY <1>2
<1> QED BY <1>2, <1>3, <1>4

LEMMA FreshOK ==
  ASSUME NEW route \in Routes
  PROVE  Fresh(route) \in Frame /\ Stands(Fresh(route)) /\ Fresh(route).pc = "next"
<1>1. <<>> \in Seq(Destinations) /\ 1 \in Nat /\ 1 - 1 = 0 /\ Len(route) \in Nat
  BY RouteOK
<1>2. Fresh(route) \in Frame
  BY <1>1 DEF Fresh, Frame
<1> QED BY <1>1, <1>2, RouteOK DEF Fresh, Stands

\* A call that stands at an appender tries it, and what it has tried stays right.
LEMMA TriedOK ==
  ASSUME NEW f \in Frame, Stands(f), f.pc = "next", f.at <= Len(f.route)
  PROVE  LET g == [f EXCEPT !.tried = Append(@, f.route[f.at])] IN
         /\ g \in Frame /\ g.route = f.route /\ g.at = f.at
         /\ g.tried = SubSeq(f.route, 1, f.at)
<1>1. f.route \in Routes /\ f.at \in 1..Len(f.route) /\ f.tried = SubSeq(f.route, 1, f.at - 1)
  BY RouteOK DEF Frame, Stands
<1>2. Append(f.tried, f.route[f.at]) = SubSeq(f.route, 1, f.at)
      /\ SubSeq(f.route, 1, f.at) \in Seq(Destinations)
  BY <1>1, RouteOK
<1> QED BY <1>1, <1>2 DEF Frame

\* It goes on to the next one, ...
LEMMA AdvanceOK ==
  ASSUME NEW f \in Frame, f.at \in 1..Len(f.route), f.tried = SubSeq(f.route, 1, f.at)
  PROVE  Advance(f) \in Frame /\ Stands(Advance(f)) /\ Advance(f).pc = "next"
<1>1. f.route \in Routes /\ Len(f.route) \in Nat
  BY RouteOK DEF Frame
<1>2. f.at + 1 \in 1..(Len(f.route) + 1) /\ (f.at + 1) - 1 = f.at
  BY <1>1
<1>3. Advance(f) \in Frame
  <2>1. f.at + 1 \in Nat /\ "next" \in {"next", "failed", "reporting"}
    BY <1>2
  <2>2. Advance(f) = [f EXCEPT !.at = f.at + 1, !.pc = "next"]
    BY DEF Advance, Frame
  <2> QED BY <2>1, <2>2, Zenon DEF Frame
<1>4. /\ Advance(f).at = f.at + 1 /\ Advance(f).pc = "next"
      /\ Advance(f).route = f.route /\ Advance(f).tried = f.tried
  BY DEF Advance, Frame
<1> QED BY <1>1, <1>2, <1>3, <1>4 DEF Stands

\* ... or stays with its failure, or with the report of it.
LEMMA StaysOK ==
  ASSUME NEW f \in Frame, f.at \in 1..Len(f.route), f.tried = SubSeq(f.route, 1, f.at),
         NEW to \in {"failed", "reporting"}
  PROVE  LET g == [f EXCEPT !.pc = to] IN
         /\ g \in Frame /\ Stands(g) /\ g.pc = to /\ g.route = f.route /\ g.at = f.at
<1> DEFINE g == [f EXCEPT !.pc = to]
<1>1. g \in Frame
  BY DEF Frame
<1>2. /\ g.pc = to /\ g.pc # "next" /\ g.route = f.route
      /\ g.at = f.at /\ g.tried = f.tried
  BY DEF Frame
<1>3. Len(f.route) \in Nat /\ f.at \in 1..(Len(f.route) + 1) /\ f.at <= Len(f.route)
  BY RouteOK DEF Frame
<1> HIDE DEF g
<1>4. Stands(g)
  BY <1>2, <1>3 DEF Stands
<1> QED BY <1>1, <1>2, <1>4 DEF g

LEMMA TopCall ==
  ASSUME NEW s, NEW claimed, CallsOK(s, claimed), s # <<>>
  PROVE  /\ Len(s) \in Nat /\ Len(s) >= 1 /\ Last(s) = s[Len(s)] /\ Last(s) \in Frame
         /\ Stands(Last(s)) /\ Last(s).pc # "reporting"
         /\ Last(s).route \in Routes /\ Last(s).at \in Nat /\ Last(s).at >= 1
<1>1. s \in Seq(Frame) /\ Len(s) \in Nat /\ Len(s) >= 1
  BY DEF CallsOK
<1>2. Last(s) = s[Len(s)] /\ Last(s) \in Frame
  BY <1>1 DEF Last
<1>3. Stands(Last(s)) /\ Last(s).pc # "reporting"
  BY <1>1, <1>2 DEF CallsOK
<1>4. Last(s).route \in Routes /\ Last(s).at \in Nat /\ Last(s).at >= 1
  BY <1>2, <1>3, RouteOK DEF Frame, Stands
<1> QED BY <1>1, <1>2, <1>3, <1>4

LEMMA MoreClaimed ==
  ASSUME NEW s, NEW claimed, NEW more, CallsOK(s, claimed), claimed \subseteq more
  PROVE  CallsOK(s, more)
BY DEF CallsOK

\* The call on top moves.
LEMMA TopMoves ==
  ASSUME NEW s, NEW claimed, CallsOK(s, claimed), s # <<>>,
         NEW f \in Frame, Stands(f), f.pc # "reporting"
  PROVE  CallsOK(SetTop(s, f), claimed) /\ Len(SetTop(s, f)) = Len(s)
<1> DEFINE u == SetTop(s, f)
<1>1. s \in Seq(Frame) /\ Len(s) \in Nat /\ Len(s) >= 1
  BY TopCall DEF CallsOK
<1>2. /\ u \in Seq(Frame) /\ Len(u) = Len(s) /\ u[Len(s)] = f
      /\ \A i \in 1..Len(s) : i # Len(s) => u[i] = s[i]
  BY <1>1 DEF SetTop
<1> HIDE DEF u
<1>3. \A i \in 1..Len(u) : Stands(u[i])
  BY <1>2 DEF CallsOK
<1>4. \A i \in 1..Len(u) : i < Len(u) <=> u[i].pc = "reporting"
  BY <1>1, <1>2 DEF CallsOK
<1>5. \A i \in 1..Len(u) : u[i].pc = "reporting" => u[i].route[u[i].at] \in claimed
  BY <1>2 DEF CallsOK
<1>6. CallsOK(u, claimed)
  BY <1>2, <1>3, <1>4, <1>5 DEF CallsOK
<1> QED BY <1>2, <1>6 DEF u

\* It claims the report of the appender it stands at, and the report's call begins.
LEMMA ReportBegins ==
  ASSUME NEW s, NEW claimed, CallsOK(s, claimed), s # <<>>, NEW f \in Frame, Stands(f),
         f.pc = "reporting", f.route[f.at] \in claimed,
         NEW g \in Frame, Stands(g), g.pc = "next"
  PROVE  CallsOK(Append(SetTop(s, f), g), claimed)
         /\ Len(Append(SetTop(s, f), g)) = Len(s) + 1
<1> DEFINE v == SetTop(s, f)
           u == Append(v, g)
<1>1. s \in Seq(Frame) /\ Len(s) \in Nat /\ Len(s) >= 1
  BY TopCall DEF CallsOK
<1>2. /\ v \in Seq(Frame) /\ Len(v) = Len(s) /\ v[Len(s)] = f
      /\ \A i \in 1..Len(s) : i # Len(s) => v[i] = s[i]
  BY <1>1 DEF SetTop
<1> HIDE DEF v
<1>3. /\ u \in Seq(Frame) /\ Len(u) = Len(s) + 1 /\ u[Len(s) + 1] = g
      /\ \A i \in 1..Len(s) : u[i] = v[i]
  BY <1>2
<1> HIDE DEF u
<1>4. u[Len(s)] = f /\ \A i \in 1..Len(s) : i # Len(s) => u[i] = s[i]
  BY <1>1, <1>2, <1>3
<1>5. \A i \in 1..Len(u) : i = Len(s) + 1 \/ i = Len(s) \/ (i \in 1..Len(s) /\ i # Len(s))
  BY <1>1, <1>3
<1>6. \A i \in 1..Len(u) : Stands(u[i])
  BY <1>3, <1>4, <1>5 DEF CallsOK
<1>7. \A i \in 1..Len(u) : i < Len(u) <=> u[i].pc = "reporting"
  <2> SUFFICES ASSUME NEW i \in 1..Len(u) PROVE i < Len(u) <=> u[i].pc = "reporting"
    OBVIOUS
  <2>1. CASE i = Len(s) + 1
    BY <1>3, <2>1
  <2>2. CASE i = Len(s)
    BY <1>1, <1>3, <1>4, <2>2
  <2>3. CASE i \in 1..Len(s) /\ i # Len(s)
    <3>1. u[i] = s[i] /\ i < Len(s) /\ i < Len(u)
      BY <1>1, <1>3, <1>4, <2>3
    <3> QED BY <2>3, <3>1 DEF CallsOK
  <2> QED BY <1>5, <2>1, <2>2, <2>3
<1>8. \A i \in 1..Len(u) : u[i].pc = "reporting" => u[i].route[u[i].at] \in claimed
  BY <1>3, <1>4, <1>5 DEF CallsOK
<1>9. CallsOK(u, claimed)
  BY <1>3, <1>6, <1>7, <1>8 DEF CallsOK
<1> QED BY <1>3, <1>9 DEF u, v

LEMMA OuterCalls ==
  ASSUME NEW s \in Seq(Frame), s # <<>>
  PROVE  /\ Front(s) \in Seq(Frame) /\ Len(Front(s)) = Len(s) - 1
         /\ \A i \in 1..(Len(s) - 1) : Front(s)[i] = s[i]
<1>1. Len(s) \in Nat /\ Len(s) >= 1
  OBVIOUS
<1>2. PICK n \in Nat : Len(s) = n + 1
  <2>1. Len(s) - 1 \in Nat /\ Len(s) = (Len(s) - 1) + 1
    BY <1>1
  <2> QED BY <2>1
<1>3. Len(s) - 1 = n /\ n \in 0..Len(s)
  BY <1>2
<1>4. /\ SubSeq(s, 1, n) \in Seq(Frame) /\ Len(SubSeq(s, 1, n)) = n
      /\ \A i \in 1..n : SubSeq(s, 1, n)[i] = s[i]
  BY <1>3
<1> QED BY <1>3, <1>4 DEF Front

\* A call returns: to the program, or to the call whose report it was.
LEMMA CallEnds ==
  ASSUME NEW s, NEW claimed, CallsOK(s, claimed), s # <<>>
  PROVE  /\ Len(Front(s)) = Len(s) - 1
         /\ Front(s) = <<>> => CallsOK(Front(s), claimed)
         /\ Front(s) # <<>> =>
              /\ Last(Front(s)).route[Last(Front(s)).at] \in claimed
              /\ CallsOK(SetTop(Front(s), Advance(Last(Front(s)))), claimed)
              /\ Len(SetTop(Front(s), Advance(Last(Front(s))))) = Len(s) - 1
<1> DEFINE u == Front(s)
<1>1. s \in Seq(Frame) /\ Len(s) \in Nat /\ Len(s) >= 1
  BY TopCall DEF CallsOK
<1>2. /\ u \in Seq(Frame) /\ Len(u) = Len(s) - 1
      /\ \A i \in 1..(Len(s) - 1) : u[i] = s[i]
  BY <1>1, OuterCalls
<1> HIDE DEF u
<1>3. CASE u = <<>>
  <2>1. Len(<<>>) = 0 /\ \A i \in 1..0 : FALSE
    OBVIOUS
  <2>2. CallsOK(u, claimed)
    BY <1>2, <1>3, <2>1 DEF CallsOK
  <2> QED BY <1>2, <1>3, <2>2 DEF u
<1>4. CASE u # <<>>
  <2> DEFINE n == Len(s) - 1
             f == Last(u)
             v == SetTop(u, Advance(f))
  <2>1. n \in 1..Len(s) /\ n < Len(s) /\ Len(u) = n /\ f = u[n] /\ f = s[n] /\ f \in Frame
    BY <1>1, <1>2, <1>4 DEF Last
  <2> HIDE DEF f
  <2>2. Stands(f) /\ f.pc = "reporting" /\ f.route[f.at] \in claimed
    BY <2>1 DEF CallsOK
  <2>3. f.at \in 1..Len(f.route) /\ f.tried = SubSeq(f.route, 1, f.at)
    BY <2>1, <2>2, RouteOK DEF Stands, Frame
  <2>4. Advance(f) \in Frame /\ Stands(Advance(f)) /\ Advance(f).pc = "next"
    BY <2>1, <2>3, AdvanceOK
  <2>5. /\ v \in Seq(Frame) /\ Len(v) = n /\ v[n] = Advance(f)
        /\ \A i \in 1..n : i # n => v[i] = s[i]
    BY <1>2, <2>1, <2>4 DEF SetTop
  <2> HIDE DEF v
  <2>6. \A i \in 1..Len(v) : i \in 1..Len(s) /\ (i = n \/ i # n)
    BY <1>1, <2>1, <2>5
  <2>7. \A i \in 1..Len(v) : Stands(v[i])
    BY <2>4, <2>5, <2>6 DEF CallsOK
  <2>8. \A i \in 1..Len(v) : i < Len(v) <=> v[i].pc = "reporting"
    <3> SUFFICES ASSUME NEW i \in 1..Len(v) PROVE i < Len(v) <=> v[i].pc = "reporting"
      OBVIOUS
    <3>1. CASE i = n
      BY <2>1, <2>4, <2>5, <3>1
    <3>2. CASE i # n
      <4>1. v[i] = s[i] /\ i < Len(v) /\ i < Len(s) /\ i \in 1..Len(s)
        BY <1>1, <2>1, <2>5, <3>2
      <4> QED BY <4>1 DEF CallsOK
    <3> QED BY <3>1, <3>2
  <2>9. \A i \in 1..Len(v) : v[i].pc = "reporting" => v[i].route[v[i].at] \in claimed
    BY <2>4, <2>5, <2>6 DEF CallsOK
  <2>10. CallsOK(v, claimed)
    BY <2>5, <2>7, <2>8, <2>9 DEF CallsOK
  <2> QED BY <1>2, <1>4, <2>2, <2>5, <2>10 DEF f, u, v
<1> QED BY <1>2, <1>3, <1>4 DEF u

\* One thread's stack changes, and no OnceLock is given back.
LEMMA StacksChange ==
  ASSUME TrapsIInv, NEW t \in Threads, NEW s,
         frames' = [frames EXCEPT ![t] = s], Claimed \subseteq Claimed', CallsOK(s, Claimed')
  PROVE  /\ frames' \in [Threads -> Seq(Frame)]
         /\ \A u \in Threads : CallsOK(frames'[u], Claimed')
         /\ \A u \in Threads : \A i \in 1..Len(frames'[u]) :
              i < Len(frames'[u]) <=> frames'[u][i].pc = "reporting"
<1>1. frames \in [Threads -> Seq(Frame)] /\ s \in Seq(Frame)
  BY DEF TrapsIInv, TrapsTypeOK, CallsOK
<1>2. ASSUME NEW u \in Threads PROVE CallsOK(frames'[u], Claimed')
  <2>1. CallsOK(frames[u], Claimed')
    BY MoreClaimed DEF TrapsIInv
  <2> QED BY <1>1, <2>1
<1> QED BY <1>1, <1>2 DEF CallsOK

LEMMA CallKeeps == ASSUME TrapsIInv, NEW t \in Threads, Call(t) PROVE TrapsIInv'
<1>1. /\ calls' \in 0..MaxCalls
      /\ UNCHANGED <<errorRoute, reported, reports>>
  BY CallsAssumption DEF Call, TrapsIInv, TrapsTypeOK
<1>2. PICK route \in {AppRoute, errorRoute, FlushRoute(errorRoute)} :
        frames' = [frames EXCEPT ![t] = <<Fresh(route)>>]
  BY DEF Call
<1>3. route \in Routes
  BY <1>2 DEF TrapsIInv, TrapsTypeOK, Routes
<1>4. Fresh(route) \in Frame /\ Stands(Fresh(route)) /\ Fresh(route).pc = "next"
  BY <1>3, FreshOK
<1>5. CallsOK(<<Fresh(route)>>, Claimed)
  BY <1>4 DEF CallsOK
<1>6. Claimed' = Claimed
  BY <1>1 DEF Claimed
<1> QED BY <1>1, <1>2, <1>5, <1>6, StacksChange DEF TrapsIInv, TrapsTypeOK, ReportedOnce

\* What a step of the call on top of t does, if no OnceLock changes.
LEMMA MoveKeeps ==
  ASSUME TrapsIInv, NEW t \in Threads, frames[t] # <<>>,
         NEW f \in Frame, Stands(f), f.pc # "reporting",
         frames' = [frames EXCEPT ![t] = SetTop(frames[t], f)],
         UNCHANGED <<errorRoute, reported, reports, calls>>
  PROVE  TrapsIInv'
<1>1. CallsOK(SetTop(frames[t], f), Claimed)
  BY TopMoves DEF TrapsIInv
<1>2. Claimed' = Claimed
  BY DEF Claimed
<1> QED BY <1>1, <1>2, StacksChange DEF TrapsIInv, TrapsTypeOK, ReportedOnce

\* The call on top of a busy thread.
LEMMA BusyTop ==
  ASSUME TrapsIInv, NEW t \in Threads, frames[t] # <<>>
  PROVE  /\ CallsOK(frames[t], Claimed) /\ Top(t) \in Frame /\ Stands(Top(t))
         /\ Top(t).route \in Routes /\ Top(t).at \in Nat /\ Len(Top(t).route) \in Nat
         /\ Reached(t) => Tried(t) \in Frame /\ Tried(t).at \in 1..Len(Tried(t).route)
                          /\ Tried(t).tried = SubSeq(Tried(t).route, 1, Tried(t).at)
         /\ Busy(t, "failed") => Top(t).at \in 1..Len(Top(t).route)
                                 /\ Top(t).tried = SubSeq(Top(t).route, 1, Top(t).at)
                                 /\ Current(t) \in Destinations
<1>1. CallsOK(frames[t], Claimed)
  BY DEF TrapsIInv
<1>2. /\ Top(t) \in Frame /\ Stands(Top(t)) /\ Top(t).route \in Routes
      /\ Top(t).at \in Nat /\ Top(t).at >= 1
  BY <1>1, TopCall DEF Top
<1>3. Len(Top(t).route) \in Nat
  BY <1>2, RouteOK
<1>4. ASSUME Reached(t)
      PROVE  /\ Tried(t) \in Frame /\ Tried(t).at \in 1..Len(Tried(t).route)
             /\ Tried(t).tried = SubSeq(Tried(t).route, 1, Tried(t).at)
  <2>1. Top(t).pc = "next" /\ Top(t).at <= Len(Top(t).route)
    BY <1>4 DEF Reached, Busy
  <2>2. /\ Tried(t) \in Frame /\ Tried(t).route = Top(t).route /\ Tried(t).at = Top(t).at
        /\ Tried(t).tried = SubSeq(Top(t).route, 1, Top(t).at)
    BY <1>2, <2>1, TriedOK DEF Tried, Current
  <2> QED BY <1>2, <1>3, <2>1, <2>2
<1>5. ASSUME Busy(t, "failed")
      PROVE  /\ Top(t).at \in 1..Len(Top(t).route)
             /\ Top(t).tried = SubSeq(Top(t).route, 1, Top(t).at)
             /\ Current(t) \in Destinations
  <2>1. Top(t).pc # "next"
    BY <1>5 DEF Busy
  <2>2. Top(t).at \in 1..Len(Top(t).route) /\ Top(t).tried = SubSeq(Top(t).route, 1, Top(t).at)
    BY <1>2, <1>3, <2>1 DEF Stands
  <2>3. Current(t) \in Destinations
    BY <1>2, <2>2, RouteOK DEF Current
  <2> QED BY <2>2, <2>3
<1> QED BY <1>1, <1>2, <1>3, <1>4, <1>5

LEMMA AppendOkKeeps == ASSUME TrapsIInv, NEW t \in Threads, AppendOk(t) PROVE TrapsIInv'
<1>1. /\ frames[t] # <<>> /\ Reached(t)
      /\ frames' = [frames EXCEPT ![t] = SetTop(frames[t], Advance(Tried(t)))]
      /\ UNCHANGED <<errorRoute, reported, reports, calls>>
  BY DEF AppendOk, Reached, Busy
<1>2. /\ Advance(Tried(t)) \in Frame /\ Stands(Advance(Tried(t)))
      /\ Advance(Tried(t)).pc # "reporting"
  BY <1>1, BusyTop, AdvanceOK
<1> QED BY <1>1, <1>2, MoveKeeps

LEMMA AppendFailsKeeps == ASSUME TrapsIInv, NEW t \in Threads, AppendFails(t) PROVE TrapsIInv'
<1> DEFINE f == [Tried(t) EXCEPT !.pc = "failed"]
<1>1. /\ frames[t] # <<>> /\ Reached(t)
      /\ frames' = [frames EXCEPT ![t] = SetTop(frames[t], f)]
      /\ UNCHANGED <<errorRoute, reported, reports, calls>>
  BY DEF AppendFails, Reached, Busy
<1>2. f \in Frame /\ Stands(f) /\ f.pc # "reporting"
  BY <1>1, BusyTop, StaysOK
<1> QED BY <1>1, <1>2, MoveKeeps

LEMMA SwallowKeeps == ASSUME TrapsIInv, NEW t \in Threads, Swallow(t) PROVE TrapsIInv'
<1>1. /\ frames[t] # <<>> /\ Busy(t, "failed")
      /\ frames' = [frames EXCEPT ![t] = SetTop(frames[t], Advance(Top(t)))]
      /\ UNCHANGED <<errorRoute, reported, reports, calls>>
  BY DEF Swallow, Busy
<1>2. Advance(Top(t)) \in Frame /\ Stands(Advance(Top(t))) /\ Advance(Top(t)).pc # "reporting"
  BY <1>1, BusyTop, AdvanceOK
<1> QED BY <1>1, <1>2, MoveKeeps

\* Only who finds a OnceLock new makes the report.
LEMMA ReportKeeps == ASSUME TrapsIInv, NEW t \in Threads, Report(t) PROVE TrapsIInv'
<1> DEFINE a == Current(t)
           f == [Top(t) EXCEPT !.pc = "reporting"]
           s == Append(SetTop(frames[t], f), Fresh(errorRoute))
<1>1. /\ frames[t] # <<>> /\ Busy(t, "failed") /\ reported[a].state = "new"
      /\ reported' = [reported EXCEPT ![a] = [state |-> "running", by |-> t]]
      /\ reports' = [reports EXCEPT ![a] = reports[a] + 1]
      /\ frames' = [frames EXCEPT ![t] = s]
      /\ UNCHANGED <<errorRoute, calls>>
  BY DEF Report, Busy
<1>2. /\ errorRoute \in Routes /\ a \in Destinations
      /\ reported \in [Destinations -> [state : {"new", "running", "done"},
                                        by : Threads \cup {NoThread}]]
      /\ reports \in [Destinations -> Nat]
      /\ \A b \in Destinations : reports[b] > 0 <=> reported[b].state # "new"
      /\ \A b \in Destinations : reports[b] <= 1
  BY <1>1, BusyTop DEF TrapsIInv, TrapsTypeOK, ReportedOnce, Routes
<1>3. Claimed' = Claimed \cup {a}
  BY <1>1, <1>2 DEF Claimed
<1>4. f \in Frame /\ Stands(f) /\ f.pc = "reporting" /\ f.route[f.at] = a
  BY <1>1, BusyTop, StaysOK DEF Current
<1>5. CallsOK(frames[t], Claimed')
  BY <1>3, MoreClaimed DEF TrapsIInv
<1>6. CallsOK(s, Claimed')
  <2>1. Fresh(errorRoute) \in Frame /\ Stands(Fresh(errorRoute))
        /\ Fresh(errorRoute).pc = "next"
    BY <1>2, FreshOK
  <2>2. f.route[f.at] \in Claimed'
    BY <1>3, <1>4
  <2> HIDE DEF f
  <2> QED BY <1>1, <1>4, <1>5, <2>1, <2>2, ReportBegins
<1> HIDE DEF s, f
<1>7. /\ frames' \in [Threads -> Seq(Frame)]
      /\ \A u \in Threads : CallsOK(frames'[u], Claimed')
      /\ \A u \in Threads : \A i \in 1..Len(frames'[u]) :
           i < Len(frames'[u]) <=> frames'[u][i].pc = "reporting"
  BY <1>1, <1>3, <1>6, StacksChange
<1> HIDE DEF a
<1>8. /\ reported' \in [Destinations -> [state : {"new", "running", "done"},
                                         by : Threads \cup {NoThread}]]
      /\ reports' \in [Destinations -> Nat]
  BY <1>1, <1>2
<1>9. reports[a] = 0
  BY <1>1, <1>2
<1>10. \A b \in Destinations :
         (reports'[b] > 0 <=> reported'[b].state # "new") /\ reports'[b] <= 1
  BY <1>1, <1>2, <1>9
<1>11. errorRoute' \in ErrorRoutes /\ calls' \in 0..MaxCalls
  BY <1>1 DEF TrapsIInv, TrapsTypeOK
<1> QED BY <1>7, <1>8, <1>10, <1>11 DEF TrapsIInv, TrapsTypeOK, ReportedOnce

\* The OnceLock that a return sets was claimed when its report began.
LEMMA ReturnKeeps == ASSUME TrapsIInv, NEW t \in Threads, Return(t) PROVE TrapsIInv'
<1> DEFINE outer == Front(frames[t])
           a == Last(outer).route[Last(outer).at]
<1>1. frames[t] # <<>> /\ CallsOK(frames[t], Claimed) /\ UNCHANGED <<errorRoute, reports, calls>>
  BY DEF Return, Busy, TrapsIInv
<1>2. CASE outer = <<>> /\ frames' = [frames EXCEPT ![t] = outer] /\ UNCHANGED reported
  <2>1. Claimed' = Claimed /\ CallsOK(outer, Claimed)
    BY <1>1, <1>2, CallEnds DEF Claimed
  <2> HIDE DEF outer
  <2> QED BY <1>1, <1>2, <2>1, StacksChange DEF TrapsIInv, TrapsTypeOK, ReportedOnce
<1>3. CASE /\ outer # <<>>
           /\ frames' = [frames EXCEPT ![t] = SetTop(outer, Advance(Last(outer)))]
           /\ reported' = [reported EXCEPT ![a] = [state |-> "done", by |-> NoThread]]
  <2>1. a \in Claimed /\ CallsOK(SetTop(outer, Advance(Last(outer))), Claimed)
    BY <1>1, <1>3, CallEnds
  <2> DEFINE s == SetTop(outer, Advance(Last(outer)))
  <2> HIDE DEF a, s
  <2>2. /\ reported \in [Destinations -> [state : {"new", "running", "done"},
                                          by : Threads \cup {NoThread}]]
        /\ \A b \in Destinations : reports[b] > 0 <=> reported[b].state # "new"
        /\ reported[a].state # "new" /\ a \in Destinations
    BY <2>1 DEF TrapsIInv, TrapsTypeOK, Claimed
  <2>3. /\ reported' \in [Destinations -> [state : {"new", "running", "done"},
                                           by : Threads \cup {NoThread}]]
        /\ \A b \in Destinations : reported'[b].state # "new" <=> reported[b].state # "new"
    BY <1>3, <2>2 DEF a
  <2>4. Claimed' = Claimed
    BY <2>3 DEF Claimed
  <2>5. /\ frames' \in [Threads -> Seq(Frame)]
        /\ \A u \in Threads : CallsOK(frames'[u], Claimed')
        /\ \A u \in Threads : \A i \in 1..Len(frames'[u]) :
             i < Len(frames'[u]) <=> frames'[u][i].pc = "reporting"
    BY <1>3, <2>1, <2>4, StacksChange DEF s
  <2> QED BY <1>1, <2>2, <2>3, <2>5 DEF TrapsIInv, TrapsTypeOK, ReportedOnce
<1> QED BY <1>2, <1>3 DEF Return

\* For any threads, routes and destinations: whoever fails, whenever, the calls on
\* every stack have tried what they passed.
LEMMA TrapsInvariant == TrapsSpec => []TrapsIInv
<1>1. TrapsInit => TrapsIInv
  BY CallsAssumption DEF TrapsInit, TrapsIInv, TrapsTypeOK, ReportedOnce, CallsOK
<1>2. TrapsIInv /\ [TrapsNext]_trapVars => TrapsIInv'
  <2> SUFFICES ASSUME TrapsIInv, [TrapsNext]_trapVars PROVE TrapsIInv'
    OBVIOUS
  <2>1. CASE UNCHANGED trapVars
    BY <2>1 DEF trapVars, TrapsIInv, TrapsTypeOK, ReportedOnce, CallsOK, Claimed
  <2>2. ASSUME NEW t \in Threads, Call(t) \/ Proceed(t) PROVE TrapsIInv'
    BY <2>2, CallKeeps, AppendOkKeeps, AppendFailsKeeps, ReportKeeps, SwallowKeeps, ReturnKeeps
       DEF Proceed
  <2> QED BY <2>1, <2>2 DEF TrapsNext
<1> QED BY <1>1, <1>2, PTL DEF TrapsSpec

\* However many threads fail at the same time and whatever is reported in whose report,
\* an appender's failure is reported at most once.
THEOREM TrapsReportOnce == TrapsSpec => []TrapsInv
<1>1. TrapsIInv => TrapsInv
  BY DEF TrapsIInv, TrapsInv
<1> QED BY <1>1, TrapsInvariant, PTL

\* A log call returns only after it has tried every appender of its route, in order,
\* whichever failed and whoever reported it.
THEOREM EveryAppenderIsTried == TrapsSpec => AllTried
<1> DEFINE Complete == \A t \in Threads :
             Len(frames'[t]) < Len(frames[t]) => Top(t).tried = Top(t).route
<1>1. ASSUME TrapsIInv, TrapsNext PROVE Complete
  <2> SUFFICES ASSUME NEW u \in Threads, Len(frames'[u]) < Len(frames[u])
               PROVE  Top(u).tried = Top(u).route
    OBVIOUS
  <2>1. PICK t \in Threads : Call(t) \/ Proceed(t)
    BY <1>1 DEF TrapsNext
  <2>2. frames \in [Threads -> Seq(Frame)] /\ Len(frames[u]) \in Nat
    BY <1>1 DEF TrapsIInv, TrapsTypeOK
  <2>3. \E s : frames' = [frames EXCEPT ![t] = s]
    BY <2>1 DEF Call, Proceed, AppendOk, AppendFails, Report, Swallow, Return
  <2>4. u = t
    BY <2>2, <2>3
  <2>5. CASE Call(t)
    <3>1. frames[t] = <<>> /\ \E x : frames'[t] = <<x>>
      BY <2>2, <2>5 DEF Call
    <3> QED BY <2>4, <3>1
  <2>6. ASSUME frames[t] # <<>>, NEW f \in Frame,
               frames' = [frames EXCEPT ![t] = SetTop(frames[t], f)]
        PROVE  FALSE
    <3>1. frames'[t] = SetTop(frames[t], f) /\ frames[t] \in Seq(Frame)
      BY <2>2, <2>6
    <3>2. Len(frames'[t]) = Len(frames[t])
      BY <2>6, <3>1 DEF SetTop
    <3> QED BY <2>2, <2>4, <3>2
  <2>7. CASE AppendOk(t)
    <3>1. /\ frames[t] # <<>> /\ Reached(t)
          /\ frames' = [frames EXCEPT ![t] = SetTop(frames[t], Advance(Tried(t)))]
      BY <2>7 DEF AppendOk, Reached, Busy
    <3>2. Advance(Tried(t)) \in Frame
      BY <1>1, <3>1, BusyTop, AdvanceOK
    <3> QED BY <2>6, <3>1, <3>2
  <2>8. CASE AppendFails(t)
    <3>1. /\ frames[t] # <<>> /\ Reached(t)
          /\ frames' = [frames EXCEPT ![t] = SetTop(frames[t], [Tried(t) EXCEPT !.pc = "failed"])]
      BY <2>8 DEF AppendFails, Reached, Busy
    <3>2. [Tried(t) EXCEPT !.pc = "failed"] \in Frame
      BY <1>1, <3>1, BusyTop, StaysOK
    <3> QED BY <2>6, <3>1, <3>2
  <2>9. CASE Swallow(t)
    <3>1. /\ frames[t] # <<>> /\ Busy(t, "failed")
          /\ frames' = [frames EXCEPT ![t] = SetTop(frames[t], Advance(Top(t)))]
      BY <2>9 DEF Swallow, Busy
    <3>2. Advance(Top(t)) \in Frame
      BY <1>1, <3>1, BusyTop, AdvanceOK
    <3> QED BY <2>6, <3>1, <3>2
  <2>10. CASE Report(t)
    <3> DEFINE f == [Top(t) EXCEPT !.pc = "reporting"]
    <3>1. /\ frames[t] # <<>> /\ Busy(t, "failed")
          /\ frames' = [frames EXCEPT ![t] = Append(SetTop(frames[t], f), Fresh(errorRoute))]
      BY <2>10 DEF Report, Busy
    <3>2. f \in Frame
      BY <1>1, <3>1, BusyTop, StaysOK
    <3> HIDE DEF f
    <3>3. SetTop(frames[t], f) \in Seq(Frame) /\ Len(SetTop(frames[t], f)) = Len(frames[t])
      BY <2>2, <3>1, <3>2 DEF SetTop
    <3>4. Fresh(errorRoute) \in Frame
      BY <1>1, FreshOK DEF TrapsIInv, TrapsTypeOK, Routes
    <3>5. Len(frames'[t]) = Len(frames[t]) + 1
      BY <2>2, <3>1, <3>3, <3>4
    <3> QED BY <2>2, <2>4, <3>5
  <2>11. CASE Return(t)
    <3>1. frames[t] # <<>> /\ Top(t).pc = "next" /\ Top(t).at > Len(Top(t).route)
      BY <2>11 DEF Return, Busy
    <3>2. /\ Stands(Top(t)) /\ Top(t).route \in Routes
          /\ Top(t).at \in Nat /\ Len(Top(t).route) \in Nat
      BY <1>1, <3>1, BusyTop
    <3>3. Top(t).at - 1 = Len(Top(t).route) /\ Top(t).tried = SubSeq(Top(t).route, 1, Top(t).at - 1)
      BY <3>1, <3>2 DEF Stands
    <3> QED BY <2>4, <3>2, <3>3, RouteOK
  <2> QED BY <2>1, <2>5, <2>7, <2>8, <2>9, <2>10, <2>11 DEF Proceed
<1>2. TrapsIInv /\ [TrapsNext]_trapVars => [Complete]_trapVars
  BY <1>1
<1> QED BY <1>2, TrapsInvariant, PTL DEF TrapsSpec, AllTried
==============================================================================
