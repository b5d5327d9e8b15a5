--------------------------- MODULE Configuration ---------------------------
(***************************************************************************)
(* Where settings come from: the environment, read by config() on its first*)
(* access and again by DeploymentConfig::from_env; a configuration of the  *)
(* program's own; the setters of the builder; and calls that set the       *)
(* toggles at any time (src/src/config.rs, src/src/deploy.rs).             *)
(* Deployment::wire, which Deployment models step by step, stores the      *)
(* toggles of a deployment: here that is one step.                         *)
(*                                                                         *)
(* A value is given by what its parsers tell apart.  OBSERVE_PROFILE is the*)
(* sequence of the names between its commas, trimmed and in lower case. A  *)
(* level, a throttle or a layout is a value or Garbled, padded with blanks *)
(* or not.  Fields that are treated alike are represented by one of them:  *)
(* layout for layout and traces, fileFromEnv for the flags.                *)
(***************************************************************************)
EXTENDS Naturals, Sequences, FiniteSets, SequencesExt

CONSTANTS
  Unset,         \* a variable that is not set, a field that is None
  Garbled,       \* a value that does not parse
  BackendNames,  \* the names of BACKENDS_INFO
  Environments,  \* the environments the process may have
  Builders,      \* deployments as the setters of the builder leave them
  Drafts,        \* DeploymentConfigs of the program's own
  Toggles,       \* [backends |-> masks, throttle |-> limits] the program sets itself
  DefaultBackends

\* The values of the toggles behind config().
Settings == [backends : SUBSET BackendNames, throttle : Nat]

NotSet == [value |-> Unset, padded |-> FALSE]

\* What from_env makes of an environment: a throttle is parsed, without trimming, and
\* dropped if that fails; the other values are kept as they are.
DraftFrom(e) ==
  [level       |-> e.level,
   layout      |-> NotSet,
   backends    |-> e.profile,
   throttle    |-> IF e.throttle.padded \/ e.throttle.value = Garbled THEN Unset
                   ELSE e.throttle.value,
   fileFromEnv |-> IF e.logDir THEN TRUE ELSE Unset]

ASSUME DefaultsAssumption == DefaultBackends \subseteq BackendNames
ASSUME UnsetAssumption ==
  /\ Unset # Garbled
  /\ Unset \notin Settings /\ \A e \in Environments : DraftFrom(e) # Unset
  /\ \A x \in {Unset, Garbled} :
       x \notin Nat /\ x \notin BOOLEAN /\ \A b \in SUBSET BackendNames : x # b
ASSUME TogglesAssumption ==
  /\ DOMAIN Toggles = {"backends", "throttle"}
  /\ Toggles.backends \subseteq SUBSET BackendNames /\ Toggles.throttle \subseteq Nat
\* What is given as a number or a flag is one.
ASSUME GivenAssumption ==
  /\ \A e \in Environments : e.throttle.value \in Nat \cup {Unset, Garbled} /\ e.logDir \in BOOLEAN
  /\ \A d \in Drafts : /\ d.throttle \in Nat \cup {Unset}
                      /\ d.fileFromEnv \in BOOLEAN \cup {Unset}
  /\ \A b \in Builders :
       /\ DOMAIN b = {"level", "layout", "backends", "throttle", "fileFromEnv"}
       /\ b.backends \in (SUBSET BackendNames) \cup {Unset}
       /\ b.throttle \in Nat \cup {Unset}

VARIABLES
  env,         \* the environment; it does not change
  builder,     \* the deployment the setters made
  config,      \* ObserveConfig; Unset before config() is first called
  asked,       \* history: the toggles that the program set last
  draft,       \* the DeploymentConfig; Unset before there is one
  fromEnv,     \* history: draft was made by from_env
  wiring,      \* "draft", "applied", "refused", "running"
  errors,      \* the fields that ConfigErrors name
  deployment,  \* what apply returned
  modes        \* OBSERVE_COLOR: [read, value, warned], resolved once

configurationVars ==
  <<env, builder, config, asked, draft, fromEnv, wiring, errors, deployment, modes>>

\* Backends::from_env_value: every name is known, and "off" is alone.
FromEnvValue(names) ==
  LET named == ToSet(names) \ {"off"} IN
  IF named \subseteq BackendNames /\ ("off" \in ToSet(names) => named = {})
  THEN named ELSE Garbled

NotAsked == [backends |-> Unset, throttle |-> Unset]

ConfigurationInit ==
  /\ env \in Environments /\ builder \in Builders
  /\ config = Unset /\ asked = NotAsked /\ draft = Unset /\ fromEnv = FALSE
  /\ wiring = "draft" /\ errors = {} /\ deployment = Unset
  /\ modes = [read |-> FALSE, value |-> "auto", warned |-> FALSE]

-----------------------------------------------------------------------------
\* config()

\* What a parser that trims makes of a value.
Parsed(text, default) == IF text.value \in {Unset, Garbled} THEN default ELSE text.value

\* The initialiser of CONFIG: what does not parse keeps the default, with a warning.
FromEnvironment ==
  [backends |-> IF env.profile = Unset \/ FromEnvValue(env.profile) = Garbled THEN DefaultBackends
                ELSE FromEnvValue(env.profile),
   throttle |-> Parsed(env.throttle, 0)]

\* config(): its first caller initialises it.
Config == IF config = Unset THEN FromEnvironment ELSE config

\* Any code that looks at the config, a scope for instance.
LookAtConfig ==
  /\ config' = Config
  /\ UNCHANGED <<env, builder, asked, draft, fromEnv, wiring, errors, deployment, modes>>

\* set_backends and set_error_hook_throttle, called by the program.
SetToggle(field, value) ==
  /\ wiring # "running"
  /\ asked' = [asked EXCEPT ![field] = value]
  /\ config' = [Config EXCEPT ![field] = value]
  /\ UNCHANGED <<env, builder, draft, fromEnv, wiring, errors, deployment, modes>>

-----------------------------------------------------------------------------
\* DeploymentConfig

\* from_env
FromEnv ==
  /\ draft = Unset
  /\ draft' = DraftFrom(env)
  /\ fromEnv' = TRUE
  /\ UNCHANGED <<env, builder, config, asked, wiring, errors, deployment, modes>>

\* The program has a configuration of its own.
OwnDraft(d) ==
  /\ draft = Unset
  /\ draft' = d
  /\ UNCHANGED <<env, builder, config, asked, fromEnv, wiring, errors, deployment, modes>>

\* The fields of a draft as apply parses them.
ParsedDraft(d) ==
  [level       |-> d.level.value,
   layout      |-> d.layout.value,
   backends    |-> IF d.backends = Unset THEN Unset ELSE FromEnvValue(d.backends),
   throttle    |-> d.throttle,
   fileFromEnv |-> d.fileFromEnv]

Or(given, base) == IF given = Unset THEN base ELSE given

\* Faulty: what the setters said wins.
OverlayUnder(given) == [f \in DOMAIN builder |-> Or(builder[f], given[f])]

\* Fields of the draft over those of the builder.
Overlay(given) == [f \in DOMAIN builder |-> Or(given[f], builder[f])]

\* DeploymentConfig::apply: every field is parsed before anything is built.
Apply ==
  LET given   == ParsedDraft(draft)
      garbled == {f \in DOMAIN given : given[f] = Garbled}
  IN  /\ draft # Unset /\ wiring = "draft"
      /\ errors' = garbled
      /\ IF garbled # {}
         THEN wiring' = "refused" /\ UNCHANGED deployment
         ELSE wiring' = "applied" /\ deployment' = Overlay(given)
      /\ UNCHANGED <<env, builder, config, asked, draft, fromEnv, modes>>

\* Deployment::wire sets the toggles that the deployment has.
Wire ==
  /\ wiring = "applied"
  /\ wiring' = "running"
  /\ config' = IF deployment.backends = Unset /\ deployment.throttle = Unset THEN config
               ELSE [f \in DOMAIN Config |-> Or(deployment[f], Config[f])]
  /\ UNCHANGED <<env, builder, asked, draft, fromEnv, errors, deployment, modes>>

-----------------------------------------------------------------------------
\* color_mode(): env_enum reads, parses and warns once, whatever asks for it.

ColorModes == [always |-> {"always", "1", "true"}, never |-> {"never", "0", "false"}]

ReadColorMode ==
  LET meant == {m \in DOMAIN ColorModes : env.color \in ColorModes[m]} IN
  /\ ~modes.read
  /\ modes' = [read   |-> TRUE,
               value  |-> IF meant = {} THEN "auto" ELSE CHOOSE m \in meant : TRUE,
               warned |-> env.color # Unset /\ meant = {}]
  /\ UNCHANGED <<env, builder, config, asked, draft, fromEnv, wiring, errors, deployment>>

ConfigurationNext ==
  \/ LookAtConfig
  \/ \E f \in DOMAIN Toggles : \E v \in Toggles[f] : SetToggle(f, v)
  \/ FromEnv
  \/ \E d \in Drafts : OwnDraft(d)
  \/ Apply
  \/ Wire
  \/ ReadColorMode

ConfigurationSpec == ConfigurationInit /\ [][ConfigurationNext]_configurationVars

-----------------------------------------------------------------------------
\* Properties.

\* What the environment means for a toggle, Unset if nothing.
FromVariable(f) ==
  IF f = "backends"
  THEN IF env.profile = Unset \/ FromEnvValue(env.profile) = Garbled THEN Unset
       ELSE FromEnvValue(env.profile)
  ELSE Parsed(env.throttle, Unset)

Default == [backends |-> DefaultBackends, throttle |-> 0]

\* Whichever of the readers came first and wherever the program's own calls fell
\* between: a toggle is what the deployment says, or else what the program set, or
\* else what the environment means, or else the default; and a deployment says what
\* the draft has, or else the setters.  A draft with a field that does not parse is
\* refused with all such fields named, and leaves every toggle as it was.
SettingsAsAsked ==
  LET without(f) == Or(asked[f], Or(FromVariable(f), Default[f])) IN
  /\ \A f \in DOMAIN Default :
       Config[f] = IF wiring = "running" THEN Or(deployment[f], without(f)) ELSE without(f)
  /\ wiring = "refused" =>
       /\ deployment = Unset
       /\ errors = {f \in {"level", "layout"} : draft[f].value = Garbled}
                   \cup (IF draft.backends # Unset /\ FromEnvValue(draft.backends) = Garbled
                         THEN {"backends"} ELSE {})
  /\ wiring \in {"applied", "running"} =>
       /\ errors = {}
       /\ \A f \in {"throttle", "fileFromEnv"} : deployment[f] = Or(draft[f], builder[f])
       /\ deployment.level = Or(draft.level.value, builder.level)

\* config() and from_env read the same variables and take them for the same, so that
\* a deployment from the environment runs with what the environment says, also where
\* the setters say something else.  A padded throttle is not read alike: without
\* setters for it, that has no effect.
EnvironmentWins ==
  wiring = "running" /\ fromEnv =>
    \A f \in DOMAIN Default :
      FromVariable(f) # Unset =>
        \/ config = Unset
        \/ config[f] = FromVariable(f)
        \/ f = "throttle" /\ env.throttle.padded /\ Or(asked.throttle, builder.throttle) # Unset

SettingsInv == SettingsAsAsked /\ EnvironmentWins

\* "Unparseable values are reported as ConfigErrors - nothing is applied"
\* (Deployment::from_env).
EnvErrorsReported ==
  fromEnv /\ env.throttle.value = Garbled => wiring \in {"draft", "refused"}

\* "`Some` fields win" (DeploymentConfig::apply), the throttle of the environment is
\* such a field by the table of from_env.
PaddedThrottleWins ==
  wiring = "running" /\ fromEnv /\ env.throttle.value \notin {Unset, Garbled} /\ asked = NotAsked
    => Config.throttle = env.throttle.value

\* "OBSERVE_COLOR (auto|always|never, case-insensitive; anything else -> Auto)", with
\* a warning that names these three: none of them is warned about.
DocumentedColors == env.color \in {"auto", "always", "never"} => ~modes.warned
=============================================================================
