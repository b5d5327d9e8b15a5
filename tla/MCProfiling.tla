---------------------------- MODULE MCProfiling ----------------------------
(***************************************************************************)
(* Scopes of two tasks of a thread; apart from them, two threads that set  *)
(* the mask and measure; a process that gets its settings from its         *)
(* environment, its setters, a draft and calls; and a collector with up to *)
(* three targets.                                                          *)
(***************************************************************************)
EXTENDS FunctionScopes, Profiles, Configuration, Reporters

CONSTANTS bogus

MCBackends == <<instant, fastrace, web, puffin>>

NoVariables ==
  [profile |-> Unset, throttle |-> NotSet, level |-> NotSet, logDir |-> FALSE, color |-> Unset]
Says(x, padded) == [value |-> x, padded |-> padded]

MCEnvironments ==
  [profile  : {Unset, <<"instant">>, <<"off">>, <<"web", "off">>, <<bogus>>},
   throttle : {NotSet, Says(5, FALSE), Says(5, TRUE), Says(Garbled, FALSE)},
   level    : {NotSet, Says("info", TRUE), Says(Garbled, FALSE)},
   logDir   : {FALSE},
   color    : {Unset}]
  \cup {[NoVariables EXCEPT !.logDir = TRUE]}
  \cup {[NoVariables EXCEPT !.color = c] : c \in {"auto", "1", "never", "purple"}}

NoSetters ==
  [level |-> Unset, layout |-> "text", backends |-> Unset, throttle |-> Unset, fileFromEnv |-> FALSE]
MCBuilders ==
  {NoSetters,
   [NoSetters EXCEPT !.backends = {"web"}, !.layout = "json", !.level = "warn"],
   [NoSetters EXCEPT !.throttle = 7, !.fileFromEnv = TRUE],
   [NoSetters EXCEPT !.backends = {}, !.throttle = 7, !.level = "warn"]}

MCDrafts ==
  [level       : {NotSet, Says("info", TRUE), Says(Garbled, FALSE)},
   layout      : {NotSet, Says("gcl", FALSE), Says(Garbled, FALSE)},
   backends    : {Unset, <<"instant", "web">>, <<"off">>, <<"web", "off">>},
   throttle    : {Unset, 3},
   fileFromEnv : {Unset, FALSE}]

MCToggles == [backends |-> {{}, {"web"}}, throttle |-> {9}]

\* Each of the four moves while the others are where they start.
ScopesRest == ScopesInit /\ nested /\ ~foreign
ProfilesRest == ProfilesInit /\ serialized
ConfigurationRest == ConfigurationInit /\ env = NoVariables /\ builder = NoSetters
ReportersRest == ReportersInit /\ apart /\ sampleRate = 0 /\ targets = <<>>

ProfilingInit ==
  \/ ScopesInit /\ ProfilesRest /\ ConfigurationRest /\ ReportersRest
  \/ ScopesRest /\ ProfilesInit /\ ConfigurationRest /\ ReportersRest
  \/ ScopesRest /\ ProfilesRest /\ ConfigurationInit /\ ReportersRest
  \/ ScopesRest /\ ProfilesRest /\ ConfigurationRest /\ ReportersInit

ProfilingNext ==
  \/ /\ ProfilesRest /\ ConfigurationRest /\ ReportersRest
     /\ ScopesNext
     /\ UNCHANGED <<profileVars, configurationVars, reporterVars>>
  \/ /\ ScopesRest /\ ConfigurationRest /\ ReportersRest
     /\ ProfilesNext
     /\ UNCHANGED <<scopeVars, configurationVars, reporterVars>>
  \/ /\ ScopesRest /\ ProfilesRest /\ ReportersRest
     /\ ConfigurationNext
     /\ UNCHANGED <<scopeVars, profileVars, reporterVars>>
  \/ /\ ScopesRest /\ ProfilesRest /\ ConfigurationRest
     /\ ReportersNext
     /\ UNCHANGED <<scopeVars, profileVars, configurationVars>>

ProfilingSpec ==
  ProfilingInit
  /\ [][ProfilingNext]_<<scopeVars, profileVars, configurationVars, reporterVars>>
=============================================================================
