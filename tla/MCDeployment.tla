---------------------------- MODULE MCDeployment ----------------------------
(***************************************************************************)
(* Callers choose between a default deployment and ops ones with a split,  *)
(* more appenders, a filter, toggles of their own, hooks and flushes off.  *)
(***************************************************************************)
EXTENDS Deployment, TLC

CONSTANTS c1, c2, c3, h1, h2

Trio      == {c1, c2, c3}
Symmetric == Permutations(Trio)

Default ==
  [level |-> Unset, appenders |-> {"stdout"}, backends |-> Unset, throttle |-> Unset,
   split |-> Unset, stamped |-> FALSE, filtered |-> FALSE, traces |-> TRUE, panicHook |-> TRUE,
   flushOnExit |-> TRUE]

Ops   == [Default EXCEPT !.appenders = {"stdout", "syslog"}, !.split = Error, !.level = 0,
                         !.backends = 2]
Plain == [Default EXCEPT !.traces = FALSE, !.panicHook = FALSE, !.flushOnExit = FALSE,
                         !.throttle = 5, !.split = Info, !.filtered = TRUE]
Mute  == [Default EXCEPT !.appenders = {}, !.split = Error, !.traces = FALSE]
Stamp == [Mute EXCEPT !.stamped = TRUE]

Usual   == {Default, Ops, Plain}
Awkward == {Mute, Stamp, Ops, [Default EXCEPT !.appenders = {"stdout", "syslog"}],
            [Default EXCEPT !.filtered = TRUE]}

FromEnv == [backends |-> 1, throttle |-> 0]
BadThen == <<Bad, Warn>>
OffThen == <<Bad, 0>>

\* OBSERVE_LOG=warn,program=trace and OBSERVE_LOG=program=debug; RUST_LOG is a level.
Noisy  == [program |-> 5, library |-> 2]
Narrow == [program |-> 4, library |-> 0]
NoisyEnv  == <<Noisy, Noisy>>
NarrowEnv == <<Narrow, Narrow>>
=============================================================================
