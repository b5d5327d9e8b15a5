# fast-observe: models and proofs

`fast-observe` is a Rust library for errors, logs and profiles. A *fault* is a
tree of error frames; constructing one runs hooks (capture hooks that add context,
sink hooks that log it), so that everything a program reports passes through one
pipeline. Around it stand a deployment step that installs the logger, the trace
reporter, the panic hook and the exit flush, a profiling facade with a
thread-local backend, a report that tells a fault to people and programs, macros
that generate error types from annotated enums, and small algorithms (retry,
throttle).

This directory holds TLA+ modules for the parts with control worth checking, TLC
configurations that check them on small instances, and TLAPS proofs of the
properties that should hold for every instance. `PROJECT.json` lists the runs,
the properties, a mutation of the model that breaks each property, the source
lines behind every definition, the hazards and the theorems.

To check a run: `tlc -config MCRetry.cfg MCRetry`. To check proofs:
`tlapm FaultProofs.tla`.

## 1. Inventory of the system

Paths below are relative to the repository; the crate is `src/`.

### Hook registries (`src/hook.rs`, 36-133, 232-302)

State: two process-wide `HookRegistry` values, `HOOKS` (sinks) and
`CAPTURE_HOOKS`, each a `Mutex<Arc<Vec<(HookId, Hook)>>>` behind a `OnceLock`; one
atomic counter of ids, shared by both. Operations: `push`, `remove_where`,
`reset`, `snapshot`, and the public `add_error_hook`, `remove_error_hook`,
`clear_error_hooks`, `add_capture_hook`. Hard: writers copy the vector, edit the
copy and store it; ids are drawn before the lock is taken; index 0 must stay the
built-in hook because `set_default_hook_enabled` skips that index blindly.
Correct when: no registration is lost, no removed hook returns, entries are
distinct, the built-in one is first, and the whole behaves as atomic operations.

### Fault pipeline (`src/exn.rs` 23-56, 360-389; `src/hook.rs` 137-199, 520-542, 603-626)

State: `ERROR_COUNTS` (constructions per error type), `DEFAULT_HOOK_ENABLED`, and
what is on the stacks of the threads. `Frame::capture` runs the capture hooks on a
snapshot; `invoke` counts the fault, asks the throttle, takes a snapshot of the
sinks, reads the toggle and calls the hooks one by one under `catch_unwind`. Hard:
hooks call back into the library (they construct faults, register and remove
hooks), on several threads, and panic; the count is bumped in one place and read
again in another. Correct when: every admitted fault reaches every hook of its
snapshot, counts lose nothing, a removed sink is not called for later faults, and
nothing ever waits for a mutex its own thread holds.

### Throttle (`src/hook.rs` 544-601, `src/config.rs` 253-265)

State: a map from error type to a fixed window (`window_start_ns`, `count`), the
configured limit. One operation, `over_budget`, whose limit and clock reading are
taken before its mutex. Hard: stale readings, a limit that changes between reading
and deciding, the roll at exactly one second. Correct when: windows never move
back, nothing is suppressed without a spent budget, and the long-run rate is the
limit.

### Panic hook (`src/deploy.rs` 791-866)

`install_panic_hook` takes the process's panic hook, and sets one that builds a
`Fault<PanicError>` (which runs the pipeline) under `catch_unwind` and chains to
the previous one. Hard: a hook of the pipeline panics, so the panic hook runs in
the middle of a fan-out, and its own fault fans out to the same hooks. Correct
when: each panic is counted and chained exactly once, interrupted fan-outs finish,
and a process with contained hooks survives.

### Deployment (`src/deploy.rs` 28-121, 184-602, 868-952)

`Deployment::wire` stores config toggles, builds appenders and dispatches, claims
the global logger (`try_apply`), clamps the level, sets the trace reporter, the
panic hook and the exit flush, in this order. State: all process-global values.
Hard: several callers at once, one of which must win and own everything that
comes after; a foreign logger or panic hook; failure after the toggles were
stored; warnings made before there is a logger. Correct when: the stack is one
caller's, its level settles, each record is routed once, hooks are chained.

### Appender traps (`src/deploy.rs` 954-1043)

Every destination is wrapped so that its failures are swallowed and the first is
reported *through the log facade itself*, inside `OnceLock::get_or_init`. Hard:
the report returns to the failing appender; two threads fail at once. Correct
when: one report per appender, one failure does not starve the other
destinations, and log calls return.

### Instant backend (`src/profiling/instant.rs`)

Thread-local: the stack of open spans, the buffer of finished ones, the queue of
frame boundaries (absolute counts) and the base that makes them relative.
Operations: `enter`, guard drop (or `mem::forget`), `finish_frame` with eviction,
`drain`, `drain_frames`, `clear`. Hard: guards that end out of order or never;
absolute and relative positions after any mix of drains and evictions. Correct
when: every span finishes exactly once, boundaries keep cutting where the frame
ended, a lexical program's guards time their own spans.

### Retry (`src/exn.rs` 895-1043)

`retry_with_backoff` calls an operation while it fails with policy Retry, sleeping
`Backoff::delay` in between; the failures become children of the fault returned.
Hard: saturation in two integer widths, a capped exponent and a clamp in one
delay; which path out of the loop merges what. Correct when: no failure is lost,
only Retry failures are retried, delays never shrink and are exact below the cap.

### Fault tree (`src/exn.rs` 316-545, 586-840, 1076-1200, 1290-1420, 1545-1585)

A `Fault` owns the root of a tree of frames, which are shared through `Arc`.
Raising, `wrap`, `context`, `change_context` and `FaultCollection` consume faults
and make new ones; `set_context` and `attach` write the root if nobody else has an
`Arc` of it; `FrameIter` and `root_cause` hand out `Arc`s. A fault of a typed error
is an error too and can be raised again, which sees only its first branch.
Hard: a write depends on who else holds the root; copies made through
`Error::source`; iterators that outlive the fault. Correct when: no error that
came into a fault is missing from its tree, shared frames do not change, traversal
is the order of causality, and the root cause survives being passed on.

### Report rendering and catalogue (`src/report.rs`; `src/errors.rs`; `src/exn.rs` 1203-1290)

`ReportData::collect` walks a tree with a stack of its own and picks attachments by
key and placement; `write_report` and `render_frame_report_json` tell the result
twice; `exit_code_raw` and `doctor` tell parts of it again. The catalogue is a list
of slices of entries, put together by the linker or registered at startup. Hard:
texts of the program's data (messages, attachments) are mixed with the lines of a
format that machines read; two renderers, an exit code and a lookup must agree.
Correct when: data cannot forge or reorder lines, causes come in order, the forms
agree, and the hint leads to the entry the report quotes.

### Macros (`fast-observe-macros/src/error_macro.rs`, `fast-observe-macros/src/lib.rs`)

`error!` reads the attributes of an enum and its variants, collects complaints, and
generates impls, match arms and registrations only if there are none. `instrument`,
`instrument_async`, `main`, `all_functions` and `skip` wrap functions. State: what
was read so far. Hard: attributes have several spellings, slots may be set twice, in
different attributes; every generated item must carry the cfgs of its variant; a
refused item must still be emitted. Correct when: exactly the enums that meet the
contract expand, what expands says in every configuration what was written, and no
wrapper loses an item or holds a guard across an await.

### Function scopes (`src/profiling.rs` 436-555; `src/hook.rs` 520-542)

Thread-local: the stack of scopes, a cache of the diagnostic that names its leaf.
Guards know nothing: each pops the top. Hard: futures whose guards live across
awaits share a thread's stack; the diagnostic is written only when the cache says
that it changed. Correct when: records carry the leaf, and a fault tells the calls
it is in.

### Backend mask and measured runs (`src/config.rs` 41-251; `src/bench.rs`)

The mask of live backends is one atomic word; scopes read it when they are entered.
`run_profiled` forces the instant bit, clears the accumulator, runs a closure,
drains, and restores the mask by a guard, also on panic. Hard: threads between the
steps, nested runs, scopes that are entered under one mask and left under another.
Correct when: the mask comes back, a run reports its own spans, a missing backend
is warned about once.

### Configuration (`src/config.rs` 253-460; `src/deploy.rs` 238-300, 604-761, 346-352)

The toggles behind `config()` start from the environment at first access, setters
change them, `Deployment::wire` overwrites those it has. A `DeploymentConfig` comes
from the environment or the program, is parsed as a whole and laid over a builder.
`OBSERVE_COLOR` is read once. Hard: two readers of the same variables, with parsers
of their own, in an order that depends on who looks first. Correct when: a toggle
has the value of the source that takes precedence, whatever the order, and a
configuration with errors changes nothing.

### Reporters (`src/reporter.rs`)

`SamplingReporter` and `MultiReporter` wrap each other; fastrace's collector calls
`report` with batches of spans. Hard: batches are not traces. Correct when: no
target misses an error, and sampling keeps or drops whole traces when batches are
traces.

### Parts without a module

| part | source | why |
| --- | --- | --- |
| rendered diagnostics | `src/diagnostic.rs` | a value of labels and spans handed to ariadne for layout; its one state is a map of sources behind a lock, with an insert and a lookup |
| async spans, joins | `src/profiling/async_.rs`, `src/tokio_ext.rs` | each function is one call of fastrace or a match on tokio's `JoinError`; guards held over awaits are in `FunctionScopes` |
| breakdown table | `src/breakdown.rs` | prints drained spans, no state |
| interoperability | `src/compat.rs` | newtypes with one conversion each |
| external trace backends | `src/profiling/{web,puffin,tracy,superluminal,fastrace,tracing_scope}.rs` | guards that forward to another profiler, stubs when compiled out; that puffin must be switched on is in `Profiles` |
| clock | `src/profiling/clock.rs` | a choice per target; its readings are the environment of `RateLimiter` and `FunctionScopes` |
| crate root | `src/lib.rs` | re-exports, tables of categories and policies, names of variables |

### How the parts interact

```
 Fault::new, wrap, ... ──> Frame::capture ──> capture hooks  (snapshot of CAPTURE_HOOKS)
                                │
                                └─> invoke ──> ERROR_COUNTS ──> throttle ──> sinks (snapshot of HOOKS)
                                                                             │ default hook: log::error!
 panic ──> panic hook ──> Fault<PanicError> (the same pipeline)              v
        └─> previous hook                                        dispatch ──> TrapAppender ──> destination
 Deployment::wire installs: toggles, logger, level, reporter,                    │ first failure
 panic hook, exit flush                                                          └─> log::error! (again)

 environment, setters, draft ──> config(), Deployment::apply ──> Deployment::wire ──> mask, throttle
 scope ──> reads the mask ──> instant backend     ──> run_profiled, drain
       └─> CURRENT_SCOPE ──> diagnostic of log records, capture hook of faults
 error! ──> types with code, category, source ──> registrations ──> catalogue ──> report, doctor
 fault (tree, attachments) ──> ReportData ──> text, JSON, exit code
 fastrace collector ──> SamplingReporter ──> MultiReporter ──> targets
```

Callbacks are the theme: hooks run inside constructors, panics run hooks, the
reports of appenders run appenders. The models therefore keep explicit stacks of
activations per thread.

## 2. Modules

| module | models | proved in |
| --- | --- | --- |
| `AtomicHooks` | abstract specification: two vectors of hooks, changed in one step | |
| `HookRegistry` | the copy-under-mutex protocol; implements `AtomicHooks` | `HookRegistryProofs` |
| `HookPipeline` | constructions on thread stacks; composes `HookRegistry` (its actions, with activations as callers) | `HookPipelineProofs` |
| `RateLimiter` | `throttled` and `over_budget` | `HookPipelineProofs` |
| `PanicHook` | panics, the installed panic hook, the nested pipeline | `PanicHookProofs` |
| `Deployment` | `wire`, step by step, for concurrent callers | `DeploymentProofs` |
| `TrapAppender` | failing destinations and the report through the facade | `DeploymentProofs` |
| `InstantSpans` | the instant backend of one thread | `ProfilingProofs` |
| `Retry` | the retry loop and the backoff | `FaultProofs` |
| `FaultTree` | frames, faults, collections, iterators and `Arc`s of frames | `FaultProofs` |
| `Catalogue` | the registry of codes, lookup, similar codes and doctor, as operators | `ErrorProofs` |
| `Report` | a fault's report: collection, both renderers, fingerprint, exit code; uses `Catalogue` | `ErrorProofs` |
| `ErrorMacro` | `error!`: attributes, validation, expansion | `ErrorProofs` |
| `AttributeMacros` | the attribute macros | `ErrorProofs` |
| `FunctionScopes` | scopes, their diagnostic and what a fault captures of them | `ProfilingProofs` |
| `Profiles` | the backend mask and measured runs, on several threads | `ProfilingProofs` |
| `Configuration` | where toggles and deployments get their values from | `ProfilingProofs` |
| `Reporters` | sampling and fanning out of trace batches | `ProfilingProofs` |

`SequenceLemmas` is not a model: it holds the lemmas about sequences, and about
induction and recursion, that `FaultProofs` and `ErrorProofs` share.

The first ten, but for the abstract `AtomicHooks`, have an `MC` module each, which
gives their constants small values.
`MCFaultTree` extends `Report` too, `MCMacros` both macro modules, `MCProfiling` the
last four: components that share no state with each other, of which one moves while
the others stay where they start, so that one run explores them side by side rather
than their product. Some definitions are introduced by a comment that begins with "Faulty:". They are not
part of any specification: each is a plausible slip in the definition next to it
(a dropped guard, a missing reset), and `PROJECT.json` ("mutants") says which
property notices it when it takes that definition's place.

### Correspondence

**`HookRegistry`.** `slots` is the vector behind the mutex, `holder` the mutex,
`nextId` the counter. A call is three steps: `BeginAdd`/`BeginRemove`/
`BeginClear` (ids are drawn here, before the lock, as in `add_error_hook`),
`Acquire` (lock and clone), and one of `StoreAdd`, `StoreRemove`, `MissRemove`
(the early return of `remove_where`), `StoreClear`, after which the guard is
dropped. `issued` and `retired` are history. Identities stand for closures.

**`HookPipeline`.** A thread's stack holds registry calls and constructions; the
program counter of a construction walks snapshot, toggle, hook by hook, count,
throttle, snapshot, and again hook by hook. `InUserCode` is where calls may be
made: outside the library or inside a hook. The throttle's verdict is a free
choice, since `RateLimiter` allows both. `HookPanics` has the effect of
`HookReturns`, because `catch_unwind` discards the payload and the loop goes on;
what a panic does *before* it unwinds is `PanicHook`'s subject.

**`RateLimiter`.** A call reads the limit, reads the clock, and decides in one
step under the mutex; `Tick` moves the clock in between. The time of the model is
in ticks, and `Second` of them make the window.

**`PanicHook`.** `stack[t]` holds constructions and, below the constructions
they make, activations of the panic hook. External is the runtime's rule: the
hook runs before unwinding, and a panic inside the panic hook aborts. `program`
fixes what hooks do in a behaviour (which panic, which construct faults, on which
type of fault).

**`Deployment`.** `pc[c]` is where caller `c` is in `wire`; every numbered
section of the function is an action, `install_panic_hook` two. `hook` is the
chain of panic hooks, outermost first. `ForeignLogger`, `ForeignHook` and
`Sigterm` are the environment. Warnings that no appender hears are kept in
`unheard`. A record has a target, the program's or the library's, because the filter
that `common` puts on both dispatches with `rust_log_filter` is one by target:
`EnvFilter` is `build_rust_log_filter` (the first of OBSERVE_LOG and RUST_LOG that is
set, a level or directives), and `Filters` what it leaves of a dispatch. `fate` tells of
each panic hook whether it was put in place (`kept`), put there while a caller
had taken the chain and not put it back (`late`), or replaced by the program.

**`TrapAppender`.** `frames[t]` is the stack of log calls of a thread; each
walks a route of appenders: those of error records, those of the others, or, for a
flush, the appenders of both dispatches (`FlushRoute`). `Report` claims the `OnceLock` of an appender and
pushes a new log call; `Swallow` waits for it to be set.

**`InstantSpans`.** The variables are the four thread-locals, plus the live
guards. `DropGuard` is the loop of `InstantGuard::drop`, `FinishFrame` one action
with its eviction. `lexical` says whether the program ends guards in reverse
order, as scopes do; safe Rust allows any order.

**`Retry`.** One action per way through the loop: `Succeed`, `Collect`, `Sleep`,
`GiveUp`. `Delay` is translated with its saturations in 64 and 128 bits, which
are constants here so that small runs saturate.

**`FaultTree`.** `frames` is the heap of frames in the order they are made, so
that children are older than parents; `faults` holds the roots the program owns,
`held` its other `Arc`s, `pending` the stack of one iterator. The constructors
share `Linked` (the error and its nested sources) and `Adopted` (further
children). `Made` is an error that the program makes, `Lent` what std lends of a
fault used as an error. `boxed` are the faults of a `BoxError`, which is no error
type, so they cannot be raised again. `story` is what must not be lost. Which
hooks run for a new root is `HookPipeline`'s subject; raising an `Arc<Frame>`,
which std also allows, is left out.

**`Catalogue`, `Report`.** `tree` is the fault by paths of child indices, which is
how frames are told apart here; what builds it is `FaultTree`'s subject.
`StartCollecting` and `Collect` are the walk of `ReportData::collect`, whose stack is
`toCollect`; `Render` writes both forms. `TextSections` and `JsonMembers` are the
sections of the two renderers in the order the code writes them, each a sequence of
lines (a line is the sequence of its words), and the forms are these sections put one
after the other. `Select` is `filter` on the iterator of the registry, and `Blank` the
absent word: an `Option` of a string that is `None`.

**`ErrorMacro`.** `EnumAttribute`, `BeginVariant`, `VariantAttribute` and `EndVariant`
read the enum attribute by attribute, `Expand` is the second half of `expand`. `meta` is
`VariantMeta`, `errors` the diagnostics collected so far, and `source` what was
written, which only the properties look at. The loop of `parse_code_tail` is stated by
what it leaves: the items it reads are those up to the first that ends it (`EndsOf`,
`ReadOf`), a slot has the last value it was given (`LastOr`), and each item that sets
a slot twice or cannot be read leaves its complaint (`TailErrors`). `emitted` is the
set of items and match arms of the output.

**`AttributeMacros`.** One action per invocation of a macro on an item, and for impl
blocks one per member, since `all_functions` goes through them one by one.

## 3. Runs

| run | shows | instance |
| --- | --- | --- |
| `registry` | no lost or resurrected hook, the built-in hook first, `ImplementsAtomicHooks`, and every call returns | 3 callers, 2 ids |
| `pipeline` | fan-out, counts, occurrence, removal, and no call hangs | 2 threads, stacks of 2 calls, 2 faults, 1 hook added |
| `limiter` | long-run rate, windows advance, suppression justified | 2 threads, windows of 2 ticks, 6 ticks, limits 0 to 2 |
| `spans` | spans once, boundaries exact, the buffer bounded while nobody takes the boundaries, lexical guards own their spans | 4 spans, 4 frames, 2 retained |
| `trap` | one report, all destinations tried, calls return where reports go to a working destination | 2 threads, 2 failing destinations, 4 calls, both ways of routing |
| `panic` | counting, chaining, completion of interrupted fan-outs, contained hooks | 2 threads, 3 hooks, 3 panics, 2 faults |
| `deployment` | one winner, level, toggles, routing, warnings about the environment lost to the filter only, panic hooks lost between take and set only | 3 callers of 3 kinds of deployment, one with the filter, 2 hooks of the program |
| `retry` | nothing lost, sleeps between attempts only, delays those of exact arithmetic | up to 6 attempts, every small backoff |
| `fault_tree` | trees: no error lost, shared frames frozen, preorder, the root cause survives; reports: causes in order, lines are facts, the forms agree | three errors, boxed and typed, with and without a source, 5 frames and uses together; reports of 4 frames, attachments and slices together |
| `macros` | an enum expands exactly if it meets the contract, the expansion says what was written, wrappers lose nothing | 2 variants, 5 attributes between them, every spelling; impl blocks of 2 members |
| `profiling` | scopes and diagnostics agree, the mask is restored and works, settings take precedence as documented, errors reach every target | 3 scopes of 2 tasks; 2 threads, 3 calls, 2 spans; every small environment, builder and draft; 3 spans, 2 traces, up to 3 targets |
| `deployment_sigterm` | violated: SIGTERM does not end the process | |

Why these bounds are enough. *registry*: a lost update needs two writers with
overlapping copies, a resurrected hook a third, between them; two ids make an id
drawn early and stored late. *pipeline*: with stacks of two, a hook constructs a
fault or changes a registry while its own fault fans out; two faults of one type
make the counter shared. With `Second = 2` and six ticks *limiter* opens three
windows, and a reading can be older than a whole window. *spans* evicts twice, with a drain, a clear and forgotten guards between. *trap*
lets two threads meet the first failure of the same appender and of different ones.
*panic* reaches a panic in a hook, in a hook of the panic's fault, and in a hook of a
fault made by a hook. *deployment* has one winner and two losers at every point
of the winner's progress; the program installs its hooks at any point, the one
between `take_hook` and `set_hook` included, in front of the ones in place or instead of
them. *retry* has widths of 5 and 6 bits and an exponent cap
of 3, so each saturation and the cap are passed within six attempts.
*fault_tree* has room to collect two faults, merge them and raise the merged fault
again (five frames), and for trees of three frames with an iterator, or an `Arc`
that is kept, and a write. Its reports have texts of several lines, some of which
are words that head a line of the format, and attachments of one, two, three and four
lines against a limit of two (32 in the code), so that an appendix is below the limit, at
it, and one and two lines beyond; four parts, the root
one of them, are enough for two attachments under one key, or a tree whose first branch is not its
last, and an entry beside them. In
*macros* the first variant is written in all ways, the second with what can interact
with the first: codes, categories, `from` and cfgs; five attributes make a complete
variant with a duplicate beside a complete second one. In *profiling*, three scopes
are an outer one, one that repeats its name and one of another task; three calls are
a measured run, a run or a mask set within it, and a call of the other thread; every source of a toggle is present and
absent; and three spans make a batch of two traces, and a trace in two batches.

Deadlock checking is off where the model ends by itself because a bound is spent
or the process has ended (`trap`, `panic`, `deployment`, `retry`, `fault_tree`,
`macros`, `profiling`).

### Fairness

Safety needs none. `CallReturns` assumes:

* `HookRegistry`: a thread inside the critical section goes on (weak fairness);
  a waiter gets the mutex in the end (strong fairness). The mutex is
  `parking_lot`'s, whose eventual fairness hands it to the longest waiter from
  time to time.
* `HookPipeline`: the same for the library's steps, and strong fairness of
  `HookEnds`: a hook may call the library any number of times but ends. This is
  an assumption about user code, without which nothing can be promised.
* `TrapAppender`: threads are scheduled; a thread waiting for a `OnceLock` goes
  on once it is set.

No run assumes that a caller makes a call, that a fault happens, or that a
destination fails or recovers.

## 4. Proofs

For all values of the constants (any set of threads, any number of hooks, ids,
limits, windows, attempts), under the `ASSUME`s of the modules:

| theorem | says |
| --- | --- |
| `HookRegistryProofs!RegistryInvariant` | the inductive invariant `Inv` |
| `BuiltinAlwaysFirst`, `HooksStayDistinct`, `NoLostRegistration` | the named parts of it that users rely on |
| `RegistryImplementsAtomicHooks` | `Spec => Atomic!Spec` under `hooks <- slots`, `used <- issued` |
| `HookPipelineProofs!PipelineInvariant` | the inductive invariant: registries, stacks, fan-outs and counts |
| `CountsAreRight`, `RemovedIsNotCalled`, `FanOutIsComplete` | the properties of the run `pipeline`: each construction is counted once, a removed sink is not called for later faults, and an admitted fault ends with every hook of its snapshot called |
| `LimiterInvariant`, `LongRunRateHolds`, `WindowsAdvanceAlways` | the ledger, the rate, the action property |
| `SuppressionIsJustified` | who is suppressed finds the limit it read spent in the window it decides in |
| `PanicHookProofs!PanicInvariant` | the inductive invariant about one stack at a time, and the counts |
| `PanicsAreContained`, `NoPanicLost`, `FanOutSurvivesPanics` | panics are counted before they are chained, chained once, and interrupt no fan-out; contained hooks never abort |
| `DeploymentProofs!StackInvariant`, `StackIsOneCallers` | the winner's invariant and `OneDeployment` |
| `SettingsHold`, `WarningsAreHeard` | level, toggles and routing are the winner's; a warning about the environment is heard unless the environment's own filter drops it |
| `PanicHooksOutlastInit` | whoever installs panic hooks when, one is lost only if the program replaced it or installed it between a caller's `take_hook` and `set_hook` |
| `TrapsReportOnce`, `EveryAppenderIsTried` | one report per appender; a log call returns only after it has tried its whole route |
| `FaultProofs!RetryInvariant`, `NoFailureLost` | at most `max_attempts` failures, each of them in the result |
| `AttemptsAreScheduled`, `DelaysAreExact` | retries and sleeps follow the schedule; its delays are those of exact arithmetic |
| `TreesLoseNothing` | `FaultTree!Inv`: whatever a program does with its faults, each tree holds the errors it was made of, each before its causes, and an iterator has the rest of its tree before it |
| `SharedFramesStay` | no frame is written that a tree, a collection, an iterator or an `Arc` reaches |
| `CausesSurvive` | a fault raised again, given context or wrapped keeps its root cause, unless the new error has sources of its own |
| `ProfilingProofs!ScopesTold` | the diagnostic is the leaf of the stack; under nesting guards the stack is theirs and a fault tells their path and age |
| `SettingsTakePrecedence` | a toggle has the value of the source that takes precedence; a draft with errors changes nothing |
| `ErrorsAreSampledIn` | whatever wraps what, no target misses an error of a batch |
| `MeasuringLeavesNothing` | masks are restored, measured runs report their own spans, a missing backend is warned about once |
| `SpansInvariant` | the inductive invariant of the four thread-locals of the instant backend and the guards |
| `SpansAreKept`, `BoundariesHold`, `GuardsKeepTheirSpans` | spans finish once, boundaries cut where frames ended, guards that nest own the spans at their depths |
| `ErrorProofs!CausesAreTold` | a report numbers the causes of a fault depth first, parents before children, branches in order, each frame once |
| `LinesAreFactsOfTheFormat` | each line of a report is one fact of the format, in its order; appendices are whole or say what is missing; what is hidden is in no line |
| `FormsAreAgreed` | text, JSON, exit code and doctor tell the same, and the hint leads to the advice shown |
| `NothingIsLostInExpansion` | attribute macros lose no member of an item and leave none silently unwrapped |
| `AcceptedExpansionIsTrue` | what `error!` expands to is true of the enum in every configuration of its cfgs |
| `ExactlyTheContractExpands` | exactly the enums that meet the documented contract, with literals for templates, expand |

Some of these have hypotheses beside the `ASSUME`s. Each is met by the instance that
the run explores, and each excludes what section 5 or the code's own comments name:

| hypothesis | of | excludes |
| --- | --- | --- |
| `AdviceIsOneLine` | the three theorems about reports | an entry whose advice has several lines, which the text form writes as it stands (`EveryValuePassesLine`): such a line can be anything, a cause included |
| `SecretsApart` | `LinesAreFactsOfTheFormat` | a hidden text that a report has from elsewhere, in a message or a label, so that finding it in a line says nothing |
| `ElapsedIsTyped` | `FormsAreAgreed` | an elapsed time attached as a text, which the JSON form leaves out; the hook of `hook.rs` attaches a number |
| `BlanksEndLists` | `ExactlyTheContractExpands` | `#[code = "E1", "x", category = Fatal]`: behind a comma, a token that is no key ends the list without a complaint, whatever follows (`AcceptsContract`, `MCMacrosAsDocumented.cfg`) |
| `CodesAreTexts` | `ExactlyTheContractExpands` | one code of the form `E1` written as a plain and as a raw string, which is not noticed as a duplicate (the same configuration) |

`MCFaultTreeAsDocumented.cfg` has an entry that is not `AdviceIsOneLine`, and
`MCMacrosAsDocumented.cfg` has enums that are neither `BlanksEndLists` nor
`CodesAreTexts`; section 5 tells what becomes of them.

*Registries.* The properties are not inductive: they must say what a thread
between `Acquire` and `Store` holds. `Inv` adds `Exclusive` (a locked call is the
holder, and its copy is the current vector), `FreshIds` (an id that was drawn and
not stored is in no vector and belongs to one call) and `CallShape`. There is one
lemma per action; the store actions follow from two lemmas about sequences
(`AppendOK`, `DropAtOK`).

*Refinement.* Only the store steps change `slots` or `issued`: with `Inv` each is
an atomic `Add`, `Remove` or `Clear`; all others stutter.

*Pipeline.* Every step of the pipeline is a step of the registries with activations
as callers, or leaves them alone (`RegistryStep`), so their invariant carries over:
`HookRegistryProofs` is instantiated, not repeated. `PipelineInv` adds `Stacked` (what
is above a thread's stack is in no call, what is on it in one at most), `AllSound`
for each construction by itself (it has called the part of its snapshot before the
place where it is; it has its place in the order of its type from its bump on; what
had been removed before its snapshot is not in it) and `Counting` (the constructions
begun are those counted and the finitely many that are still to be).

*Throttle.* The rate bound follows from a ledger per key: the `n`-th window
started no earlier than `n - 1` seconds in, and admissions are at most `MaxLimit`
per closed window plus the current count. `ReadingsPast` (no reading is in the
future) keeps a new window's start below `now`. Suppression does not touch the
window, so its cause is still there in the step after.

*Panic hook.* `StackOK` speaks of one stack at a time: the panic hook is in it at most
once, since a second panic aborts; right above it is the fault of the panic, and
nothing else is one; everything below the top is inside a hook call. So what the
unwinding finds is a hook to go on from, and popping frames keeps the rest. The sets
of stack positions that the counts are about are finite, and each step changes them
by one element at most. If hooks do not panic on the fault of a panic (`Tame`), the
panic hook is never interrupted, and the process survives.

*Deployment.* The invariant says that being past `try_apply` is equivalent to
owning the logger, and that a caller's panic hook is in the chain only after that
caller set it; `OneDeployment` follows. From the winner follows the rest: nobody else
touches the level or the dispatches (`LevelInv`), a toggle is that of
somebody who asked for it (`TogglesInv`), and only a winner without appenders warns
about the environment in vain, or one whose filter drops the library's warnings
(`HeardInv`). The chain of panic hooks is not whole while a caller has taken it: then
whatever is in place came late, and what was kept is in place or in the hands of that
caller, who is the only one (`ChainInv`). So what `SetHook` overwrites is never a hook
that was kept; that late ones are lost is in section 5.

*Traps.* A log call has tried the appenders before the place where it stands
(`Stands`), and the appender whose report a call waits for has its `OnceLock`
claimed (`CallsOK`), so that the return of a report changes no answer to who may
report.

*Instant backend.* `SpansInv` says that the boundaries are the ends of the last frames,
none of them beyond the end of the buffer (`MarksOK`), that each cuts the buffer where
its frame ended, absolute position against contents (`Cuts`), and that they are as many
as the frames since they were taken, up to the limit, beyond which the first one is
where the buffer begins (`Retained`). Dropping a guard finishes a part of the stack in
one go, and the stack is `Increasing`, so it is the part that was entered last.

*Retry.* While attempts are made the collection is `<<1, ..., attempts>>`;
giving up appends the last one, through whichever branch. The delays need induction,
because powers are recursive functions. It is done over a set: one that contains 0 and
with each number the next is `Nat`, since its complement has no least element
(`WFMin`). The same argument defines the functions (`Defined`), shows that a
saturated power stays at the limit, and that the clamps let exact values through.

*Fault tree.* `Preorder` and `FirstBranch` are functions defined by recursion from
smaller frames to larger ones. `RecursiveDefinition` shows, by the same induction over a
set, that such a function exists; from there the proofs use only its equation
(`PreorderIs`, `CauseIs`), that it depends on nothing but the frames below
(`PreorderStable`, `CauseStable`), and what the flattening of sequences does
(`FlattenAppend`, `FlattenConcat`, `MappedFlatten`). `TreeIInv` says that the tree of
each fault of the program, and of each in the collection, tells its story (`Says`), that
the errors are those of frames, that what the iterator has left is the trees on its
stack from the top, and that a root is nobody's child and in one place only. The last
part is what `NothingLost` alone lacks: with it, a write or a new parent for one root is
no change to another tree. Every constructor yields a `Grown` heap: old frames as they were,
new ones above them, of the old only the roots it consumes as children. `LinkedGrows`
and `AdoptedGrows` show this for a chain and for adoption, with what the new root says
and what its cause is, and `ReturnKeeps` does the rest for all constructors at once. That
shared frames stay follows, since a root that `Arc::get_mut` lets through is in nobody's
sight (`RootsUnseen`), and so does the root cause, since a chain leads to its own end
(`LinkedCause`) and that of a lent chain is the cause of its fault (`LentFacts`).

*Scopes.* `ScopesIInv` adds that no scope and no guard is from the future, so elapsed
times are natural numbers. That cache and diagnostic agree with the leaf is a step of
`DiagnosticFollows`, used by entering and leaving; that a pop takes the dropped
guard's own entry holds because `Ends` makes a nesting program drop its last guard,
and rests on `RemovedGuard`, a lemma about removing one of a sequence. What a fault
captured is compared with a copy of the guards of that moment, so later steps cannot
disturb it.

*Configuration.* `TogglesFollow` says of every moment what a toggle is, in terms of
what was asked and of the environment, whether or not `config()` has been called; the
steps that read or set keep it by `TogglesStay`, and wiring puts the deployment's
fields over it. `DraftApplied` keeps what a deployment was made of, so that the
sources can be named when it is wired. The assumptions say that numbers and flags are
given as such and that absent and garbled values are none of them.

*Reporters.* Spans are numbered as they end, those that wait after those handed over
(`InOrder`); a collector that keeps traces apart has one trace that waits and has
handed over nothing of it (`OneTraceWaits`); and no target has what was not handed over
(`ReceivedWasHanded`). So a batch is new to every target, and what is said of it adds to
what held before.

*Measured runs.* `Pending` says that what a mask asked for in vain, or needs from
puffin, is warned about, or done, by a swap that is still in progress; `Nests` orders the runs of a thread by the scopes
that are open within them, so a run ends with the scopes it found; `Measured` says, of
the one thread that measures, that the mask has the instant bit and that the spans of
the closure are in the buffer or in an open scope of it, unless a run within it cleared
some. With callers that serialize their runs (`serialized`) this gives the restored
mask and the report.

*Reports.* The walk is the classical one, with its invariant in full: `Walking` says
that the stack of `collect` has later branches below earlier ones, and that whatever was
visited comes before whatever waits, in the order of the tree (`Before`, depth first).
`CollectInv` says that the causes collected are the frames visited, each in the place
that the number of frames before it gives (`Place`). That this is a
place of its own, and the last one when the stack is empty, is counting
(`Earlier`), by the library's theorems on cardinalities. When a report is written
the forms are what `TextSections` and `JsonMembers` make of the fault (`WrittenInv`),
and the rest is said of those: `Origin` gives for each line of a flattened
sequence of sections the section it is from, in order, and one lemma per section says
what heads its lines. From there: a line that begins with the label of a cause can only
be from the section of causes, which gives `CausesInOrder`; labels are in the order of
the format, which gives `LinesAreFacts`; and a fact is in one form if and only if its
section, or member, is not empty, by the same condition in both, which gives
`FormsAgree`. That a hidden text is in no line is a bound on all words of a report
(`PublicWords`), section by section.

*Attribute macros.* `AttributeIInv` ties an expansion to its invocation, member by
member while an impl block is rewritten: what was emitted is what was
written without its markers, no guard is in an async body, and there are at least as many
diagnostics as members that were left bare.

*Expansion of `error!`.* `ReadingInv` has three parts. As long as there is no complaint,
what was read is what was written (`Faithful`): the flags and slots of the variant in
progress against its attributes as a bag (`Reading`), and each variant accepted so far
against its source (`Stands`). What is emitted is `Codegen` of the variants, or the enum
alone if there is a complaint (`Emission`). Bags matter because attributes come in any
order and repeat: `ReadingMore` adds one attribute to a bag, whichever it is. From
`Emission`, `Have` says of each match which variants have an arm under which cfgs and with
which text; whether a match is emitted at all is decided over all variants at once, and
the lemmas show the case without any arm to be the one without the match.

*The contract.* `Judged` adds the converse, step by step: there is no complaint exactly if
the header, the variants before this one and the part of this one that was read meet the
contract (`MeetsContract`), and then the slots filled are exactly those given. Each
complaint of the code is one lemma that turns it into a clause of the contract; the loop over
the tail of a code is one about the first end in it (`ReadOf`), where `BlanksEndLists` is used.
That the two duplicate checks of `expand` see what the contract forbids is a comparison over
pairs of variants, where `CodesAreTexts` is used.

The sequences in both, flattened and selected, are functions by recursion over their
length: `SequenceLemmas` shows that such functions exist (`RecursiveDefinition`), by
induction over a set, and what they contain. `Select` is in `Catalogue`, in the place of
`SelectSeq`, for this reason: the definition of `SelectSeq` is not accessible to the
prover. In the same way the heads of items in `ErrorMacro` are single words.

The assumptions of the modules say what the menus are made of: errors, attachments and
entries that the Rust types allow, words that are strings (`Report`), attributes and
field lists of the kinds that the macro parses (`MenuAssumption` of `ErrorMacro`).

Only model-checked: liveness (`CallReturns`, in three runs), since fairness and `ENABLED`
are beyond the prover. Every safety and action property of the passing runs is stated by
a theorem.

## 5. Where the code and its documentation differ

Checked by the violation run `deployment_sigterm`:

* The handlers of SIGTERM and SIGHUP flush and return; the default action is not
  restored, so the signal no longer ends the process.

Further configurations here are expected to fail in the same way. They are kept for
the reader and are not among the listed runs. Where there are several properties,
`tlc -workers 1 -continue` shows a violation of each.

| configuration | property | shows |
| --- | --- | --- |
| `MCTrapAppenderReenter.cfg` | `NoSelfWait` | the report of a failing appender is made inside `get_or_init` and comes back to the same appender on the default single dispatch: reentrant initialization, contrary to the comment on `trap` |
| `MCPanicHookAbort.cfg` | `ProcessSurvives` | `catch_unwind` in the panic hook cannot contain a panic: the runtime aborts a thread that panics inside its panic hook |
| `MCRateLimiterSliding.cfg` | `AtMostLimitPerSecond` | fixed windows let through up to twice the limit in one second |
| `MCInstantSpansAsDocumented.cfg` | `GoneIsNoOp` | a guard dropped late finishes whatever span sits at its depth, though the comment on `InstantGuard` promises that it never steals another scope's span |
| | `BufferBounded` | with `drain_frames` in every frame nothing is ever evicted |
| `MCFaultTreeAsDocumented.cfg` | `WalkersSeeTheTree` | `Error::source` shows the first branch of a fault, not what `Debug` renders; raised again, a merged fault keeps copies of that branch only |
| | `AppendixShown` | `attach_placed` gives no key, and an appendix without a key is in no section |
| | `EveryValuePassesLine` | the advice of an entry is written with its line breaks, though the module says every interpolated value passes through `Line` |
| `MCDeploymentAsDocumented.cfg` | `NeverStomped` | a hook installed between `take_hook` and `set_hook` is lost, as the comment in `install_panic_hook` says, though the one on `Deployment::panic_hook` promises otherwise; `OnlyLateHooksLost` says that no other one is |
| | `MisreadIsHeard` | `resolve_level` warns about `OBSERVE_LOG=program=debug`, which is no level, but with `rust_log_filter` those directives are the filter, and it drops the warning |
| | `SplitReachesStderr` | `stderr_from` alone, with no appender and no static context, drops errors |
| | `AppenderWarningsHeard` | warnings about skipped appenders come before the logger |
| `MCRetryAsDocumented.cfg` | `UnchangedOnStop` | a final failure after retried ones is returned with children |
| | `ScheduleAsDocumented` | the exponent stops at 20, whatever `max` is |
| `MCMacrosAsDocumented.cfg` | `TransparentDelegates` | a transparent tuple variant delegates `source()` only if another variant of its enum has a source field or `from` |
| | `AcceptsContract` | what follows a comma and a token that is no identifier in `#[code(...)]` is dropped without a complaint; a code as a plain and as a raw string is not found to be a duplicate, and a raw one is not checked for its form |
| | `DocumentedExpands` | `#[error(transparent)]`, as the comments (`error_macro.rs:133` and 427), a message of the macro (439) and its documentation (`lib.rs:521`, thiserror's subset "works verbatim") have it, is refused: the parser wants a literal (264-274), as in `#[error("transparent")]` |
| | `EveryDiagnosticCarried` | an item that `#[instrument]` cannot parse gets its native diagnostic and no `compile_error!` tokens |
| `MCProfilingAsDocumented.cfg` | `GuardsPopTheirOwn` | a guard held across an await pops another task's entry |
| | `EnvErrorsReported` | `from_env` drops a throttle that does not parse, without an error |
| | `PaddedThrottleWins` | `from_env` does not trim the throttle, `config()` does: a padded one loses to the setters |
| | `DocumentedColors` | `OBSERVE_COLOR=auto` is warned about, in a warning that offers `auto` |
| | `DecidedByTrace` | in a batch of several traces the first span's trace decides for all |

Met while modelling, and not stated as a property:

* A reserved key (`scope_path`, `scope_elapsed_ms`, `trace_id`) is found by
  `find_keyed` whatever its placement, so a hidden attachment under it is shown.
* The comment on `Placement::Opaque` says that such attachments are counted; no form
  counts them.
* The JSON form gives the elapsed time only if the attachment is a typed one, the
  text form for any.
* A run measured inside another, or on another thread at the same time, clears spans
  or restores a mask too early. The comment of `bench.rs` says so; `ProfilesInv`
  claims the restored mask and the reported spans for `serialized` programs only.
* `OBSERVE_LOG` is documented as "Log level / rustlog spec" (`lib.rs:182`). A spec is no
  level: it is warned about, and the global level becomes that of RUST_LOG, or Info, so
  that `OBSERVE_LOG=program=debug` shows no debug record, with the filter or without.
* With no variant left, in an empty enum or under a configuration of its cfgs, `error!`
  emits `match self {}` on a reference, which rustc refuses (E0004).
* `set_backends` warns about every requested backend that is missing, the default
  one included when a measured run restores it, which nobody asked for.

## 6. What is left out on purpose

The wording of logs and reports, the escaping in JSON strings and how numbers
are written; templates of `Display` and doc comments in the macros, and the parsing
of Rust syntax before them; cfgs on fields of struct variants; the values that
capture hooks record other than scopes; backtraces; timestamps and names of instant
spans; the aggregation of durations in a bench profile; layouts of appenders; the
skips of thread-local access during thread teardown; features that are compiled out,
other than a backend that is asked for; in the filter of the environment, targets
beyond two and the parts of a directive other than its target and level; the program's
own `take_hook` and `set_hook`, between which nothing happens. The log facade, the dispatch, std's
`OnceLock`, panic runtime and signals, fastrace's collector and the linker's
slices are external and modelled by what the code relies on.

## 7. Not modelled, and what could be next

The components under "Parts without a module" have no control of their own that a
model could check. What remains open in the modelled ones:

1. `SharedProfiles`: `Profiles` composed with `InstantSpans` itself rather than with
   a set of spans, so that measured runs meet frame boundaries.
2. Proofs: `ProfilesInv` claims the restored mask for programs that serialize all
   measured runs; a hypothesis about one caller at a time would be weaker.
