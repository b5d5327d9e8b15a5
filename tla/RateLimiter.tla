---------------------------- MODULE RateLimiter ----------------------------
(***************************************************************************)
(* The throttle of src/src/hook.rs: a fixed-window rate limiter per error  *)
(* type, asked by every constructed fault.  throttled() reads the limit    *)
(* from the configuration, then the clock, and only then takes the mutex   *)
(* of the limiter: by the time a call decides, its clock reading may be    *)
(* older than the window it is charged to, and the limit may have changed. *)
(***************************************************************************)
EXTENDS Naturals, Sequences

CONSTANTS
  Askers,      \* the threads that construct faults, and so call throttled()
  Keys,        \* the error types
  Second,      \* NS_PER_SEC, in ticks of the clock
  MaxLimit,    \* bound: the largest limit anybody configures
  MaxTime      \* bound: the clock stops there

ASSUME SecondAssumption == Second \in Nat \ {0}
ASSUME LimitAssumption  == MaxLimit \in Nat
ASSUME TimeAssumption   == MaxTime \in Nat

VARIABLES
  now,        \* the monotonic clock
  limit,      \* ObserveConfig::error_hook_throttle; 0 is unlimited
  window,     \* window[k]: the ThrottleState of k, closed if k has no entry
  ask,        \* ask[t]: the call of throttled() that t is in
  admitted,   \* history, per key: clock readings of the calls it let through
  windows     \* history, per key: windows opened

limiterVars == <<now, limit, window, ask, admitted, windows>>

NoWindow == [open |-> FALSE, start |-> 0, count |-> 0]
NoAsk(k) == [pc |-> "idle", key |-> k, limit |-> 0, now |-> 0]

LimiterTypeOK ==
  /\ now \in 0..MaxTime
  /\ limit \in 0..MaxLimit
  /\ window \in [Keys -> [open : BOOLEAN, start : 0..MaxTime, count : 0..MaxLimit]]
  /\ ask \in [Askers -> [pc : {"idle", "clock", "mutex"}, key : Keys,
                          limit : 0..MaxLimit, now : 0..MaxTime]]
  /\ admitted \in [Keys -> Seq(0..MaxTime)]
  /\ windows \in [Keys -> Nat]

LimiterInit ==
  /\ now = 0
  /\ limit \in 0..MaxLimit
  /\ window = [k \in Keys |-> NoWindow]
  /\ ask \in [Askers -> {NoAsk(k) : k \in Keys}]
  /\ admitted = [k \in Keys |-> <<>>]
  /\ windows = [k \in Keys |-> 0]

-----------------------------------------------------------------------------
\* now_ns() grows.
Tick ==
  /\ now < MaxTime
  /\ now' = now + 1
  /\ UNCHANGED <<limit, window, ask, admitted, windows>>

\* set_error_hook_throttle: one atomic store.
SetThrottle(n) ==
  /\ limit' = n
  /\ UNCHANGED <<now, window, ask, admitted, windows>>

\* throttled(k): the first argument, config().error_hook_throttle().
ReadLimit(t, k) ==
  /\ ask[t].pc = "idle"
  /\ ask' = [ask EXCEPT ![t] = [pc |-> "clock", key |-> k, limit |-> limit, now |-> 0]]
  /\ UNCHANGED <<now, limit, window, admitted, windows>>

\* The second argument, now_ns().
ReadClock(t) ==
  /\ ask[t].pc = "clock"
  /\ ask' = [ask EXCEPT ![t] = [pc |-> "mutex", key |-> ask[t].key,
                                limit |-> ask[t].limit, now |-> now]]
  /\ UNCHANGED <<now, limit, window, admitted, windows>>

\* Faulty: a wrapping subtraction of u64s.
ElapsedWrapping(at, start) == IF at >= start THEN at - start ELSE MaxTime + Second

\* now_ns.saturating_sub(window_start_ns)
Elapsed(at, start) == IF at >= start THEN at - start ELSE 0

Opened(at) == [open |-> TRUE, start |-> at, count |-> 0]

\* Faulty: the window rolls a tick early.
ExpiredEarly(w, at) == ~w.open \/ Elapsed(at, w.start) + 1 >= Second

\* The window a call with reading `at` is charged to: a new one if the key has
\* no entry or its window has run for a second, else the one there is.
Expired(w, at) == ~w.open \/ Elapsed(at, w.start) >= Second

\* Faulty: the roll moves the start and keeps the count.
CurrentKeepsCount(w, at) ==
  IF Expired(w, at) THEN [open |-> TRUE, start |-> at, count |-> w.count] ELSE w

Current(w, at) == IF Expired(w, at) THEN Opened(at) ELSE w

Answered(t) == ask' = [ask EXCEPT ![t] = NoAsk(ask[t].key)]

\* limit == 0: over_budget returns false without touching the map.
Unlimited(t) ==
  /\ ask[t].pc = "mutex"
  /\ ask[t].limit = 0
  /\ Answered(t)
  /\ UNCHANGED <<now, limit, window, admitted, windows>>

\* state.count >= limit: true, suppressed.  The rest of the call up to here
\* (entry, roll) has happened.
SuppressCall(t) ==
  LET a == ask[t]  w == Current(window[a.key], a.now) IN
  /\ a.pc = "mutex"
  /\ a.limit # 0
  /\ w.count >= a.limit
  /\ window' = [window EXCEPT ![a.key] = w]
  /\ windows' = [windows EXCEPT ![a.key] =
                   IF Expired(window[a.key], a.now) THEN @ + 1 ELSE @]
  /\ Answered(t)
  /\ UNCHANGED <<now, limit, admitted>>

\* Faulty: the admission is not counted.
AdmitCallUncounted(t) ==
  LET a == ask[t]  w == Current(window[a.key], a.now) IN
  /\ a.pc = "mutex"
  /\ a.limit # 0
  /\ w.count < a.limit
  /\ window' = [window EXCEPT ![a.key] = w]
  /\ windows' = [windows EXCEPT ![a.key] =
                   IF Expired(window[a.key], a.now) THEN @ + 1 ELSE @]
  /\ admitted' = [admitted EXCEPT ![a.key] = Append(@, a.now)]
  /\ Answered(t)
  /\ UNCHANGED <<now, limit>>

\* state.count += 1: false, let through.
AdmitCall(t) ==
  LET a == ask[t]  w == Current(window[a.key], a.now) IN
  /\ a.pc = "mutex"
  /\ a.limit # 0
  /\ w.count < a.limit
  /\ window' = [window EXCEPT ![a.key] =
                  [open |-> TRUE, start |-> w.start, count |-> w.count + 1]]
  /\ windows' = [windows EXCEPT ![a.key] =
                   IF Expired(window[a.key], a.now) THEN @ + 1 ELSE @]
  /\ admitted' = [admitted EXCEPT ![a.key] = Append(@, a.now)]
  /\ Answered(t)
  /\ UNCHANGED <<now, limit>>

Decide(t) == Unlimited(t) \/ SuppressCall(t) \/ AdmitCall(t)

LimiterNext ==
  \/ Tick
  \/ \E n \in 0..MaxLimit : SetThrottle(n)
  \/ \E t \in Askers :
       \/ \E k \in Keys : ReadLimit(t, k)
       \/ ReadClock(t)
       \/ Decide(t)

LimiterSpec == LimiterInit /\ [][LimiterNext]_limiterVars

-----------------------------------------------------------------------------
\* Properties.

\* However late a call decides on a reading it took before the mutex, a window
\* never moves back in time and the next one starts a full second after it
\* (over_budget: saturating_sub, then the roll at elapsed >= NS_PER_SEC).
Advances ==
  \A k \in Keys :
    window[k].open /\ window'[k] # window[k] =>
      \/ window'[k].start = window[k].start /\ window'[k].count > window[k].count
      \/ window'[k].start >= window[k].start + Second

WindowsAdvance == [][Advances]_limiterVars

\* The long-run rate: whatever the interleaving, the stale readings and the
\* changes of the limit, a key has had at most MaxLimit admissions per window,
\* and windows opened a second apart fit between 0 and the clock.
LongRunRate ==
  \A k \in Keys :
    /\ Len(admitted[k]) <= MaxLimit * windows[k]
    /\ windows[k] > 0 => Second * (windows[k] - 1) <= now

\* A call is suppressed only when its limit was used up within the second
\* before its own reading (or after it): an expired window never suppresses.
SuppressionJustified ==
  [][\A t \in Askers :
       LET a == ask[t] IN
       /\ a.pc = "mutex" /\ a.limit # 0
       /\ ask'[t].pc = "idle"
       /\ admitted' = admitted
       => /\ window[a.key].count >= a.limit
          /\ a.now < window[a.key].start + Second]_limiterVars

\* set_error_hook_throttle documents "at most `max_per_second` hook invocations
\* per error type per second" (src/src/config.rs): in no span of one second more
\* admissions than the largest limit.
AtMostLimitPerSecond ==
  \A k \in Keys : \A from \in 0..MaxTime :
    LET inSpan(at) == from <= at /\ at < from + Second
    IN  Len(SelectSeq(admitted[k], inSpan)) <= MaxLimit

-----------------------------------------------------------------------------
\* The inductive invariant behind LongRunRate: the windows of a key up to its
\* current start, and the admissions the current one may still add.
Ledger ==
  \A k \in Keys :
    /\ window[k].open <=> windows[k] > 0
    /\ window[k].start <= now
    /\ windows[k] > 0 => /\ Second * (windows[k] - 1) <= window[k].start
                         /\ Len(admitted[k]) <= MaxLimit * (windows[k] - 1) + window[k].count
    /\ windows[k] = 0 => Len(admitted[k]) = 0

ReadingsPast == \A t \in Askers : ask[t].now <= now

LimiterInv == LimiterTypeOK /\ Ledger /\ ReadingsPast
=============================================================================
