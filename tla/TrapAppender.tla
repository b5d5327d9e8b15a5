---------------------------- MODULE TrapAppender ----------------------------
(***************************************************************************)
(* The appenders of a deployment (src/src/deploy.rs): each destination is  *)
(* wrapped in a TrapAppender, which swallows its failures and reports the  *)
(* first one, through the log facade, from inside OnceLock::get_or_init.   *)
(*                                                                         *)
(* The report is a log record like any other: it goes through the dispatch *)
(* to the appenders, those that are failing included.  A log call may thus *)
(* be nested in the report of another, on the stack of one thread.         *)
(*                                                                         *)
(* The logforth dispatch and the destinations are external: a dispatch     *)
(* calls its appenders one after the other, and a faulty destination may   *)
(* fail any call.  std's OnceLock is external too: a second caller waits   *)
(* for the first, and its documentation leaves the outcome of reentrant    *)
(* initialization unspecified but for the current one, a deadlock.         *)
(***************************************************************************)
EXTENDS Naturals, Sequences, SequencesExt

CONSTANTS
  Threads,
  NoThread,        \* no thread
  AppRoute,      \* the appenders that get records below the level of errors, in order
  ErrorRoutes,   \* the configurations: appenders that get error records
  Faulty,        \* the destinations that may fail
  MaxCalls       \* bound: calls of log and flush by the program

\* A flush goes through all dispatches: with one of their own for error records,
\* through both.
FlushRoute(errors) == IF errors = AppRoute THEN AppRoute ELSE AppRoute \o errors

Routes    == ErrorRoutes \cup {AppRoute} \cup {FlushRoute(errors) : errors \in ErrorRoutes}
Destinations == UNION {ToSet(route) : route \in Routes}

ASSUME NoThreadAssumption == NoThread \notin Threads
ASSUME RoutesAssumption == \A route \in Routes : route \in Seq(ToSet(route))
ASSUME FaultyAssumption == Faulty \subseteq Destinations
ASSUME CallsAssumption  == MaxCalls \in Nat

VARIABLES
  errorRoute, \* the route of error records, the level of a report (set by init)
  frames,     \* frames[t]: the log calls on t's stack, the innermost last
  reported,   \* reported[a]: the OnceLock of a, and who initializes it
  reports,    \* history: reports made per appender
  calls       \* history: calls made by the program

trapVars == <<errorRoute, frames, reported, reports, calls>>

\* A call walks its route; `tried` (history) is what it has called so far.
Frame == [route : Routes, at : Nat, tried : Seq(Destinations),
          pc : {"next", "failed", "reporting"}]

Fresh(route) == [route |-> route, at |-> 1, tried |-> <<>>, pc |-> "next"]

TrapsTypeOK ==
  /\ errorRoute \in ErrorRoutes
  /\ frames   \in [Threads -> Seq(Frame)]
  /\ reported \in [Destinations -> [state : {"new", "running", "done"},
                                     by : Threads \cup {NoThread}]]
  /\ reports  \in [Destinations -> Nat]
  /\ calls    \in 0..MaxCalls
  /\ \A a \in Destinations : reports[a] > 0 <=> reported[a].state # "new"
  /\ \A t \in Threads : \A i \in 1..Len(frames[t]) :
       i < Len(frames[t]) <=> frames[t][i].pc = "reporting"

TrapsInit ==
  /\ errorRoute \in ErrorRoutes
  /\ frames   = [t \in Threads |-> <<>>]
  /\ reported = [a \in Destinations |-> [state |-> "new", by |-> NoThread]]
  /\ reports  = [a \in Destinations |-> 0]
  /\ calls    = 0

-----------------------------------------------------------------------------
Top(t)      == Last(frames[t])
Busy(t, pc) == frames[t] # <<>> /\ Top(t).pc = pc
Current(t)  == Top(t).route[Top(t).at]     \* the appender t is at

SetTop(s, f) == [s EXCEPT ![Len(s)] = f]

\* f, gone on to the next appender.
Advance(f) == [f EXCEPT !.at = @ + 1, !.pc = "next"]

\* The program logs, an error or not, or flushes.
Call(t) ==
  /\ frames[t] = <<>>
  /\ calls < MaxCalls
  /\ calls' = calls + 1
  /\ \E route \in {AppRoute, errorRoute, FlushRoute(errorRoute)} :
       frames' = [frames EXCEPT ![t] = <<Fresh(route)>>]
  /\ UNCHANGED <<errorRoute, reported, reports>>

Reached(t) == Busy(t, "next") /\ Top(t).at <= Len(Top(t).route)
Tried(t)   == [Top(t) EXCEPT !.tried = Append(@, Current(t))]

\* self.inner.append(..) or flush() is Ok.
AppendOk(t) ==
  /\ Reached(t)
  /\ frames' = [frames EXCEPT ![t] = SetTop(@, Advance(Tried(t)))]
  /\ UNCHANGED <<errorRoute, reported, reports, calls>>

\* It is Err.
AppendFails(t) ==
  /\ Reached(t)
  /\ Current(t) \in Faulty
  /\ frames' = [frames EXCEPT ![t] = SetTop(@, [Tried(t) EXCEPT !.pc = "failed"])]
  /\ UNCHANGED <<errorRoute, reported, reports, calls>>

\* Faulty: a flag that is read and set in two steps lets a second reporter in.
ReportUnguarded(t) ==
  LET a == Current(t) IN
  /\ Busy(t, "failed")
  /\ reported[a].state # "done"
  /\ reported[a].by # t
  /\ reported' = [reported EXCEPT ![a] = [state |-> "running", by |-> t]]
  /\ reports' = [reports EXCEPT ![a] = @ + 1]
  /\ frames' = [frames EXCEPT ![t] =
                  Append(SetTop(@, [Top(t) EXCEPT !.pc = "reporting"]), Fresh(errorRoute))]
  /\ UNCHANGED <<errorRoute, calls>>

\* report: get_or_init runs the closure, which logs an error.
Report(t) ==
  LET a == Current(t) IN
  /\ Busy(t, "failed")
  /\ reported[a].state = "new"
  /\ reported' = [reported EXCEPT ![a] = [state |-> "running", by |-> t]]
  /\ reports' = [reports EXCEPT ![a] = @ + 1]
  /\ frames' = [frames EXCEPT ![t] =
                  Append(SetTop(@, [Top(t) EXCEPT !.pc = "reporting"]), Fresh(errorRoute))]
  /\ UNCHANGED <<errorRoute, calls>>

\* Faulty: the failure propagates and ends the walk.
SwallowNot(t) ==
  /\ Busy(t, "failed")
  /\ reported[Current(t)].state = "done"
  /\ frames' = [frames EXCEPT ![t] =
                  SetTop(@, [Top(t) EXCEPT !.at = Len(Top(t).route) + 1, !.pc = "next"])]
  /\ UNCHANGED <<errorRoute, reported, reports, calls>>

\* report finds the OnceLock set; the failure is swallowed.  A thread that finds
\* it running waits, though it be its own.
Swallow(t) ==
  /\ Busy(t, "failed")
  /\ reported[Current(t)].state = "done"
  /\ frames' = [frames EXCEPT ![t] = SetTop(@, Advance(Top(t)))]
  /\ UNCHANGED <<errorRoute, reported, reports, calls>>

\* Faulty: the report returns and the OnceLock is never set.
ReturnUnset(t) ==
  LET outer == Front(frames[t]) IN
  /\ Busy(t, "next") /\ Top(t).at > Len(Top(t).route)
  /\ frames' = [frames EXCEPT ![t] =
                  IF outer = <<>> THEN outer ELSE SetTop(outer, Advance(Last(outer)))]
  /\ UNCHANGED <<errorRoute, reported, reports, calls>>

\* The call has walked its route.  If it was a report's, the OnceLock is set and
\* the append that failed returns Ok.
Return(t) ==
  LET outer == Front(frames[t])
      a     == Last(outer).route[Last(outer).at]
  IN
  /\ Busy(t, "next") /\ Top(t).at > Len(Top(t).route)
  /\ \/ outer = <<>> /\ frames' = [frames EXCEPT ![t] = outer] /\ UNCHANGED reported
     \/ /\ outer # <<>>
        /\ frames' = [frames EXCEPT ![t] = SetTop(outer, Advance(Last(outer)))]
        /\ reported' = [reported EXCEPT ![a] = [state |-> "done", by |-> NoThread]]
  /\ UNCHANGED <<errorRoute, reports, calls>>

Proceed(t) == AppendOk(t) \/ AppendFails(t) \/ Report(t) \/ Swallow(t) \/ Return(t)

TrapsNext == \E t \in Threads : Call(t) \/ Proceed(t)

TrapsSpec == TrapsInit /\ [][TrapsNext]_trapVars

\* Threads are scheduled; a waiter of the OnceLock wakes when it is set.
FairTrapsSpec == TrapsSpec /\ \A t \in Threads : WF_trapVars(Proceed(t))

-----------------------------------------------------------------------------
\* Properties.

\* "The FIRST failure per appender is reported; later failures are swallowed"
\* (trap): one report per appender, whichever threads fail at the same time.
ReportedOnce == \A a \in Destinations : reports[a] <= 1

\* A report is counted with its OnceLock, an outer call waits in it, and there is
\* one report per appender.
TrapsInv == TrapsTypeOK /\ ReportedOnce

\* "A broken destination must not break the application" (TrapAppender): a call
\* that returns has tried every appender of its route once, in order, whichever
\* of them failed.
AllTried ==
  [][\A t \in Threads :
       Len(frames'[t]) < Len(frames[t]) => Top(t).tried = Top(t).route]_trapVars

\* Every call of the program returns, two threads reporting one appender at the
\* same time included, where error records go to destinations that work, as they
\* may under `stderr_from`.
CallReturns ==
  \A t \in Threads :
    frames[t] # <<>> /\ ToSet(errorRoute) \cap Faulty = {} ~> frames[t] = <<>>

\* "the report cannot recursively re-enter the same failing appender through our
\* own log::error!" (trap), "so a wedged appender cannot starve the caller": no
\* thread waits for a report that it is making itself.
NoSelfWait ==
  \A t \in Threads : Busy(t, "failed") => reported[Current(t)].by # t
=============================================================================
