----------------------------- MODULE Reporters -----------------------------
(***************************************************************************)
(* The reporters of traces (src/src/reporter.rs): a SamplingReporter around*)
(* a MultiReporter whose targets may be sampled in their turn.  fastrace's *)
(* collector hands over the spans it has collected since the last time, in *)
(* one batch: those of one trace, or of several that ran meanwhile; a trace*)
(* may also be in several batches.                                         *)
(*                                                                         *)
(* A span is a number, its trace an id, and whether it has an error event. *)
(***************************************************************************)
EXTENDS Naturals, Sequences, SequencesExt

CONSTANTS
  TraceIds,
  Rates,       \* sample rates, 0 and 1 keep everything
  MaxTargets,  \* bound: reporters pushed
  MaxRecords   \* bound: spans collected

ASSUME TracesAssumption == TraceIds \cup Rates \subseteq Nat
ASSUME ReportersBoundAssumption == MaxTargets \in Nat /\ MaxRecords \in Nat

VARIABLES
  apart,      \* the collector hands over each trace in a batch of its own; it does
              \* not change
  sampleRate, \* that of the outer reporter
  targets,    \* per target, its own rate
  collected,  \* spans that have not been reported
  handed,     \* history: the spans of the batches, in order
  received    \* per target, the spans it was given

reporterVars == <<apart, sampleRate, targets, collected, handed, received>>

\* Every composition of the reporters: push and SamplingReporter::new come before the
\* collector owns them.
ReportersInit ==
  /\ apart \in BOOLEAN
  /\ sampleRate \in Rates
  /\ \E n \in 0..MaxTargets : targets \in [1..n -> Rates]
  /\ collected = <<>> /\ handed = <<>>
  /\ received = [i \in DOMAIN targets |-> <<>>]

\* A span ends, with or without an error event that the error hook gave it.
CollectSpan(trace, error) ==
  LET number == Len(handed) + Len(collected) + 1 IN
  /\ number <= MaxRecords
  /\ apart => /\ \A i \in DOMAIN collected : collected[i].trace = trace
              /\ \A i \in DOMAIN handed : handed[i].trace # trace
  /\ collected' = Append(collected, [number |-> number, trace |-> trace, error |-> error])
  /\ UNCHANGED <<apart, sampleRate, targets, handed, received>>

\* Faulty: like the id, the event is looked for in the first span.
HasErrorEventFirst(spans) == spans[1].error

\* has_error_event
HasErrorEvent(spans) == \E i \in DOMAIN spans : spans[i].error

\* SamplingReporter::report: the first span's trace decides.  (Batches are not empty.)
Keep(rate, spans) ==
  \/ rate <= 1
  \/ HasErrorEvent(spans)
  \/ spans[1].trace % rate = 0

\* The collector reports; MultiReporter::report gives a batch to every target.
ReportBatch ==
  /\ collected # <<>>
  /\ collected' = <<>>
  /\ handed' = handed \o collected
  /\ received' = [i \in DOMAIN targets |->
       IF Keep(sampleRate, collected) /\ Keep(targets[i], collected)
       THEN received[i] \o collected ELSE received[i]]
  /\ UNCHANGED <<apart, sampleRate, targets>>

ReportersNext ==
  \/ \E t \in TraceIds, error \in BOOLEAN : CollectSpan(t, error)
  \/ ReportBatch

ReportersSpec == ReportersInit /\ [][ReportersNext]_reporterVars

-----------------------------------------------------------------------------
\* Properties.

Sampled(trace, i) == \A rate \in {sampleRate, targets[i]} : rate <= 1 \/ trace % rate = 0

\* Sampling loses no error ("Keeps 100% of traces containing an error span event",
\* SamplingReporter): however the collector batches spans, a span with an error event
\* reaches every target, under every composition, and a target gets no span twice or
\* out of order.  If batches are traces, all that was recorded of a trace with an error
\* reaches every target, and of another trace all or nothing, as its id says.
ErrorsReachEveryTarget ==
  \A i \in DOMAIN targets :
    LET got == ToSet(received[i]) IN
    /\ \A k \in 1..(Len(received[i]) - 1) : received[i][k].number < received[i][k + 1].number
    /\ \A s \in ToSet(handed) : s.error => s \in got
    /\ apart => \A s \in ToSet(handed) :
         (s \in got) <=> \/ Sampled(s.trace, i)
                         \/ \E r \in ToSet(handed) : r.trace = s.trace /\ r.error

\* "The sampling decision is derived from the trace id, so it is deterministic per
\* trace" (SamplingReporter).  In a batch of several traces the first one's decides.
DecidedByTrace ==
  \A i \in DOMAIN targets : \A s \in ToSet(handed) :
    (\A r \in ToSet(handed) : ~r.error) => (s \in ToSet(received[i]) <=> Sampled(s.trace, i))
=============================================================================
