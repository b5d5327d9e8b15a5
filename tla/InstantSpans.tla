---------------------------- MODULE InstantSpans ----------------------------
(***************************************************************************)
(* The instant backend of one thread (src/src/profiling/instant.rs): the   *)
(* stack of open spans, the buffer of finished ones, and the frame         *)
(* boundaries that cut the buffer into ticks.                              *)
(*                                                                         *)
(* A guard remembers only the depth of its span, and its drop finishes     *)
(* every span at or above that depth.  The boundaries and DRAIN_BASE are   *)
(* absolute counts of finished spans, so that a boundary keeps its meaning *)
(* when spans leave the buffer.                                            *)
(*                                                                         *)
(* Safe Rust drops guards in any order or never (mem::forget).  A lexical  *)
(* program drops or forgets only its youngest live guard, as scopes do.    *)
(* Names, tags and timestamps are left out: a span is a number, in the     *)
(* order of the calls of enter.                                            *)
(***************************************************************************)
EXTENDS Naturals, Sequences, FiniteSets, SequencesExt

CONSTANTS
  RETAINED_FRAMES,   \* frame boundaries kept
  MaxOpened,         \* bound: spans entered
  MaxFrames          \* bound: finish_frame calls

ASSUME FrameAssumption == RETAINED_FRAMES \in Nat \ {0}
ASSUME SpanBounds      == MaxOpened \in Nat /\ MaxFrames \in Nat

VARIABLES
  stack,        \* STACK: the open spans, outermost first
  FINISHED,     \* FINISHED: spans in the order they finished (frame: history)
  boundaries,   \* FRAME_BOUNDARIES (frame: history)
  base,         \* DRAIN_BASE: spans that have left FINISHED
  lexical,      \* whether the program ends guards in the reverse order of their creation
  spanGuards,   \* the live guards (span: history)
  opened,       \* history: spans entered
  frame,        \* history: the current frame
  undrained,    \* history: frames that ended since the boundaries were last taken
  ended         \* history: every span that finished, in order

vars == <<stack, FINISHED, boundaries, base, lexical, spanGuards, opened, frame, undrained, ended>>

Spans == 1..MaxOpened

TypeOK ==
  /\ lexical    \in BOOLEAN
  /\ stack      \in Seq(Spans)
  /\ FINISHED   \in Seq([span : Spans, frame : 0..MaxFrames])
  /\ boundaries \in Seq([at : 0..MaxOpened, frame : 0..MaxFrames])
  /\ base       \in 0..MaxOpened
  /\ spanGuards \in SUBSET [span : Spans, depth : 0..MaxOpened]
  /\ opened     \in 0..MaxOpened
  /\ frame      \in 0..MaxFrames
  /\ undrained  \in 0..frame
  /\ ended      \in Seq(Spans)
  /\ base + Len(FINISHED) <= Len(ended)

Init ==
  /\ lexical \in BOOLEAN
  /\ stack = <<>> /\ FINISHED = <<>> /\ boundaries = <<>> /\ base = 0
  /\ spanGuards = {} /\ opened = 0 /\ frame = 0 /\ undrained = 0 /\ ended = <<>>

-----------------------------------------------------------------------------
Enter ==
  /\ opened < MaxOpened
  /\ opened' = opened + 1
  /\ stack'   = Append(stack, opened + 1)
  /\ spanGuards' = spanGuards \cup {[span |-> opened + 1, depth |-> Len(stack)]}
  /\ UNCHANGED <<lexical, FINISHED, boundaries, base, frame, undrained, ended>>

\* The guards the program may end now.
Droppable == {g \in spanGuards : lexical => \A h \in spanGuards : h.span <= g.span}

\* The spans the drop of a guard finishes, innermost first; none if the stack
\* is not that deep any more.
Above(depth) == Reverse(SubSeq(stack, depth + 1, Len(stack)))

\* Faulty: every span above is recorded, one is popped.
DropGuardPopOnce(g) ==
  LET done == Above(g.depth) IN
  /\ g \in Droppable
  /\ spanGuards' = spanGuards \ {g}
  /\ stack'    = IF done = <<>> THEN stack ELSE Front(stack)
  /\ FINISHED' = FINISHED \o [i \in DOMAIN done |-> [span |-> done[i], frame |-> frame]]
  /\ ended'    = ended \o done
  /\ UNCHANGED <<lexical, boundaries, base, opened, frame, undrained>>

\* InstantGuard::drop
DropGuard(g) ==
  LET done == Above(g.depth) IN
  /\ g \in Droppable
  /\ spanGuards' = spanGuards \ {g}
  /\ stack'    = SubSeq(stack, 1, Len(stack) - Len(done))
  /\ FINISHED' = FINISHED \o [i \in DOMAIN done |-> [span |-> done[i], frame |-> frame]]
  /\ ended'    = ended \o done
  /\ UNCHANGED <<lexical, boundaries, base, opened, frame, undrained>>

\* mem::forget: the drop never runs, the span stays open.
Forget(g) ==
  /\ g \in Droppable
  /\ spanGuards' = spanGuards \ {g}
  /\ UNCHANGED <<lexical, stack, FINISHED, boundaries, base, opened, frame, undrained, ended>>

\* The oldest boundary that stays when the list is one too long: everything
\* before it leaves the buffer.
Cutoff(marks) == marks[Len(marks) - RETAINED_FRAMES + 1].at

\* cutoff.saturating_sub(base): the spans of the buffer before the cutoff.
Old(marks) == IF Cutoff(marks) > base THEN Cutoff(marks) - base ELSE 0

FinishFrame ==
  LET marks == Append(boundaries, [at |-> base + Len(FINISHED), frame |-> frame]) IN
  /\ frame < MaxFrames
  /\ frame' = frame + 1
  /\ undrained' = undrained + 1
  /\ \/ /\ Len(marks) <= RETAINED_FRAMES
        /\ boundaries' = marks
        /\ UNCHANGED <<FINISHED, base>>
     \/ /\ Len(marks) > RETAINED_FRAMES
        /\ boundaries' = SubSeq(marks, Len(marks) - RETAINED_FRAMES + 1, Len(marks))
        /\ FINISHED'   = SubSeq(FINISHED, Old(marks) + 1, Len(FINISHED))
        /\ base'       = base + Old(marks)
  /\ UNCHANGED <<lexical, stack, spanGuards, opened, ended>>

\* Faulty: the buffer is taken and the base stays.
DrainNoRebase ==
  /\ FINISHED' = <<>>
  /\ UNCHANGED <<lexical, stack, boundaries, base, spanGuards, opened, frame, undrained, ended>>

Drain ==
  /\ FINISHED' = <<>>
  /\ base'     = base + Len(FINISHED)
  /\ UNCHANGED <<lexical, stack, boundaries, spanGuards, opened, frame, undrained, ended>>

\* drain_frames hands the boundaries out (see Rebased) and keeps none.
DrainFrames ==
  /\ boundaries' = <<>>
  /\ undrained'  = 0
  /\ UNCHANGED <<lexical, stack, FINISHED, base, spanGuards, opened, frame, ended>>

\* Faulty: "clear everything", the open spans included.
ClearAll ==
  /\ stack' = <<>> /\ FINISHED' = <<>> /\ boundaries' = <<>> /\ base' = 0 /\ undrained' = 0
  /\ UNCHANGED <<lexical, spanGuards, opened, frame, ended>>

\* clear leaves the open spans alone.
Clear ==
  /\ FINISHED' = <<>> /\ boundaries' = <<>> /\ base' = 0 /\ undrained' = 0
  /\ UNCHANGED <<lexical, stack, spanGuards, opened, frame, ended>>

Next ==
  \/ Enter
  \/ \E g \in spanGuards : DropGuard(g) \/ Forget(g)
  \/ FinishFrame \/ Drain \/ DrainFrames \/ Clear

Spec == Init /\ [][Next]_vars

-----------------------------------------------------------------------------
\* Properties.

\* No span is lost or recorded twice, in whatever order guards are dropped or
\* forgotten: each one entered is either open or finished once.
EachSpanOnce ==
  /\ ToSet(stack) \cup ToSet(ended) = 1..opened
  /\ Len(stack) + Len(ended) = opened

\* "Automatically drains spans older than the current frame to prevent unbounded
\* memory growth" (finish_frame): with as many boundaries as are retained, and one
\* frame more, only spans of the last RETAINED_FRAMES frames are left, whatever was
\* drained before and whatever the guards did.
UndrainedBounded ==
  undrained > RETAINED_FRAMES =>
    \A k \in DOMAIN FINISHED : frame < FINISHED[k].frame + RETAINED_FRAMES

\* No span is lost or recorded twice, and the buffer is bounded while nobody takes
\* the boundaries.
Inv == TypeOK /\ EachSpanOnce /\ UndrainedBounded

\* What drain_frames returns: the boundaries still in the buffer, as indexes of it.
Rebased == {[at |-> b.at - base, frame |-> b.frame] : b \in {c \in ToSet(boundaries) : c.at >= base}}

\* "DRAIN_BASE ... so absolute frame boundaries stay interpretable": whatever
\* was drained, evicted and cleared in between, a boundary that drain_frames
\* returns splits the buffer exactly between the frames before and after it.
FramesCutRight ==
  \A mark \in Rebased : \A k \in DOMAIN FINISHED :
    k <= mark.at <=> FINISHED[k].frame <= mark.frame

\* With guards ended in lexical order, forgotten ones included, every live guard
\* still owns the span at its depth: its drop times the scope it was made for, and
\* ends with it the forgotten ones inside it and nothing else.
GuardsOwnTheirSpans ==
  lexical => \A g \in spanGuards : g.depth < Len(stack) /\ stack[g.depth + 1] = g.span

\* "Out-of-order or duplicate drops whose span is already gone are no-ops, so a
\* misbehaving guard can never steal another scope's span" (InstantGuard).
GoneIsNoOp ==
  [][\A g \in spanGuards : g \notin spanGuards' /\ g.span \in ToSet(ended) => stack' = stack]_vars

\* The same whether or not somebody takes the boundaries: once RETAINED_FRAMES more
\* frames have ended, a span has left the buffer.
BufferBounded ==
  \A k \in DOMAIN FINISHED : frame <= FINISHED[k].frame + RETAINED_FRAMES
=============================================================================
