----------------------------- MODULE FaultTree -----------------------------
(***************************************************************************)
(* Faults and their causal trees (src/src/exn.rs).  A fault is a value that*)
(* owns the root of a tree of frames, shared through Arcs; raising,        *)
(* wrapping, adding context and collecting consume faults and make new     *)
(* ones.  Only the root of a fault is ever written, and only while the     *)
(* fault is its one owner (Arc::get_mut); otherwise the write is dropped,  *)
(* without a word in release builds.                                       *)
(*                                                                         *)
(* A Fault of a typed error is itself an error (one of a boxed error is    *)
(* not), so it can be raised again or given context: std then lends only   *)
(* its Error::source chain, which is the first branch of its tree, and the *)
(* new frames are copies of that branch.                                   *)
(*                                                                         *)
(* Messages, types and locations are left out: an error is known by the    *)
(* number of the frame through which it came into a tree, and a frame made *)
(* from a source chain of another fault keeps the number of the original.  *)
(* A fault that is dropped or swallowed is one that nothing happens to any *)
(* more: memory is not modelled.                                           *)
(***************************************************************************)
EXTENDS Naturals, Sequences, FiniteSets, SequencesExt

CONSTANTS
  Errors,      \* the program's error types
  Sources,     \* Sources[e]: the length of the source chain of an e
  BoxedErrors, \* the types that are raised as BoxError
  MaxWork      \* bound: frames constructed and uses of faults, together

ASSUME SourcesAssumption == Sources \in [Errors -> Nat]
ASSUME BoxedAssumption   == BoxedErrors \subseteq Errors
ASSUME BoundAssumption   == MaxWork \in Nat

VARIABLES
  frames,      \* the frames constructed so far; a frame is known by its index
  faults,      \* the roots of the faults the program has
  boxed,       \* the roots that were made for a Fault<BoxError>
  collection,  \* FaultCollection.frames
  pending,     \* FrameIter.stack
  held,        \* frames the program keeps an Arc of
  story,       \* history, per frame: the errors its tree must hold, if it is a root
  toVisit,     \* history: the frames the iterator has still to yield, in order
  uses         \* history: uses of faults that make no frames

vars == <<frames, faults, boxed, collection, pending, held, story, toVisit, uses>>

\* FrameKind; the children that Retry merges are of kind "attempt".
Kinds == {"source", "wrap", "batch"}
Edge  == [kind : Kinds, frame : Nat \ {0}]
Frame == [error : Nat \ {0}, context : Nat, attachments : Seq(Nat), children : Seq(Edge)]

Ids == 1..Len(frames)

TypeOK ==
  /\ frames     \in Seq(Frame)
  /\ faults     \in SUBSET Ids
  /\ boxed      \in SUBSET Ids
  /\ collection \in Seq(Ids)
  /\ pending    \in Seq(Ids)
  /\ held       \in SUBSET Ids
  /\ story      \in [Ids -> Seq(Ids)]
  /\ toVisit    \in Seq(Ids)
  /\ uses       \in Nat
  /\ \A f \in Ids : \A i \in DOMAIN frames[f].children : frames[f].children[i].frame < f

Init ==
  /\ frames = <<>> /\ faults = {} /\ boxed = {} /\ collection = <<>> /\ pending = <<>> /\ held = {}
  /\ story = <<>> /\ toVisit = <<>> /\ uses = 0

-----------------------------------------------------------------------------
\* Reading a tree.

\* The first branch under frame f of the frames fs, f first: what Error::source
\* walks, and what root_cause follows to its end.
FirstBranch(fs, f) ==
  LET branch[n \in 0..Len(fs)] ==
        IF n = 0 THEN <<>>
        ELSE <<n>> \o branch[IF fs[n].children = <<>> THEN 0 ELSE fs[n].children[1].frame]
  IN  branch[f]

RootCause(f) == Last(FirstBranch(frames, f))

\* The frames of the tree under frame f of the frames fs, each before its children.
Preorder(fs, f) ==
  LET below[n \in 1..Len(fs)] ==
        LET kids == fs[n].children
        IN  <<n>> \o FlattenSeq([k \in DOMAIN kids |-> below[kids[k].frame]])
  IN  below[f]

-----------------------------------------------------------------------------
\* Building frames.

\* The chain of an error of type e that the program makes now, with its sources,
\* the error first: all new, numbered as the frames they are about to get.
Made(e) == LET k == Sources[e] + 1 IN [i \in 1..k |-> Len(frames) + k - i + 1]

\* Faulty: Error::source of a fault is that of its error, not the tree's.
LentOfError(r) ==
  LET kids == frames[r].children
      own  == IF kids # <<>> /\ kids[1].kind = "source" THEN FirstBranch(frames, kids[1].frame) ELSE <<>>
  IN  <<frames[r].error>> \o [i \in DOMAIN own |-> frames[own[i]].error]

\* The chain that std lends of fault r when r is used as an error.
Lent(r) ==
  LET branch == FirstBranch(frames, r)
  IN  [i \in DOMAIN branch |-> frames[branch[i]].error]

\* fs and the frames of a chain: walk_sources nests them, the deepest is the first
\* to be made, the error itself the last.
Linked(fs, chain) ==
  fs \o [i \in 1..Len(chain) |->
    [error |-> chain[Len(chain) - i + 1], context |-> 0, attachments |-> <<>>,
     children |-> IF i = 1 THEN <<>> ELSE <<[kind |-> "source", frame |-> Len(fs) + i - 1]>>]]

\* Faulty: the children are replaced.
AdoptedInstead(fs, kind, kids) ==
  [fs EXCEPT ![Len(fs)].children = [i \in DOMAIN kids |-> [kind |-> kind, frame |-> kids[i]]]]

\* fs with kids as further children of its last frame, a root that is new and so
\* has one owner: its source chain stays first.
Adopted(fs, kind, kids) ==
  [fs EXCEPT ![Len(fs)].children =
     @ \o [i \in DOMAIN kids |-> [kind |-> kind, frame |-> kids[i]]]]

\* The errors that fault r, one of fs, must hold from now on.
Tell(fs, r, errors) ==
  [f \in 1..Len(fs) |-> IF f = r THEN errors ELSE IF f \in Ids THEN story[f] ELSE <<>>]

\* The program gets the fault whose root is the last of fs, for those in `used`.
Return(fs, used, errors, box) ==
  /\ Len(fs) + uses <= MaxWork
  /\ frames' = fs
  /\ faults' = (faults \ used) \cup {Len(fs)}
  /\ boxed'  = IF box THEN boxed \cup {Len(fs)} ELSE boxed
  /\ story'  = Tell(fs, Len(fs), errors)
  /\ UNCHANGED <<pending, held, toVisit, uses>>

-----------------------------------------------------------------------------
\* The constructors.  An error is made by the program or is a fault it has.

\* Fault::new, raise, From, or from_boxed: frames for the error and its sources.
Raise(chain, used, box) ==
  /\ Return(Linked(frames, chain), used, chain, box)
  /\ UNCHANGED collection

\* Fault::wrap: a fault of a new error over the root of this one.
Wrap(r, e) ==
  /\ Return(Adopted(Linked(frames, Made(e)), "wrap", <<r>>), {r}, Made(e) \o story[r], FALSE)
  /\ UNCHANGED collection

\* ResultExt::context: the error becomes a child frame of a message.
GiveContext(chain, used) ==
  LET child   == Linked(frames, chain)
      message == Len(child) + 1
  IN  /\ Return(Adopted(Linked(child, <<message>>), "wrap", <<Len(child)>>), used,
                <<message>> \o chain, TRUE)
      /\ UNCHANGED collection

\* ResultExt::change_context: raised, and wrapped in another error.
ChangeContext(chain, used, e) ==
  LET raised == Linked(frames, chain)
      outer  == [i \in DOMAIN Made(e) |-> Made(e)[i] + Len(chain)]
  IN  /\ Return(Adopted(Linked(raised, outer), "wrap", <<Len(raised)>>), used,
                outer \o chain, FALSE)
      /\ UNCHANGED collection

\* FaultCollection::push
Push(r) ==
  /\ collection' = Append(collection, r)
  /\ faults' = faults \ {r}
  /\ UNCHANGED <<frames, boxed, pending, held, story, toVisit, uses>>

\* FaultCollection::into_fault, or into_fault_msg with an error without sources.
IntoFault(e, box) ==
  LET told == [i \in DOMAIN collection |-> story[collection[i]]]
  IN  /\ box => Sources[e] = 0
      /\ Return(Adopted(Linked(frames, Made(e)), "batch", collection), {},
                Made(e) \o FlattenSeq(told), box)
      /\ collection' = <<>>

-----------------------------------------------------------------------------
\* Owners and writes.

\* One more use that makes no frames: a write, an iterator, an Arc that is kept.
Use ==
  /\ Len(frames) + uses < MaxWork
  /\ uses' = uses + 1

\* Faulty: the Arcs of an iterator are not counted.
SoleOwnerByHand(r) == r \notin held

\* Arc::get_mut on the root of fault r: a root is in no tree, so its other owners
\* are the program's Arcs and the iterator's.
SoleOwner(r) == r \notin held \cup ToSet(pending)

\* set_context and attach: without effect on a root that is shared.
Write(r) ==
  /\ Use
  /\ \/ ~SoleOwner(r) /\ UNCHANGED frames
     \/ SoleOwner(r) /\ frames' = [frames EXCEPT ![r].context = uses + 1]
     \/ SoleOwner(r) /\ frames' = [frames EXCEPT ![r].attachments = Append(@, uses + 1)]
  /\ UNCHANGED <<faults, boxed, collection, pending, held, story, toVisit>>

\* Fault::into_frame
IntoFrame(r) ==
  /\ Use
  /\ faults' = faults \ {r}
  /\ held'   = held \cup {r}
  /\ UNCHANGED <<frames, boxed, collection, pending, story, toVisit>>

\* root_cause returns an Arc.
FindRootCause(r) ==
  /\ Use
  /\ held' = held \cup {RootCause(r)}
  /\ UNCHANGED <<frames, faults, boxed, collection, pending, story, toVisit>>

\* An Arc is dropped.
Release(f) ==
  /\ held' = held \ {f}
  /\ UNCHANGED <<frames, faults, boxed, collection, pending, story, toVisit, uses>>

\* Fault::iter; the model has one iterator at a time.
Iterate(r) ==
  /\ Use
  /\ pending = <<>>
  /\ pending' = <<r>>
  /\ toVisit' = Preorder(frames, r)
  /\ UNCHANGED <<frames, faults, boxed, collection, held, story>>

\* FrameIter::next hands out the top of its stack, which the program may keep, and
\* pushes the children of it in reverse.
IterNext(keep) ==
  LET kids == Reverse(frames[Last(pending)].children) IN
  /\ pending # <<>>
  /\ pending' = Front(pending) \o [i \in DOMAIN kids |-> kids[i].frame]
  /\ toVisit' = Tail(toVisit)
  /\ \/ keep /\ Use /\ held' = held \cup {Last(pending)}
     \/ ~keep /\ UNCHANGED <<held, uses>>
  /\ UNCHANGED <<frames, faults, boxed, collection, story>>

\* The iterator is dropped before its end.
StopIterating ==
  /\ pending # <<>>
  /\ pending' = <<>>
  /\ toVisit' = <<>>
  /\ UNCHANGED <<frames, faults, boxed, collection, held, story, uses>>

Next ==
  \/ \E e \in Errors :
       \/ Raise(Made(e), {}, e \in BoxedErrors) \/ GiveContext(Made(e), {})
       \/ \E box \in BOOLEAN : IntoFault(e, box)
       \/ \E outer \in Errors : ChangeContext(Made(e), {}, outer)
  \/ \E r \in faults \ boxed :
       \/ Raise(Lent(r), {r}, FALSE) \/ GiveContext(Lent(r), {r})
       \/ \E e \in Errors : ChangeContext(Lent(r), {r}, e)
  \/ \E r \in faults :
       \/ \E e \in Errors : Wrap(r, e)
       \/ Push(r) \/ Write(r) \/ FindRootCause(r) \/ Iterate(r) \/ IntoFrame(r)
  \/ \E f \in held : Release(f)
  \/ \E keep \in BOOLEAN : IterNext(keep)
  \/ StopIterating

Spec == Init /\ [][Next]_vars

-----------------------------------------------------------------------------
\* Properties.

\* No error is lost on the way: whatever a fault was raised from, wrapped in and
\* collected with, its tree holds exactly those errors, each before what caused
\* it, a new error's own sources before the faults it adopts.
NothingLost ==
  \A r \in faults \cup ToSet(collection) :
    LET tree == Preorder(frames, r) IN
    story[r] = [i \in DOMAIN tree |-> frames[tree[i]].error]

\* A frame that anyone else can see, through a tree, a collection, an iterator or
\* an Arc, never changes: only fresh roots and roots with one owner are written.
Children(f) == {frames[f].children[i].frame : i \in DOMAIN frames[f].children}

Seen == held \cup ToSet(pending) \cup ToSet(collection) \cup UNION {Children(f) : f \in Ids}

SharedFramesFrozen == [][\A f \in Seen : frames'[f] = frames[f]]_vars

\* An iterator yields every frame of the tree it was made for once, parents first
\* and children in order, though the fault be wrapped, written or dropped under it.
IteratesPreorder ==
  LET left == [i \in DOMAIN pending |-> Preorder(frames, pending[Len(pending) - i + 1])]
  IN  FlattenSeq(left) = toVisit

\* Trees without cycles (a child is older than its parent), of which no error is lost,
\* neither when they are built nor when they are walked.
Inv == TypeOK /\ NothingLost /\ IteratesPreorder

\* The root cause of a fault stays what it was when the fault is raised again, given
\* context, or wrapped by an error without sources of its own: the copies made from
\* Error::source reach down to the same error.
WrappedBySourced(fs, r, n) ==
  /\ fs[n].error # fs[r].error
  /\ fs[n].children[1].kind = "source"

Cause(fs, f) == fs[Last(FirstBranch(fs, f))].error

CauseSurvives ==
  [][\A r \in faults \ faults' : \A n \in faults' \ faults :
       WrappedBySourced(frames', r, n) \/ Cause(frames', n) = Cause(frames, r)]_vars

\* What the comment on Error for Fault says (exn.rs 1077-1081): who walks
\* Error::source sees the same structure that Debug renders.  Not so, a fault with
\* several branches shows only the first.
WalkersSeeTheTree == \A r \in faults : FirstBranch(frames, r) = Preorder(frames, r)
=============================================================================
