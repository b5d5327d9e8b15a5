------------------------- MODULE HookPipelineProofs -------------------------
(***************************************************************************)
(* For any number of threads, hooks and faults, however deep hooks nest:   *)
(* a fault that was let through calls every hook of its snapshot once, no  *)
(* sink is called for a fault constructed after its removal, and the count *)
(* in the log is never below the fault's own place.                        *)
(*                                                                         *)
(* The registries under the pipeline keep the invariant of                 *)
(* HookRegistryProofs, since every step of the pipeline is a step of theirs*)
(* or leaves them alone.  From it a snapshot has the built-in hook first   *)
(* and no hook retired before it was taken; the rest is bookkeeping of one *)
(* construction, which only the thread it is on top of moves.              *)
(*                                                                         *)
(* The throttle that lets faults through, for any number of threads and    *)
(* keys, any limit and any length of the second: its long-run rate is an   *)
(* invariant.  It follows from the Ledger, which charges every admission to*)
(* a window and counts the windows a second apart.                         *)
(***************************************************************************)
EXTENDS HookPipeline, RateLimiter, SequenceTheorems, FiniteSetTheorems, TLAPS

RegistryProofs == INSTANCE HookRegistryProofs WITH Caller <- Activation

-----------------------------------------------------------------------------
\* The inductive invariant.

RangesOK ==
  /\ depth \in [Threads -> 0..MaxDepth]
  /\ errorCounts \in [Types -> Nat]
  /\ defaultEnabled \in BOOLEAN
  /\ begun \in [Types -> 0..MaxFaults]
  /\ fault \in [Activation -> Fault]

\* An activation that is not on the stack is in no call, and one that is, is in one
\* call at most.
Stacked ==
  \A a \in Activation :
    /\ a[2] > depth[a[1]] => fault[a] = NoFault /\ call[a] = Registry!Idle
    /\ call[a] = Registry!Idle \/ fault[a] = NoFault

\* Where the loop of c begins to call hooks.
First(c) == IF c.fam = "sink" /\ c.skip THEN 2 ELSE 1

\* c has called the hooks of its snapshot up to where it is, but for the default
\* hook it skips.
Walks(c) ==
  /\ c.pc = "none" => c = NoFault
  /\ c.pc \in {"snapshot", "throttle"} => c.snap = <<>> /\ c.ran = <<>>
  /\ c.pc = "throttle" => c.fam = "capture"
  /\ c.pc \in {"load", "next", "call"} => c.at \in 1..(Len(c.snap) + 1)
  /\ c.pc \in {"load", "next", "call"} /\ c.fam = "sink" =>
       c.snap # <<>> /\ \A i \in 1..Len(c.snap) : c.snap[i] = Default <=> i = 1
  /\ c.pc = "load" => c.fam = "sink" /\ c.at = 1 /\ c.ran = <<>>
  /\ c.pc = "next" => c.ran = SubSeq(c.snap, First(c), c.at - 1)
  /\ c.pc = "call" => /\ c.at \in First(c)..Len(c.snap)
                      /\ c.ran = SubSeq(c.snap, First(c), c.at)

\* c has its place in the order of its type from its bump on, which comes between
\* the capture hooks and the sinks; `counts` is ERROR_COUNTS.
Placed(c, counts) ==
  c.pc # "none" =>
    /\ c.type \in Types
    /\ c.ordinal = 0 <=> c.fam = "capture" /\ c.pc # "throttle"
    /\ c.ordinal <= counts[c.type]
    /\ c.seen # 0 => c.ordinal # 0 /\ c.ordinal <= c.seen /\ c.seen <= counts[c.type]

\* The snapshot was taken when `out`, or less than that, had been retired.
UpToDate(c, out) ==
  /\ c.gone \subseteq out /\ Default \notin c.gone
  /\ c.fam = "sink" => \A i \in 1..Len(c.snap) : c.snap[i] \notin c.gone

Sound(c, counts, out) == c \in Fault /\ Walks(c) /\ Placed(c, counts) /\ UpToDate(c, out)

AllSound == \A a \in Activation : Sound(fault[a], errorCounts, retired["sink"])

\* The constructions begun are those counted and those still to be counted.
Counting ==
  \A ty \in Types :
    /\ IsFiniteSet(Uncounted(ty))
    /\ begun[ty] = errorCounts[ty] + Cardinality(Uncounted(ty))

PipelineInv == RegistryProofs!Inv /\ RangesOK /\ Stacked /\ AllSound /\ Counting

-----------------------------------------------------------------------------
\* The stack of a thread.

LEMMA TopOK ==
  ASSUME RangesOK, NEW t \in Threads, depth[t] > 0
  PROVE  Top(t) \in Activation
BY BoundsAssumption DEF RangesOK, Top, Activation

LEMMA NewOK ==
  ASSUME RangesOK, NEW t \in Threads, depth[t] < MaxDepth
  PROVE  /\ New(t) \in Activation
         /\ New(t)[1] = t /\ New(t)[2] = depth[t] + 1
BY BoundsAssumption DEF RangesOK, New, Activation

\* A construction stays sound when other constructions are counted and other hooks
\* are retired.
LEMMA SoundStays ==
  ASSUME NEW c, NEW counts \in [Types -> Nat], NEW more \in [Types -> Nat],
         \A ty \in Types : counts[ty] <= more[ty],
         NEW out, NEW further, out \subseteq further,
         Sound(c, counts, out)
  PROVE  Sound(c, more, further)
<1>1. c.ordinal \in Nat /\ c.seen \in Nat
  BY DEF Sound, Fault
<1>2. Placed(c, more)
  <2> SUFFICES ASSUME c.pc # "none"
               PROVE  /\ c.type \in Types
                      /\ c.ordinal = 0 <=> c.fam = "capture" /\ c.pc # "throttle"
                      /\ c.ordinal <= more[c.type]
                      /\ c.seen # 0 => /\ c.ordinal # 0 /\ c.ordinal <= c.seen
                                       /\ c.seen <= more[c.type]
    BY DEF Placed
  <2>1. /\ c.type \in Types
        /\ c.ordinal = 0 <=> c.fam = "capture" /\ c.pc # "throttle"
        /\ c.ordinal <= counts[c.type]
        /\ c.seen # 0 => c.ordinal # 0 /\ c.ordinal <= c.seen /\ c.seen <= counts[c.type]
    BY DEF Sound, Placed
  <2>2. counts[c.type] \in Nat /\ more[c.type] \in Nat /\ counts[c.type] <= more[c.type]
    BY <2>1
  <2> QED BY <1>1, <2>1, <2>2
<1>3. UpToDate(c, further)
  BY DEF Sound, UpToDate
<1> QED BY <1>2, <1>3 DEF Sound

LEMMA NoFaultSound ==
  ASSUME NEW counts, NEW out
  PROVE  Sound(NoFault, counts, out)
<1>1. NoFault \in Fault
  <2>1. <<>> \in Seq(Hooks)
    OBVIOUS
  <2> QED BY <2>1 DEF NoFault, Fault
<1> QED BY <1>1 DEF NoFault, Sound, Walks, Placed, UpToDate

-----------------------------------------------------------------------------
\* The registries.

\* A step of the pipeline is a step of the registries or leaves them alone.
LEMMA RegistryStep ==
  ASSUME RegistryProofs!Inv, [Registry!Next]_registryVars
  PROVE  RegistryProofs!Inv'
<1>1. [RegistryProofs!Next]_(RegistryProofs!vars)
  <2>1. CASE UNCHANGED registryVars
    BY <2>1 DEF registryVars, RegistryProofs!vars
  <2>2. CASE Registry!Next
    <3>1. PICK a \in Activation :
            \/ \E f \in Registry!Family : Registry!BeginAdd(a, f)
            \/ \E id \in issued["sink"] \cup {Registry!Builtin} : Registry!BeginRemove(a, id)
            \/ Registry!BeginClear(a)
            \/ Registry!Acquire(a)
            \/ Registry!Store(a)
      BY <2>2 DEF Registry!Next
    <3>2. ASSUME NEW f \in Registry!Family, Registry!BeginAdd(a, f)
          PROVE  RegistryProofs!Next
      <4>1. RegistryProofs!BeginAdd(a, f) /\ f \in RegistryProofs!Family
        BY <3>2 DEF Registry!BeginAdd, RegistryProofs!BeginAdd, Registry!Family,
                    RegistryProofs!Family
      <4> QED BY <4>1 DEF RegistryProofs!Next
    <3>3. ASSUME NEW id \in issued["sink"] \cup {Registry!Builtin}, Registry!BeginRemove(a, id)
          PROVE  RegistryProofs!Next
      <4>1. RegistryProofs!BeginRemove(a, id) /\ Registry!Builtin = RegistryProofs!Builtin
        BY <3>3 DEF Registry!BeginRemove, RegistryProofs!BeginRemove, Registry!Builtin,
                    RegistryProofs!Builtin
      <4> QED BY <3>3, <4>1 DEF RegistryProofs!Next
    <3>4. CASE Registry!BeginClear(a)
      <4>1. RegistryProofs!BeginClear(a)
        BY <3>4 DEF Registry!BeginClear, RegistryProofs!BeginClear, Registry!Builtin,
                    RegistryProofs!Builtin
      <4> QED BY <4>1 DEF RegistryProofs!Next
    <3>5. CASE Registry!Acquire(a)
      <4>1. RegistryProofs!Acquire(a)
        BY <3>5 DEF Registry!Acquire, RegistryProofs!Acquire, Registry!Free,
                    RegistryProofs!Free
      <4> QED BY <4>1 DEF RegistryProofs!Next
    <3>6. CASE Registry!Store(a)
      <4>1. RegistryProofs!Store(a)
        <5> USE DEF Registry!Leave, RegistryProofs!Leave, Registry!Idle, RegistryProofs!Idle,
                    Registry!Builtin, RegistryProofs!Builtin, RegistryProofs!Store
        <5>1. CASE Registry!StoreAdd(a)
          BY <5>1 DEF Registry!StoreAdd, RegistryProofs!StoreAdd
        <5>2. CASE Registry!StoreRemove(a)
          BY <5>2, Zenon DEF Registry!StoreRemove, RegistryProofs!StoreRemove,
                             Registry!DropAt, RegistryProofs!DropAt
        <5>3. CASE Registry!MissRemove(a)
          BY <5>3 DEF Registry!MissRemove, RegistryProofs!MissRemove, Registry!Range,
                      RegistryProofs!Range
        <5>4. CASE Registry!StoreClear(a)
          BY <5>4, Zenon DEF Registry!StoreClear, RegistryProofs!StoreClear, Registry!Range,
                             RegistryProofs!Range
        <5> QED BY <3>6, <5>1, <5>2, <5>3, <5>4 DEF Registry!Store
      <4> QED BY <4>1 DEF RegistryProofs!Next
    <3> QED BY <3>1, <3>2, <3>3, <3>4, <3>5, <3>6
  <2> QED BY <2>1, <2>2
<1> QED BY <1>1, RegistryProofs!NextInv, NobodyAssumption, BoundsAssumption

\* What the invariant of the registries says of a vector and of the hooks retired.
LEMMA VectorsOK ==
  ASSUME RegistryProofs!Inv, NEW f \in {"sink", "capture"}
  PROVE  /\ slots[f] \in Seq(Hooks)
         /\ slots[f] # <<>>
         /\ \A i \in 1..Len(slots[f]) : slots[f][i] = Default <=> i = 1
         /\ \A i \in 1..Len(slots[f]) : slots[f][i] \notin retired[f]
         /\ retired[f] \subseteq Hooks /\ Default \notin retired[f]
<1> USE DEF RegistryProofs!Family
<1>1. {RegistryProofs!Builtin} \cup RegistryProofs!Ids = Hooks
  BY BoundsAssumption DEF RegistryProofs!Builtin, RegistryProofs!Ids, Hooks
<1>2. /\ slots[f] \in Seq(Hooks)
      /\ retired[f] \subseteq RegistryProofs!Ids
      /\ issued[f] \subseteq RegistryProofs!Ids
  BY <1>1 DEF RegistryProofs!Inv, RegistryProofs!TypeOK
<1>3. /\ Len(slots[f]) > 0
      /\ \A i \in 1..Len(slots[f]) : slots[f][i] = Default <=> i = 1
  BY DEF RegistryProofs!Inv, RegistryProofs!BuiltinFirst, RegistryProofs!Builtin, Default
<1>4. retired[f] \subseteq Hooks /\ Default \notin retired[f]
  BY <1>2, BoundsAssumption DEF RegistryProofs!Ids, Default, Hooks
<1>5. \A i \in 1..Len(slots[f]) :
        slots[f][i] \in {RegistryProofs!Builtin} \cup (issued[f] \ retired[f])
  BY DEF RegistryProofs!Inv, RegistryProofs!HooksAreLive
<1>6. \A i \in 1..Len(slots[f]) : slots[f][i] \notin retired[f]
  BY <1>4, <1>5 DEF RegistryProofs!Builtin, Default
<1>7. slots[f] # <<>>
  BY <1>2, <1>3
<1> QED BY <1>2, <1>3, <1>4, <1>6, <1>7

LEMMA InitPipeline == Init => PipelineInv
<1> SUFFICES ASSUME Init PROVE PipelineInv
  OBVIOUS
<1>1. RegistryProofs!Inv
  <2>1. RegistryProofs!Init
    BY DEF Init, Registry!Init, RegistryProofs!Init, Registry!Family, RegistryProofs!Family,
           Registry!Builtin, RegistryProofs!Builtin, Registry!Idle, RegistryProofs!Idle
  <2> QED BY <2>1, RegistryProofs!InitInv, NobodyAssumption, BoundsAssumption
<1>2. RangesOK
  <2>1. NoFault \in Fault
    BY NoFaultSound DEF Sound
  <2> QED BY <2>1, BoundsAssumption DEF Init, RangesOK
<1>3. Stacked
  BY DEF Init, Stacked, Registry!Init
<1>4. AllSound
  BY NoFaultSound DEF Init, AllSound
<1>5. Counting
  <2> SUFFICES ASSUME NEW ty \in Types
               PROVE  /\ IsFiniteSet(Uncounted(ty))
                      /\ begun[ty] = errorCounts[ty] + Cardinality(Uncounted(ty))
    BY DEF Counting
  <2>1. Uncounted(ty) = {}
    BY DEF Init, Uncounted, NoFault
  <2> QED BY <2>1, FS_EmptySet DEF Init
<1> QED BY <1>1, <1>2, <1>3, <1>4, <1>5 DEF PipelineInv

-----------------------------------------------------------------------------
\* The registry operations.

\* The steps that leave the constructions alone.
LEMMA ConstructionsStay ==
  ASSUME PipelineInv, UNCHANGED <<fault, errorCounts, begun>>,
         retired["sink"] \subseteq retired'["sink"]
  PROVE  AllSound' /\ Counting'
<1>1. AllSound'
  <2> SUFFICES ASSUME NEW a \in Activation
               PROVE  Sound(fault[a], errorCounts, retired'["sink"])
    BY DEF AllSound
  <2>1. Sound(fault[a], errorCounts, retired["sink"]) /\ errorCounts \in [Types -> Nat]
    BY DEF PipelineInv, AllSound, RangesOK
  <2>2. \A ty \in Types : errorCounts[ty] <= errorCounts[ty]
    BY <2>1
  <2> QED BY <2>1, <2>2, SoundStays
<1>2. Counting'
  BY DEF PipelineInv, Counting, Uncounted
<1> QED BY <1>1, <1>2

LEMMA BeginRegistryCallInv ==
  ASSUME PipelineInv, NEW t \in Threads, BeginRegistryCall(t)
  PROVE  PipelineInv'
<1>1. /\ depth[t] < MaxDepth /\ depth' = [depth EXCEPT ![t] = @ + 1]
      /\ UNCHANGED <<fault, errorCounts, defaultEnabled, begun>>
  BY DEF BeginRegistryCall, Push, processVars
<1>2. RangesOK
  BY DEF PipelineInv
<1>3. New(t) \in Activation /\ New(t)[1] = t /\ New(t)[2] = depth[t] + 1
  BY <1>1, <1>2, NewOK
<1>4. /\ Registry!Next /\ retired' = retired
      /\ \A a \in Activation : a # New(t) => call'[a] = call[a]
  <2>1. DOMAIN call = Activation
    BY DEF PipelineInv, RegistryProofs!Inv, RegistryProofs!TypeOK
  <2> DEFINE Begun == /\ Registry!Next /\ retired' = retired
                      /\ \A a \in Activation : a # New(t) => call'[a] = call[a]
  <2>2. ASSUME NEW f \in Registry!Family, Registry!BeginAdd(New(t), f)
        PROVE  Begun
    <3>1. Registry!Next
      BY <1>3, <2>2 DEF Registry!Next
    <3> QED BY <2>1, <2>2, <3>1 DEF Registry!BeginAdd
  <2>3. ASSUME NEW id \in issued["sink"] \cup {Default}, Registry!BeginRemove(New(t), id)
        PROVE  Begun
    <3>1. Registry!Next
      BY <1>3, <2>3 DEF Registry!Next, Registry!Builtin, Default
    <3> QED BY <2>1, <2>3, <3>1 DEF Registry!BeginRemove
  <2>4. CASE Registry!BeginClear(New(t))
    <3>1. Registry!Next
      BY <1>3, <2>4 DEF Registry!Next
    <3> QED BY <2>1, <2>4, <3>1 DEF Registry!BeginClear
  <2> QED BY <2>2, <2>3, <2>4 DEF BeginRegistryCall
<1>5. RegistryProofs!Inv'
  BY <1>4, RegistryStep DEF PipelineInv
<1>6. RangesOK'
  BY <1>1, <1>2, BoundsAssumption DEF RangesOK
<1>7. Stacked'
  <2> SUFFICES ASSUME NEW a \in Activation
               PROVE  /\ a[2] > depth'[a[1]] => fault[a] = NoFault /\ call'[a] = Registry!Idle
                      /\ call'[a] = Registry!Idle \/ fault[a] = NoFault
    BY <1>1 DEF Stacked
  <2>1. /\ a[2] > depth[a[1]] => fault[a] = NoFault /\ call[a] = Registry!Idle
        /\ call[a] = Registry!Idle \/ fault[a] = NoFault
    BY DEF PipelineInv, Stacked
  <2>2. a[1] \in Threads /\ a[2] \in Nat /\ depth \in [Threads -> Nat]
    BY <1>2, BoundsAssumption DEF Activation, RangesOK
  <2>3. CASE a = New(t)
    <3>1. fault[a] = NoFault
      BY <1>3, <2>1, <2>2, <2>3
    <3>2. ~(a[2] > depth'[a[1]])
      BY <1>1, <1>3, <2>2, <2>3
    <3> QED BY <3>1, <3>2
  <2>4. CASE a # New(t)
    <3>1. a[2] > depth'[a[1]] => a[2] > depth[a[1]]
      BY <1>1, <2>2
    <3> QED BY <1>4, <2>1, <2>4, <3>1
  <2> QED BY <2>3, <2>4
<1>8. AllSound' /\ Counting'
  BY <1>1, <1>4, ConstructionsStay
<1> QED BY <1>5, <1>6, <1>7, <1>8 DEF PipelineInv

\* An activation that is in a registry operation constructs nothing.
LEMMA InOperation ==
  ASSUME PipelineInv, NEW a \in Activation, call[a].step # "idle"
  PROVE  fault[a] = NoFault
BY DEF PipelineInv, Stacked, Registry!Idle

LEMMA LockRegistryInv ==
  ASSUME PipelineInv, NEW t \in Threads, LockRegistry(t)
  PROVE  PipelineInv'
<1> DEFINE a == Top(t)
<1>1. /\ a \in Activation /\ depth[t] > 0
      /\ UNCHANGED <<depth, fault, errorCounts, defaultEnabled, begun>>
  BY TopOK DEF LockRegistry, PipelineInv, processVars
<1>2. /\ call[a].step = "waiting" /\ retired' = retired
      /\ \A b \in Activation : b # a => call'[b] = call[b]
  BY DEF LockRegistry, Registry!Acquire
<1>3. Registry!Next
  BY <1>1 DEF LockRegistry, Registry!Next
<1>4. RegistryProofs!Inv'
  BY <1>3, RegistryStep DEF PipelineInv
<1>5. RangesOK'
  BY <1>1 DEF RangesOK, PipelineInv
<1>6. Stacked'
  <2>1. fault[a] = NoFault
    BY <1>1, <1>2, InOperation
  <2>2. ~(a[2] > depth[a[1]])
    BY BoundsAssumption DEF PipelineInv, RangesOK, Top
  <2> QED BY <1>1, <1>2, <2>1, <2>2 DEF PipelineInv, Stacked
<1>7. AllSound' /\ Counting'
  BY <1>1, <1>2, ConstructionsStay
<1> QED BY <1>4, <1>5, <1>6, <1>7 DEF PipelineInv

LEMMA EndRegistryCallInv ==
  ASSUME PipelineInv, NEW t \in Threads, EndRegistryCall(t)
  PROVE  PipelineInv'
<1> DEFINE a == Top(t)
<1>1. /\ a \in Activation /\ depth[t] > 0 /\ depth' = [depth EXCEPT ![t] = @ - 1]
      /\ UNCHANGED <<fault, errorCounts, defaultEnabled, begun>>
  BY TopOK DEF EndRegistryCall, PipelineInv, Pop, processVars
<1>2. /\ call[a].step = "locked" /\ call' = [call EXCEPT ![a] = Registry!Idle]
      /\ Registry!Store(a)
  BY DEF EndRegistryCall, Registry!Store, Registry!StoreAdd, Registry!StoreRemove,
         Registry!MissRemove, Registry!StoreClear, Registry!Leave
<1>3. retired["sink"] \subseteq retired'["sink"]
  <2>1. "sink" \in DOMAIN retired
    BY DEF PipelineInv, RegistryProofs!Inv, RegistryProofs!TypeOK, RegistryProofs!Family
  <2> QED BY <1>2, <2>1 DEF Registry!Store, Registry!StoreAdd, Registry!StoreRemove,
                            Registry!MissRemove, Registry!StoreClear
<1>4. Registry!Next
  BY <1>1, <1>2 DEF Registry!Next
<1>5. RegistryProofs!Inv'
  BY <1>4, RegistryStep DEF PipelineInv
<1>6. RangesOK'
  <2>1. depth' \in [Threads -> 0..MaxDepth]
    BY <1>1, BoundsAssumption DEF RangesOK, PipelineInv
  <2> QED BY <1>1, <2>1 DEF RangesOK, PipelineInv
<1>7. Stacked'
  <2>1. call \in [Activation -> RegistryProofs!Call]
    BY DEF PipelineInv, RegistryProofs!Inv, RegistryProofs!TypeOK
  <2>2. fault[a] = NoFault /\ call'[a] = Registry!Idle
    BY <1>1, <1>2, <2>1, InOperation
  <2>3. ASSUME NEW b \in Activation, b # a, b[2] > depth'[b[1]]
        PROVE  b[2] > depth[b[1]]
    <3>1. b = <<b[1], b[2]>> /\ b[1] \in Threads /\ b[2] \in Nat /\ depth \in [Threads -> Nat]
      BY BoundsAssumption DEF Activation, PipelineInv, RangesOK
    <3>2. CASE b[1] = t
      <4>1. b[2] # depth[t]
        BY <2>3, <3>1, <3>2 DEF Top
      <4> QED BY <1>1, <2>3, <3>1, <3>2, <4>1
    <3>3. CASE b[1] # t
      BY <1>1, <2>3, <3>1, <3>3
    <3> QED BY <3>2, <3>3
  <2> QED BY <1>1, <1>2, <2>2, <2>3 DEF PipelineInv, Stacked
<1>8. AllSound' /\ Counting'
  BY <1>1, <1>3, ConstructionsStay
<1> QED BY <1>5, <1>6, <1>7, <1>8 DEF PipelineInv

-----------------------------------------------------------------------------
\* The steps of one construction.

\* The construction on top of t's stack moves on to c, counted or not as before.
LEMMA MoveInv ==
  ASSUME PipelineInv, NEW t \in Threads, depth[t] > 0, fault[Top(t)].pc # "none",
         NEW c, fault' = [fault EXCEPT ![Top(t)] = c],
         UNCHANGED <<registryVars, depth, processVars>>,
         Sound(c, errorCounts, retired["sink"]),
         c.pc # "none", c.type = fault[Top(t)].type, c.ordinal = fault[Top(t)].ordinal
  PROVE  PipelineInv'
<1> DEFINE a == Top(t)
<1>1. /\ a \in Activation /\ fault \in [Activation -> Fault]
      /\ fault'[a] = c /\ \A b \in Activation : b # a => fault'[b] = fault[b]
  BY TopOK DEF PipelineInv, RangesOK
<1>2. UNCHANGED <<slots, holder, nextId, call, issued, retired, errorCounts, defaultEnabled,
                  begun, depth>>
  BY DEF registryVars, processVars
<1>3. RegistryProofs!Inv'
  BY RegistryStep DEF PipelineInv
<1>4. RangesOK'
  <2>1. c \in Fault
    BY DEF Sound
  <2> QED BY <1>1, <1>2, <2>1 DEF PipelineInv, RangesOK
<1>5. Stacked'
  <2>1. fault[a] # NoFault
    BY DEF NoFault
  <2>2. call[a] = Registry!Idle /\ ~(a[2] > depth[a[1]])
    BY <1>1, <2>1 DEF PipelineInv, Stacked
  <2> QED BY <1>1, <1>2, <2>2 DEF PipelineInv, Stacked
<1>6. AllSound'
  BY <1>1, <1>2 DEF PipelineInv, AllSound
<1>7. Counting'
  <2> SUFFICES ASSUME NEW ty \in Types PROVE Uncounted(ty)' = Uncounted(ty)
    BY <1>2 DEF PipelineInv, Counting
  <2> QED BY <1>1 DEF Uncounted
<1> QED BY <1>3, <1>4, <1>5, <1>6, <1>7 DEF PipelineInv

\* What is known of a construction that is at pc.
LEMMA AtOK ==
  ASSUME PipelineInv, NEW t \in Threads, NEW pc, At(t, pc), pc # "none"
  PROVE  /\ depth[t] > 0 /\ Top(t) \in Activation
         /\ fault[Top(t)].pc = pc
         /\ Sound(fault[Top(t)], errorCounts, retired["sink"])
         /\ fault[Top(t)] \in Fault
BY TopOK DEF PipelineInv, AllSound, At, Sound

LEMMA TakeSnapshotInv ==
  ASSUME PipelineInv, NEW t \in Threads, TakeSnapshot(t)
  PROVE  PipelineInv'
<1> DEFINE f == fault[Top(t)]
           c == [f EXCEPT !.snap = slots[f.fam], !.at = 1, !.ran = <<>>,
                          !.pc = IF f.fam = "sink" THEN "load" ELSE "next"]
<1>1. /\ depth[t] > 0 /\ f.pc = "snapshot" /\ f \in Fault
      /\ Sound(f, errorCounts, retired["sink"])
      /\ fault' = [fault EXCEPT ![Top(t)] = c]
      /\ UNCHANGED <<registryVars, depth, processVars>>
  BY AtOK DEF TakeSnapshot, Become
<1>2. /\ f.fam \in {"sink", "capture"}
      /\ slots[f.fam] \in Seq(Hooks) /\ slots[f.fam] # <<>>
      /\ \A i \in 1..Len(slots[f.fam]) : slots[f.fam][i] = Default <=> i = 1
      /\ \A i \in 1..Len(slots[f.fam]) : slots[f.fam][i] \notin retired[f.fam]
  BY <1>1, VectorsOK DEF Fault, PipelineInv
<1>3. c \in Fault
  <2>1. <<>> \in Seq(Hooks) /\ (IF f.fam = "sink" THEN "load" ELSE "next") \in {"load", "next"}
    OBVIOUS
  <2> QED BY <1>1, <1>2, <2>1 DEF Fault
<1>4. /\ c.snap = slots[f.fam] /\ c.at = 1 /\ c.ran = <<>> /\ c.fam = f.fam
      /\ c.pc = (IF f.fam = "sink" THEN "load" ELSE "next")
      /\ c.type = f.type /\ c.ordinal = f.ordinal /\ c.seen = f.seen /\ c.gone = f.gone
  BY <1>1 DEF Fault
<1> HIDE DEF c
<1>5. Walks(c)
  BY <1>2, <1>4 DEF Walks, First
<1>6. Placed(c, errorCounts)
  BY <1>1, <1>4 DEF Sound, Placed
<1>7. UpToDate(c, retired["sink"])
  BY <1>1, <1>2, <1>4 DEF Sound, UpToDate
<1> QED BY <1>1, <1>3, <1>4, <1>5, <1>6, <1>7, MoveInv DEF Sound

LEMMA LoadDefaultEnabledInv ==
  ASSUME PipelineInv, NEW t \in Threads, LoadDefaultEnabled(t)
  PROVE  PipelineInv'
<1> DEFINE f == fault[Top(t)]
           c == [f EXCEPT !.skip = ~defaultEnabled, !.pc = "next"]
<1>1. /\ depth[t] > 0 /\ f.pc = "load" /\ f \in Fault
      /\ Sound(f, errorCounts, retired["sink"])
      /\ fault' = [fault EXCEPT ![Top(t)] = c]
      /\ UNCHANGED <<registryVars, depth, processVars>>
  BY AtOK DEF LoadDefaultEnabled, Become
<1>2. c \in Fault
  BY <1>1 DEF Fault
<1>3. /\ c.snap = f.snap /\ c.at = f.at /\ c.ran = f.ran /\ c.fam = f.fam /\ c.pc = "next"
      /\ c.type = f.type /\ c.ordinal = f.ordinal /\ c.seen = f.seen /\ c.gone = f.gone
      /\ f.snap \in Seq(Hooks)
  BY <1>1 DEF Fault
<1> HIDE DEF c
<1>4. Walks(c)
  <2>1. f.fam = "sink" /\ f.at = 1 /\ f.ran = <<>>
    BY <1>1 DEF Sound, Walks
  <2>2. First(c) \in {1, 2}
    BY DEF First
  <2>3. c.ran = SubSeq(c.snap, First(c), c.at - 1)
    BY <1>3, <2>1, <2>2
  <2> QED BY <1>1, <1>3, <2>3 DEF Sound, Walks
<1>5. Placed(c, errorCounts)
  BY <1>1, <1>3 DEF Sound, Placed
<1>6. UpToDate(c, retired["sink"])
  BY <1>1, <1>3 DEF Sound, UpToDate
<1> QED BY <1>1, <1>2, <1>3, <1>4, <1>5, <1>6, MoveInv DEF Sound

\* One hook more of a stretch of a snapshot.
LEMMA StretchGrows ==
  ASSUME NEW s \in Seq(Hooks), NEW i \in {1, 2}, NEW k \in i..Len(s)
  PROVE  Append(SubSeq(s, i, k - 1), s[k]) = SubSeq(s, i, k)
<1>1. i \in Nat /\ k \in Nat /\ i <= k /\ k <= Len(s)
  OBVIOUS
<1>2. SubSeq(s, i, k - 1) \in Seq(Hooks) /\ s[k] \in Hooks /\ SubSeq(s, i, k) \in Seq(Hooks)
  BY <1>1
<1>3. Len(SubSeq(s, i, k - 1)) = k - i /\ Len(SubSeq(s, i, k)) = k - i + 1
  BY <1>1
<1> DEFINE u == SubSeq(s, i, k - 1)
           v == SubSeq(s, i, k)
<1>4. \A j \in 1..(k - i) : u[j] = v[j]
  BY <1>1
<1>5. v[k - i + 1] = s[k]
  BY <1>1
<1> HIDE DEF u, v
<1>6. Append(u, s[k]) = v
  BY <1>1, <1>2, <1>3, <1>4, <1>5 DEF u, v
<1> QED BY <1>6 DEF u, v

LEMMA CallHookInv ==
  ASSUME PipelineInv, NEW t \in Threads, CallHook(t)
  PROVE  PipelineInv'
<1> DEFINE f    == fault[Top(t)]
           hook == f.snap[f.at]
           c    == [f EXCEPT !.pc = "call", !.ran = Append(@, hook),
                             !.seen = IF f.fam = "sink" /\ hook = Default
                                        THEN errorCounts[f.type] ELSE @]
<1>1. /\ depth[t] > 0 /\ f.pc = "next" /\ f \in Fault
      /\ Sound(f, errorCounts, retired["sink"])
      /\ f.at <= Len(f.snap) /\ ~AtSkipped(f)
      /\ fault' = [fault EXCEPT ![Top(t)] = c]
      /\ UNCHANGED <<registryVars, depth, processVars>>
  BY AtOK DEF CallHook, Become
<1>2. /\ f.snap \in Seq(Hooks) /\ f.ran \in Seq(Hooks) /\ f.at \in 1..Len(f.snap)
      /\ f.skip \in BOOLEAN
  BY <1>1 DEF Fault, Sound, Walks
<1>3. hook \in Hooks /\ Append(f.ran, hook) \in Seq(Hooks)
  BY <1>2
<1>4. f.type \in Types /\ errorCounts[f.type] \in Nat
  BY <1>1 DEF Sound, Placed, PipelineInv, RangesOK
<1>5. c \in Fault
  BY <1>1, <1>3, <1>4 DEF Fault
<1>6. /\ c.snap = f.snap /\ c.at = f.at /\ c.ran = Append(f.ran, hook) /\ c.fam = f.fam
      /\ c.pc = "call" /\ c.skip = f.skip
      /\ c.type = f.type /\ c.ordinal = f.ordinal /\ c.gone = f.gone
      /\ c.seen = (IF f.fam = "sink" /\ hook = Default THEN errorCounts[f.type] ELSE f.seen)
  BY <1>1 DEF Fault
<1> HIDE DEF c
<1>7. Walks(c)
  <2>1. First(c) = First(f) /\ First(f) \in 1..f.at
    BY <1>1, <1>2, <1>6 DEF First, AtSkipped
  <2>2. c.ran = SubSeq(c.snap, First(c), c.at)
    <3>1. f.ran = SubSeq(f.snap, First(f), f.at - 1)
      BY <1>1 DEF Sound, Walks
    <3>2. First(f) \in {1, 2}
      BY DEF First
    <3>3. f.at \in First(f)..Len(f.snap)
      BY <1>2, <2>1, <3>2
    <3>4. Append(SubSeq(f.snap, First(f), f.at - 1), f.snap[f.at])
            = SubSeq(f.snap, First(f), f.at)
      BY <1>2, <3>2, <3>3, StretchGrows, Zenon
    <3> QED BY <1>6, <2>1, <3>1, <3>4
  <2> QED BY <1>1, <1>2, <1>6, <2>1, <2>2 DEF Sound, Walks
<1>8. Placed(c, errorCounts)
  BY <1>1, <1>4, <1>6 DEF Sound, Placed
<1>9. UpToDate(c, retired["sink"])
  BY <1>1, <1>6 DEF Sound, UpToDate
<1> QED BY <1>1, <1>5, <1>6, <1>7, <1>8, <1>9, MoveInv DEF Sound

LEMMA SkipDefaultInv ==
  ASSUME PipelineInv, NEW t \in Threads, SkipDefault(t)
  PROVE  PipelineInv'
<1> DEFINE f == fault[Top(t)]
           c == [f EXCEPT !.at = 2]
<1>1. /\ depth[t] > 0 /\ f.pc = "next" /\ f \in Fault
      /\ Sound(f, errorCounts, retired["sink"])
      /\ f.fam = "sink" /\ f.at = 1 /\ f.skip
      /\ fault' = [fault EXCEPT ![Top(t)] = c]
      /\ UNCHANGED <<registryVars, depth, processVars>>
  BY AtOK DEF SkipDefault, AtSkipped, Become
<1>2. c \in Fault
  BY <1>1 DEF Fault
<1>3. /\ c.snap = f.snap /\ c.at = 2 /\ c.ran = f.ran /\ c.fam = f.fam /\ c.pc = "next"
      /\ c.skip = f.skip
      /\ c.type = f.type /\ c.ordinal = f.ordinal /\ c.seen = f.seen /\ c.gone = f.gone
      /\ f.snap \in Seq(Hooks)
  BY <1>1 DEF Fault
<1> HIDE DEF c
<1>4. Walks(c)
  <2>1. f.snap # <<>> /\ f.ran = SubSeq(f.snap, 2, 0)
    BY <1>1 DEF Sound, Walks, First
  <2>2. c.ran = SubSeq(c.snap, First(c), c.at - 1) /\ c.at \in 1..(Len(c.snap) + 1)
    BY <1>1, <1>3, <2>1 DEF First
  <2> QED BY <1>1, <1>3, <2>2 DEF Sound, Walks
<1>5. Placed(c, errorCounts)
  BY <1>1, <1>3 DEF Sound, Placed
<1>6. UpToDate(c, retired["sink"])
  BY <1>1, <1>3 DEF Sound, UpToDate
<1> QED BY <1>1, <1>2, <1>3, <1>4, <1>5, <1>6, MoveInv DEF Sound

LEMMA HookReturnsInv ==
  ASSUME PipelineInv, NEW t \in Threads, HookReturns(t)
  PROVE  PipelineInv'
<1> DEFINE f == fault[Top(t)]
           c == [f EXCEPT !.pc = "next", !.at = @ + 1]
<1>1. /\ depth[t] > 0 /\ f.pc = "call" /\ f \in Fault
      /\ Sound(f, errorCounts, retired["sink"])
      /\ fault' = [fault EXCEPT ![Top(t)] = c]
      /\ UNCHANGED <<registryVars, depth, processVars>>
  BY AtOK DEF HookReturns, Become
<1>2. c \in Fault
  <2>1. f.at + 1 \in Nat
    BY <1>1 DEF Fault
  <2> QED BY <1>1, <2>1 DEF Fault
<1>3. /\ c.snap = f.snap /\ c.at = f.at + 1 /\ c.ran = f.ran /\ c.fam = f.fam /\ c.pc = "next"
      /\ c.skip = f.skip
      /\ c.type = f.type /\ c.ordinal = f.ordinal /\ c.seen = f.seen /\ c.gone = f.gone
      /\ f.snap \in Seq(Hooks) /\ f.at \in Nat
  BY <1>1 DEF Fault
<1> HIDE DEF c
<1>4. Walks(c)
  <2>1. First(c) = First(f) /\ f.at \in First(f)..Len(f.snap) /\ First(f) \in {1, 2}
        /\ f.ran = SubSeq(f.snap, First(f), f.at)
    BY <1>1, <1>3 DEF First, Sound, Walks
  <2>2. c.ran = SubSeq(c.snap, First(c), c.at - 1) /\ c.at \in 1..(Len(c.snap) + 1)
    <3>1. c.at - 1 = f.at
      BY <1>3
    <3>2. c.ran = SubSeq(c.snap, First(c), c.at - 1)
      BY <1>3, <2>1, <3>1
    <3>3. Len(f.snap) \in Nat /\ f.at \in 1..Len(f.snap)
      BY <1>3, <2>1
    <3>4. f.at + 1 \in 1..(Len(f.snap) + 1)
      BY <3>3
    <3> QED BY <1>3, <3>2, <3>4
  <2> QED BY <1>1, <1>3, <2>2 DEF Sound, Walks
<1>5. Placed(c, errorCounts)
  BY <1>1, <1>3 DEF Sound, Placed
<1>6. UpToDate(c, retired["sink"])
  BY <1>1, <1>3 DEF Sound, UpToDate
<1> QED BY <1>1, <1>2, <1>3, <1>4, <1>5, <1>6, MoveInv DEF Sound

LEMMA AdmitInv ==
  ASSUME PipelineInv, NEW t \in Threads, Admit(t)
  PROVE  PipelineInv'
<1> DEFINE f == fault[Top(t)]
           c == [f EXCEPT !.fam = "sink", !.pc = "snapshot"]
<1>1. /\ depth[t] > 0 /\ f.pc = "throttle" /\ f \in Fault
      /\ Sound(f, errorCounts, retired["sink"])
      /\ fault' = [fault EXCEPT ![Top(t)] = c]
      /\ UNCHANGED <<registryVars, depth, processVars>>
  BY AtOK DEF Admit, Become
<1>2. c \in Fault
  BY <1>1 DEF Fault
<1>3. /\ c.snap = f.snap /\ c.ran = f.ran /\ c.fam = "sink" /\ c.pc = "snapshot"
      /\ c.type = f.type /\ c.ordinal = f.ordinal /\ c.seen = f.seen /\ c.gone = f.gone
  BY <1>1 DEF Fault
<1> HIDE DEF c
<1>4. f.snap = <<>> /\ f.ran = <<>>
  BY <1>1 DEF Sound, Walks
<1>5. Walks(c)
  BY <1>3, <1>4 DEF Walks
<1>6. Placed(c, errorCounts)
  BY <1>1, <1>3 DEF Sound, Placed
<1>7. UpToDate(c, retired["sink"])
  BY <1>1, <1>3, <1>4 DEF Sound, UpToDate
<1> QED BY <1>1, <1>2, <1>3, <1>5, <1>6, <1>7, MoveInv DEF Sound

LEMMA ConstructInv ==
  ASSUME PipelineInv, NEW t \in Threads, NEW ty \in Types, Construct(t, ty)
  PROVE  PipelineInv'
<1> DEFINE a == New(t)
           c == [NoFault EXCEPT !.pc = "snapshot", !.type = ty, !.gone = retired["sink"]]
<1>1. /\ begun[ty] < MaxFaults /\ begun' = [begun EXCEPT ![ty] = @ + 1]
      /\ depth[t] < MaxDepth /\ depth' = [depth EXCEPT ![t] = @ + 1]
      /\ fault' = [fault EXCEPT ![a] = c]
      /\ UNCHANGED <<slots, holder, nextId, call, issued, retired, errorCounts, defaultEnabled>>
  BY DEF Construct, Push, registryVars
<1>2. /\ RangesOK /\ depth \in [Threads -> 0..MaxDepth] /\ begun \in [Types -> 0..MaxFaults]
      /\ errorCounts \in [Types -> Nat] /\ fault \in [Activation -> Fault]
      /\ MaxDepth \in Nat /\ MaxFaults \in Nat
  BY BoundsAssumption DEF PipelineInv, RangesOK
<1>3. a \in Activation /\ a[1] = t /\ a[2] = depth[t] + 1
  BY <1>1, <1>2, NewOK
<1>4. fault[a] = NoFault /\ call[a] = Registry!Idle
  BY <1>2, <1>3 DEF PipelineInv, Stacked
<1>5. RegistryProofs!Inv'
  BY <1>1, RegistryStep DEF PipelineInv, registryVars
<1>6. Sound(c, errorCounts, retired["sink"])
  <2>1. retired["sink"] \subseteq Hooks /\ Default \notin retired["sink"]
    BY VectorsOK DEF PipelineInv
  <2>2. <<>> \in Seq(Hooks)
    OBVIOUS
  <2>3. c \in Fault
    BY <2>1, <2>2 DEF Fault, NoFault
  <2>4. /\ c.pc = "snapshot" /\ c.type = ty /\ c.gone = retired["sink"] /\ c.fam = "capture"
        /\ c.snap = <<>> /\ c.ran = <<>> /\ c.ordinal = 0 /\ c.seen = 0
    BY DEF NoFault
  <2> HIDE DEF c
  <2>5. Walks(c) /\ UpToDate(c, retired["sink"])
    BY <2>1, <2>4 DEF Walks, UpToDate
  <2>6. Placed(c, errorCounts)
    BY <1>2, <2>4 DEF Placed
  <2> QED BY <2>3, <2>5, <2>6 DEF Sound
<1>7. /\ fault'[a] = c /\ c.pc = "snapshot" /\ c.type = ty /\ c.ordinal = 0
      /\ \A b \in Activation : b # a => fault'[b] = fault[b]
  BY <1>1, <1>2, <1>3 DEF NoFault
<1> HIDE DEF c, a
<1>8. RangesOK'
  <2>1. c \in Fault
    BY <1>6 DEF Sound
  <2>2. depth' \in [Threads -> 0..MaxDepth] /\ begun' \in [Types -> 0..MaxFaults]
    BY <1>1, <1>2
  <2> QED BY <1>1, <1>2, <2>1, <2>2 DEF RangesOK
<1>9. Stacked'
  <2>1. \A b \in Activation : b[2] > depth'[b[1]] => b # a /\ b[2] > depth[b[1]]
    BY <1>1, <1>2, <1>3 DEF Activation
  <2> QED BY <1>1, <1>4, <1>7, <2>1 DEF PipelineInv, Stacked
<1>10. AllSound'
  BY <1>1, <1>6, <1>7 DEF PipelineInv, AllSound
<1>11. Counting'
  <2> SUFFICES ASSUME NEW ux \in Types
               PROVE  /\ IsFiniteSet(Uncounted(ux)')
                      /\ begun'[ux] = errorCounts[ux] + Cardinality(Uncounted(ux)')
    BY <1>1 DEF Counting
  <2>1. /\ IsFiniteSet(Uncounted(ux))
        /\ begun[ux] = errorCounts[ux] + Cardinality(Uncounted(ux))
    BY DEF PipelineInv, Counting
  <2>2. CASE ux = ty
    <3>1. a \notin Uncounted(ux)
      BY <1>4 DEF Uncounted, NoFault
    <3>2. Uncounted(ux)' = Uncounted(ux) \cup {a}
      BY <1>3, <1>7, <2>2 DEF Uncounted
    <3>3. /\ IsFiniteSet(Uncounted(ux)')
          /\ Cardinality(Uncounted(ux)') = Cardinality(Uncounted(ux)) + 1
      BY <2>1, <3>1, <3>2, FS_AddElement
    <3>4. Cardinality(Uncounted(ux)) \in Nat /\ begun'[ux] = begun[ux] + 1
      BY <1>1, <1>2, <2>1, <2>2, FS_CardinalityType
    <3> QED BY <1>2, <2>1, <3>3, <3>4
  <2>3. CASE ux # ty
    <3>1. Uncounted(ux)' = Uncounted(ux)
      BY <1>4, <1>7, <2>3 DEF Uncounted, NoFault
    <3> QED BY <1>1, <1>2, <2>1, <2>3, <3>1
  <2> QED BY <2>2, <2>3
<1> QED BY <1>5, <1>8, <1>9, <1>10, <1>11 DEF PipelineInv

LEMMA RecordErrorInv ==
  ASSUME PipelineInv, NEW t \in Threads, RecordError(t)
  PROVE  PipelineInv'
<1> DEFINE a  == Top(t)
           f  == fault[a]
           ty == f.type
           c  == [NoFault EXCEPT !.pc = "throttle", !.type = ty, !.gone = f.gone,
                                 !.ordinal = errorCounts[ty] + 1]
<1>1. /\ depth[t] > 0 /\ a \in Activation /\ f.pc = "next" /\ f.fam = "capture" /\ f \in Fault
      /\ Sound(f, errorCounts, retired["sink"])
  BY AtOK DEF RecordError, LoopDone
<1>2. /\ errorCounts' = [errorCounts EXCEPT ![ty] = @ + 1]
      /\ fault' = [fault EXCEPT ![a] = c]
      /\ UNCHANGED <<slots, holder, nextId, call, issued, retired, depth, defaultEnabled, begun>>
  BY DEF RecordError, Become, registryVars
<1>3. /\ errorCounts \in [Types -> Nat] /\ fault \in [Activation -> Fault]
      /\ begun \in [Types -> 0..MaxFaults] /\ MaxFaults \in Nat
  BY BoundsAssumption DEF PipelineInv, RangesOK
<1>4. ty \in Types /\ f.ordinal = 0 /\ errorCounts[ty] \in Nat
  BY <1>1, <1>3 DEF Sound, Placed
<1>5. errorCounts' \in [Types -> Nat] /\ \A ux \in Types : errorCounts[ux] <= errorCounts'[ux]
  <2>1. \A n \in Nat : n + 1 \in Nat /\ n <= n + 1 /\ n <= n
    OBVIOUS
  <2> QED BY <1>2, <1>3, <1>4, <2>1
<1>6. Sound(c, errorCounts', retired["sink"])
  <2>1. f.gone \subseteq retired["sink"] /\ Default \notin f.gone /\ f.gone \subseteq Hooks
    BY <1>1 DEF Sound, UpToDate, Fault
  <2>2. <<>> \in Seq(Hooks) /\ errorCounts[ty] + 1 \in Nat
    BY <1>4
  <2>3. c \in Fault
    BY <1>4, <2>1, <2>2 DEF Fault, NoFault
  <2>4. /\ c.pc = "throttle" /\ c.type = ty /\ c.gone = f.gone /\ c.fam = "capture"
        /\ c.snap = <<>> /\ c.ran = <<>> /\ c.ordinal = errorCounts[ty] + 1 /\ c.seen = 0
    BY DEF NoFault
  <2>5. errorCounts'[ty] = errorCounts[ty] + 1
    BY <1>2, <1>3, <1>4
  <2> HIDE DEF c
  <2>6. Walks(c) /\ UpToDate(c, retired["sink"])
    BY <2>1, <2>4 DEF Walks, UpToDate
  <2>7. Placed(c, errorCounts')
    BY <1>4, <2>4, <2>5 DEF Placed
  <2> QED BY <2>3, <2>6, <2>7 DEF Sound
<1>7. /\ fault'[a] = c /\ c.pc = "throttle" /\ c.type = ty /\ c.ordinal # 0
      /\ \A b \in Activation : b # a => fault'[b] = fault[b]
  BY <1>1, <1>2, <1>3, <1>4 DEF NoFault
<1> HIDE DEF c, a
<1>8. RegistryProofs!Inv'
  BY <1>2, RegistryStep DEF PipelineInv, registryVars
<1>9. RangesOK'
  <2>1. c \in Fault
    BY <1>6 DEF Sound
  <2> QED BY <1>2, <1>3, <1>5, <2>1 DEF PipelineInv, RangesOK
<1>10. Stacked'
  <2>1. f # NoFault
    BY <1>1 DEF NoFault
  <2>2. ~(a[2] > depth[a[1]]) /\ call[a] = Registry!Idle
    BY <1>1, <2>1 DEF PipelineInv, Stacked
  <2> QED BY <1>2, <1>7, <2>2 DEF PipelineInv, Stacked
<1>11. AllSound'
  <2>1. ASSUME NEW b \in Activation, b # a
        PROVE  Sound(fault[b], errorCounts', retired["sink"])
    <3>1. Sound(fault[b], errorCounts, retired["sink"])
      BY DEF PipelineInv, AllSound
    <3> QED BY <1>3, <1>5, <3>1, SoundStays
  <2> QED BY <1>2, <1>6, <1>7, <2>1 DEF AllSound
<1>12. Counting'
  <2> SUFFICES ASSUME NEW ux \in Types
               PROVE  /\ IsFiniteSet(Uncounted(ux)')
                      /\ begun[ux] = errorCounts'[ux] + Cardinality(Uncounted(ux)')
    BY <1>2 DEF Counting
  <2>1. /\ IsFiniteSet(Uncounted(ux))
        /\ begun[ux] = errorCounts[ux] + Cardinality(Uncounted(ux))
    BY DEF PipelineInv, Counting
  <2>2. CASE ux = ty
    <3>1. a \in Uncounted(ux)
      BY <1>1, <1>4, <2>2 DEF Uncounted
    <3>2. Uncounted(ux)' = Uncounted(ux) \ {a}
      BY <1>7, <2>2 DEF Uncounted
    <3>3. /\ IsFiniteSet(Uncounted(ux)')
          /\ Cardinality(Uncounted(ux)') = Cardinality(Uncounted(ux)) - 1
      BY <2>1, <3>1, <3>2, FS_RemoveElement
    <3>4. Cardinality(Uncounted(ux)) \in Nat /\ errorCounts'[ux] = errorCounts[ux] + 1
      BY <1>2, <1>3, <2>1, <2>2, FS_CardinalityType
    <3> QED BY <1>3, <2>1, <3>3, <3>4
  <2>3. CASE ux # ty
    <3>1. Uncounted(ux)' = Uncounted(ux)
      BY <1>7, <2>3 DEF Uncounted
    <3> QED BY <1>2, <1>3, <2>1, <2>3, <3>1
  <2> QED BY <2>2, <2>3
<1> QED BY <1>8, <1>9, <1>10, <1>11, <1>12 DEF PipelineInv

\* A construction that returns has been counted.
LEMMA ReturnInv ==
  ASSUME PipelineInv, NEW t \in Threads, depth[t] > 0, Return(t),
         fault[Top(t)].pc = "throttle" \/ fault[Top(t)].fam = "sink"
  PROVE  PipelineInv'
<1> DEFINE a == Top(t)
<1>1. /\ a \in Activation /\ a[1] = t /\ a[2] = depth[t]
      /\ depth \in [Threads -> 0..MaxDepth] /\ MaxDepth \in Nat
      /\ fault \in [Activation -> Fault]
  BY TopOK, BoundsAssumption DEF PipelineInv, RangesOK, Top
<1>2. /\ fault' = [fault EXCEPT ![a] = NoFault]
      /\ depth' = [depth EXCEPT ![t] = @ - 1]
      /\ UNCHANGED <<slots, holder, nextId, call, issued, retired, errorCounts, defaultEnabled,
                     begun>>
  BY DEF Return, Become, Pop, registryVars, processVars
<1>3. fault'[a] = NoFault /\ \A b \in Activation : b # a => fault'[b] = fault[b]
  BY <1>1, <1>2
<1>4. Sound(fault[a], errorCounts, retired["sink"])
  BY <1>1 DEF PipelineInv, AllSound
<1>5. fault[a].ordinal # 0 /\ fault[a] # NoFault
  <2>1. fault[a].pc # "none"
    BY <1>4 DEF Sound, Walks, NoFault
  <2> QED BY <1>4, <2>1 DEF Sound, Placed, NoFault
<1> HIDE DEF a
<1>6. RegistryProofs!Inv'
  BY <1>2, RegistryStep DEF PipelineInv, registryVars
<1>7. RangesOK'
  <2>1. NoFault \in Fault
    BY NoFaultSound DEF Sound
  <2>2. depth' \in [Threads -> 0..MaxDepth]
    BY <1>1, <1>2
  <2> QED BY <1>1, <1>2, <2>1, <2>2 DEF PipelineInv, RangesOK
<1>8. Stacked'
  <2>1. call[a] = Registry!Idle
    BY <1>1, <1>5 DEF PipelineInv, Stacked
  <2>2. ASSUME NEW b \in Activation, b # a, b[2] > depth'[b[1]]
        PROVE  b[2] > depth[b[1]]
    <3>1. b = <<b[1], b[2]>> /\ b[1] \in Threads /\ b[2] \in Nat
      BY DEF Activation
    <3>2. CASE b[1] = t
      <4>1. b[2] # depth[t]
        BY <2>2, <3>1, <3>2 DEF Top, a
      <4> QED BY <1>1, <1>2, <2>2, <3>1, <3>2, <4>1
    <3>3. CASE b[1] # t
      BY <1>1, <1>2, <2>2, <3>1, <3>3
    <3> QED BY <3>2, <3>3
  <2> QED BY <1>2, <1>3, <2>1, <2>2 DEF PipelineInv, Stacked
<1>9. AllSound'
  BY <1>2, <1>3, NoFaultSound DEF PipelineInv, AllSound
<1>10. Counting'
  <2> SUFFICES ASSUME NEW ty \in Types PROVE Uncounted(ty)' = Uncounted(ty)
    BY <1>2 DEF PipelineInv, Counting
  <2> QED BY <1>3, <1>5 DEF Uncounted, NoFault
<1> QED BY <1>6, <1>7, <1>8, <1>9, <1>10 DEF PipelineInv

LEMMA SuppressInv ==
  ASSUME PipelineInv, NEW t \in Threads, Suppress(t)
  PROVE  PipelineInv'
BY ReturnInv DEF Suppress, At

LEMMA FinishInv ==
  ASSUME PipelineInv, NEW t \in Threads, Finish(t)
  PROVE  PipelineInv'
BY ReturnInv DEF Finish, LoopDone, At

LEMMA NextPipeline == PipelineInv /\ [Next]_vars => PipelineInv'
<1> SUFFICES ASSUME PipelineInv, [Next]_vars PROVE PipelineInv'
  OBVIOUS
<1>1. ASSUME NEW t \in Threads, NEW enabled \in BOOLEAN, SetDefaultHookEnabled(t, enabled)
      PROVE  PipelineInv'
  <2>1. /\ UNCHANGED <<slots, holder, nextId, call, issued, retired, depth, fault, errorCounts,
                       begun>>
        /\ defaultEnabled' \in BOOLEAN
    BY <1>1 DEF SetDefaultHookEnabled, registryVars
  <2>2. RegistryProofs!Inv'
    BY <2>1, RegistryStep DEF PipelineInv, registryVars
  <2>3. AllSound' /\ Counting'
    BY <2>1, ConstructionsStay
  <2> QED BY <2>1, <2>2, <2>3 DEF PipelineInv, RangesOK, Stacked
<1>2. CASE UNCHANGED vars
  <2>1. UNCHANGED <<slots, holder, nextId, call, issued, retired, depth, fault, errorCounts,
                    defaultEnabled, begun>>
    BY <1>2 DEF vars, registryVars, processVars
  <2>2. RegistryProofs!Inv'
    BY <2>1, RegistryStep DEF PipelineInv, registryVars
  <2>3. AllSound' /\ Counting'
    BY <2>1, ConstructionsStay
  <2> QED BY <2>1, <2>2, <2>3 DEF PipelineInv, RangesOK, Stacked
<1> QED BY <1>1, <1>2, BeginRegistryCallInv, LockRegistryInv, EndRegistryCallInv, ConstructInv,
           TakeSnapshotInv, LoadDefaultEnabledInv, CallHookInv, SkipDefaultInv, HookReturnsInv,
           RecordErrorInv, AdmitInv, SuppressInv, FinishInv
        DEF Next, Wait, Proceed, HookPanics

-----------------------------------------------------------------------------
\* What follows of it.

\* The pipeline's bookkeeping, at every moment: who is in which call, how far each
\* fan-out is, and which hooks it may still reach.
THEOREM PipelineInvariant == Spec => []PipelineInv
BY InitPipeline, NextPipeline, PTL DEF Spec

LEMMA PipelineTypeOK == PipelineInv => TypeOK
<1> SUFFICES ASSUME PipelineInv PROVE TypeOK
  OBVIOUS
<1>1. Registry!TypeOK
  BY DEF PipelineInv, RegistryProofs!Inv, RegistryProofs!TypeOK, Registry!TypeOK,
         RegistryProofs!Family, Registry!Family, RegistryProofs!Ids, Registry!Ids,
         RegistryProofs!Builtin, Registry!Builtin, RegistryProofs!Call, Registry!Call
<1> QED BY <1>1 DEF PipelineInv, RangesOK, Stacked, TypeOK

\* record_error counts every construction once, whichever threads construct at the
\* same time, and the occurrence that the default hook logs includes the fault itself.
THEOREM CountsAreRight == Spec => []Inv
<1>1. PipelineInv => Inv
  <2> SUFFICES ASSUME PipelineInv PROVE Inv
    OBVIOUS
  <2>1. CountsConstructions
    BY DEF PipelineInv, Counting, CountsConstructions
  <2>2. OccurrenceIncludesSelf
    <3> SUFFICES ASSUME NEW a \in Activation, fault[a].seen # 0
                 PROVE  /\ fault[a].ordinal # 0 /\ fault[a].ordinal <= fault[a].seen
                        /\ fault[a].seen <= errorCounts[fault[a].type]
      BY DEF OccurrenceIncludesSelf
    <3>1. Sound(fault[a], errorCounts, retired["sink"])
      BY DEF PipelineInv, AllSound
    <3>2. fault[a].pc # "none"
      BY <3>1 DEF Sound, Walks, NoFault
    <3> QED BY <3>1, <3>2 DEF Sound, Placed
  <2> QED BY <2>1, <2>2, PipelineTypeOK DEF Inv
<1> QED BY <1>1, PipelineInvariant, PTL

\* A sink whose remove_error_hook has returned, or that clear_error_hooks has taken
\* out, is not called for a fault constructed afterwards.
THEOREM RemovedIsNotCalled == Spec => []NoCallAfterRemoval
<1>1. PipelineInv => NoCallAfterRemoval
  <2> SUFFICES ASSUME PipelineInv, NEW a \in Activation, fault[a].fam = "sink",
                      NEW i \in 1..Len(fault[a].ran)
               PROVE  fault[a].ran[i] \notin fault[a].gone
    BY DEF NoCallAfterRemoval
  <2> DEFINE c == fault[a]
  <2>1. Sound(c, errorCounts, retired["sink"])
    BY DEF PipelineInv, AllSound
  <2>2. /\ c.snap \in Seq(Hooks) /\ c.ran \in Seq(Hooks) /\ c.at \in Nat
        /\ \A k \in 1..Len(c.snap) : c.snap[k] \notin c.gone
    BY <2>1 DEF Sound, Fault, UpToDate
  <2>3. First(c) \in {1, 2}
    BY DEF First
  <2>4. c.ran # <<>>
    OBVIOUS
  <2>5. PICK n \in Nat : n <= Len(c.snap) /\ c.ran = SubSeq(c.snap, First(c), n)
    <3>1. c.pc \in {"next", "call"}
      <4>1. c.pc \in {"none", "snapshot", "load", "next", "call", "throttle"}
        BY <2>1 DEF Sound, Fault, Walks, NoFault
      <4>2. c.pc = "none" => c.ran = <<>>
        BY <2>1 DEF Sound, Walks, NoFault
      <4>3. c.pc \in {"snapshot", "throttle", "load"} => c.ran = <<>>
        BY <2>1 DEF Sound, Walks
      <4> QED BY <2>4, <4>1, <4>2, <4>3
    <3>2. CASE c.pc = "next"
      <4>1. c.at \in 1..(Len(c.snap) + 1) /\ c.ran = SubSeq(c.snap, First(c), c.at - 1)
        BY <2>1, <3>2 DEF Sound, Walks
      <4>2. c.at - 1 \in Nat /\ c.at - 1 <= Len(c.snap)
        BY <2>2, <4>1
      <4> QED BY <4>1, <4>2
    <3>3. CASE c.pc = "call"
      <4>1. c.at \in First(c)..Len(c.snap) /\ c.ran = SubSeq(c.snap, First(c), c.at)
        BY <2>1, <3>3 DEF Sound, Walks
      <4>2. c.at <= Len(c.snap)
        BY <2>2, <2>3, <4>1
      <4> QED BY <2>2, <4>1, <4>2
    <3> QED BY <3>1, <3>2, <3>3
  <2>6. PICK k \in 1..Len(c.snap) : c.ran[i] = c.snap[k]
    <3>1. i + First(c) - 1 \in 1..Len(c.snap) /\ c.ran[i] = c.snap[i + First(c) - 1]
      BY <2>2, <2>3, <2>5
    <3> QED BY <3>1
  <2> QED BY <2>2, <2>6
<1> QED BY <1>1, PipelineInvariant, PTL

\* invoke fans a fault out to all hooks of its snapshot, but for the default hook if
\* that is disabled, though hooks panic, construct faults and change the registries.
THEOREM FanOutIsComplete == Spec => FansOutToAll
<1> DEFINE Complete ==
      \A a \in Activation :
        fault[a].fam = "sink" /\ fault'[a].pc = "none" => CalledAll(fault[a])
<1>1. ASSUME PipelineInv, [Next]_vars PROVE Complete
  <2> SUFFICES ASSUME NEW a \in Activation, fault[a].fam = "sink", fault'[a].pc = "none"
               PROVE  CalledAll(fault[a])
    OBVIOUS
  <2> DEFINE c == fault[a]
  <2>1. Sound(c, errorCounts, retired["sink"]) /\ c \in Fault
    BY <1>1 DEF PipelineInv, AllSound, Sound
  <2>2. c.pc # "none"
    BY <2>1 DEF Sound, Walks, NoFault
  <2>3. PICK t \in Threads : a = Top(t) /\ Finish(t)
    <3>1. fault'[a] # fault[a] /\ fault \in [Activation -> Fault]
      BY <1>1, <2>2 DEF PipelineInv, RangesOK
    <3>2. Next
      BY <1>1, <3>1 DEF vars
    <3>3. PICK t \in Threads :
            \/ \E ty \in Types : Construct(t, ty)
            \/ TakeSnapshot(t) \/ LoadDefaultEnabled(t) \/ CallHook(t) \/ SkipDefault(t)
            \/ HookReturns(t) \/ RecordError(t) \/ Admit(t) \/ Suppress(t) \/ Finish(t)
      BY <3>1, <3>2
         DEF Next, Wait, Proceed, HookPanics, BeginRegistryCall, LockRegistry, EndRegistryCall,
             SetDefaultHookEnabled
    <3>4. ASSUME NEW ty \in Types, Construct(t, ty) PROVE FALSE
      <4>1. fault' = [fault EXCEPT ![New(t)] = [NoFault EXCEPT !.pc = "snapshot", !.type = ty,
                                                               !.gone = retired["sink"]]]
        BY <3>4 DEF Construct
      <4> QED BY <2>2, <3>1, <4>1 DEF NoFault
    <3>5. ASSUME NEW d, Become(t, d), d.pc # "none" PROVE FALSE
      BY <2>2, <3>1, <3>5 DEF Become
    <3>7. CASE TakeSnapshot(t)
      <4>1. fault[Top(t)] \in Fault
        BY <1>1, <3>7, AtOK DEF TakeSnapshot
      <4> QED BY <3>5, <3>7, <4>1 DEF TakeSnapshot, Fault
    <3>8. CASE LoadDefaultEnabled(t)
      <4>1. fault[Top(t)] \in Fault
        BY <1>1, <3>8, AtOK DEF LoadDefaultEnabled
      <4> QED BY <3>5, <3>8, <4>1 DEF LoadDefaultEnabled, Fault
    <3>9. CASE CallHook(t)
      <4>1. fault[Top(t)] \in Fault
        BY <1>1, <3>9, AtOK DEF CallHook
      <4> QED BY <3>5, <3>9, <4>1 DEF CallHook, Fault
    <3>10. CASE SkipDefault(t)
      <4>1. fault[Top(t)] \in Fault /\ fault[Top(t)].pc = "next"
        BY <1>1, <3>10, AtOK DEF SkipDefault
      <4> QED BY <3>5, <3>10, <4>1 DEF SkipDefault, Fault
    <3>11. CASE HookReturns(t)
      <4>1. fault[Top(t)] \in Fault
        BY <1>1, <3>11, AtOK DEF HookReturns
      <4> QED BY <3>5, <3>11, <4>1 DEF HookReturns, Fault
    <3>12. CASE RecordError(t)
      BY <3>5, <3>12 DEF RecordError, NoFault
    <3>13. CASE Admit(t)
      <4>1. fault[Top(t)] \in Fault
        BY <1>1, <3>13, AtOK DEF Admit
      <4> QED BY <3>5, <3>13, <4>1 DEF Admit, Fault
    <3>14. CASE Suppress(t)
      <4>1. a = Top(t)
        BY <3>1, <3>14 DEF Suppress, Return, Become
      <4>2. c.pc = "throttle"
        BY <3>14, <4>1 DEF Suppress, At
      <4> QED BY <2>1, <2>2, <4>2 DEF Sound, Placed, Walks
    <3>15. CASE Finish(t)
      BY <3>1, <3>15 DEF Finish, Return, Become
    <3> QED BY <3>3, <3>4, <3>7, <3>8, <3>9, <3>10, <3>11, <3>12, <3>13, <3>14, <3>15
  <2>4. c.pc = "next" /\ c.at > Len(c.snap)
    BY <2>3 DEF Finish, LoopDone, At
  <2>5. /\ c.snap \in Seq(Hooks) /\ c.snap # <<>> /\ c.at = Len(c.snap) + 1
        /\ \A i \in 1..Len(c.snap) : c.snap[i] = Default <=> i = 1
        /\ c.ran = SubSeq(c.snap, First(c), Len(c.snap))
    BY <2>1, <2>4 DEF Sound, Walks, Fault
  <2>6. CASE ~c.skip
    BY <2>5, <2>6 DEF CalledAll, First
  <2>7. CASE c.skip
    <3>1. c.ran = SubSeq(c.snap, 2, Len(c.snap))
      BY <2>5, <2>7 DEF First
    <3>2. \A i \in 1..Len(c.ran) : c.ran[i] = c.snap[i + 1] /\ i + 1 \in 1..Len(c.snap) /\ i + 1 # 1
      BY <2>5, <3>1
    <3>3. c.snap[1] = Default
      BY <2>5
    <3>4. <<c.snap[1]>> \o c.ran = c.snap
      BY <2>5, <3>1
    <3>5. <<Default>> \o c.ran = c.snap
      BY <3>3, <3>4, Zenon
    <3>6. \A i \in 1..Len(c.ran) : c.ran[i] # Default
      BY <2>5, <3>2
    <3> QED BY <2>7, <3>5, <3>6 DEF CalledAll
  <2> QED BY <2>6, <2>7
<1>2. PipelineInv /\ [Next]_vars => [Complete]_vars
  BY <1>1
<1> QED BY <1>2, PipelineInvariant, PTL DEF Spec, FansOutToAll

-----------------------------------------------------------------------------
\* The throttle.

\* One more window is one more limit.
LEMMA OneMore ==
  ASSUME NEW m \in Nat, NEW w \in Nat, w > 0
  PROVE  m * w = m * (w - 1) + m /\ m * (w - 1) \in Nat /\ m * w \in Nat
OBVIOUS

LEMMA InitLimiter == LimiterInit => LimiterInv
<1>1. SUFFICES ASSUME LimiterInit PROVE LimiterInv
  OBVIOUS
<1>2. LimiterTypeOK
  BY <1>1, TimeAssumption, LimitAssumption DEF LimiterInit, LimiterTypeOK, NoWindow, NoAsk
<1>3. Ledger /\ ReadingsPast
  BY <1>1, TimeAssumption DEF LimiterInit, Ledger, ReadingsPast, NoWindow, NoAsk
<1>4. QED
  BY <1>2, <1>3 DEF LimiterInv

LEMMA QuietStepInv ==
  ASSUME LimiterInv,
         \/ Tick
         \/ \E n \in 0..MaxLimit : SetThrottle(n)
         \/ \E t \in Askers, k \in Keys : ReadLimit(t, k)
         \/ \E t \in Askers : ReadClock(t)
         \/ \E t \in Askers : Unlimited(t)
  PROVE  LimiterInv'
<1> USE DEF LimiterInv
<1>1. now \in Nat /\ now' \in Nat /\ now <= now'
  BY TimeAssumption DEF LimiterTypeOK, Tick, SetThrottle, ReadLimit, ReadClock, Unlimited
<1>2. UNCHANGED <<window, admitted, windows>>
  BY DEF Tick, SetThrottle, ReadLimit, ReadClock, Unlimited
<1>3. \A k \in Keys : window[k].start \in Nat
  BY DEF LimiterTypeOK
<1>4. Ledger'
  BY <1>1, <1>2, <1>3 DEF Ledger
<1>5. CASE Tick
  <2>1. LimiterTypeOK'
    BY <1>5, TimeAssumption DEF Tick, LimiterTypeOK
  <2>2. ReadingsPast'
    BY <1>1, <1>5 DEF Tick, ReadingsPast, LimiterTypeOK
  <2>3. QED
    BY <1>4, <2>1, <2>2
<1>6. ASSUME NEW n \in 0..MaxLimit, SetThrottle(n)
      PROVE  LimiterInv'
  BY <1>4, <1>6 DEF SetThrottle, LimiterTypeOK, ReadingsPast
<1>7. ASSUME NEW t \in Askers, NEW k \in Keys, ReadLimit(t, k)
      PROVE  LimiterInv'
  <2>1. LimiterTypeOK'
    BY <1>7, TimeAssumption, SMTT(30) DEF ReadLimit, LimiterTypeOK
  <2>2. ReadingsPast'
    BY <1>1, <1>7 DEF ReadLimit, ReadingsPast, LimiterTypeOK
  <2>3. QED
    BY <1>4, <2>1, <2>2
<1>8. ASSUME NEW t \in Askers, ReadClock(t)
      PROVE  LimiterInv'
  <2>1. LimiterTypeOK'
    BY <1>8, TimeAssumption DEF ReadClock, LimiterTypeOK
  <2>2. ReadingsPast'
    BY <1>1, <1>8 DEF ReadClock, ReadingsPast, LimiterTypeOK
  <2>3. QED
    BY <1>4, <2>1, <2>2
<1>9. ASSUME NEW t \in Askers, Unlimited(t)
      PROVE  LimiterInv'
  <2>1. LimiterTypeOK'
    BY <1>9, TimeAssumption, LimitAssumption DEF Unlimited, Answered, NoAsk, LimiterTypeOK
  <2>2. ReadingsPast'
    BY <1>1, <1>9 DEF Unlimited, Answered, NoAsk, ReadingsPast, LimiterTypeOK
  <2>3. QED
    BY <1>4, <2>1, <2>2
<1>10. QED
  BY <1>5, <1>6, <1>7, <1>8, <1>9

\* A decision of over_budget under the mutex: the key's window w is the one
\* there was or a fresh one, and it takes extra (0 or 1) more admissions.
LEMMA DecisionInv ==
  ASSUME LimiterInv, NEW t \in Askers, SuppressCall(t) \/ AdmitCall(t)
  PROVE  LimiterInv'
<1> DEFINE k    == ask[t].key
           at   == ask[t].now
           old  == window[k]
           w    == Current(old, at)
           n    == windows[k]
<1>1. /\ k \in Keys /\ at \in 0..MaxTime /\ at <= now /\ now \in Nat
      /\ ask[t].limit \in 0..MaxLimit
      /\ old \in [open : BOOLEAN, start : 0..MaxTime, count : 0..MaxLimit]
      /\ n \in Nat /\ admitted[k] \in Seq(0..MaxTime)
  BY TimeAssumption DEF LimiterInv, LimiterTypeOK, ReadingsPast
<1>2. /\ w \in [open : BOOLEAN, start : 0..MaxTime, count : 0..MaxLimit]
      /\ w.open
      /\ w.start <= now
  BY <1>1, LimitAssumption DEF Current, Expired, Opened, LimiterInv, Ledger
<1>3. /\ windows' = [windows EXCEPT ![k] = IF Expired(old, at) THEN @ + 1 ELSE @]
      /\ UNCHANGED <<now, limit>>
      /\ Answered(t)
  BY DEF SuppressCall, AdmitCall
<1>4. ask' \in [Askers -> [pc : {"idle", "clock", "mutex"}, key : Keys,
                            limit : 0..MaxLimit, now : 0..MaxTime]]
  BY <1>1, <1>3, TimeAssumption, LimitAssumption DEF Answered, NoAsk, LimiterInv, LimiterTypeOK
<1>5. ReadingsPast'
  BY <1>1, <1>3 DEF Answered, NoAsk, LimiterInv, ReadingsPast, LimiterTypeOK
<1>6. /\ windows'[k] \in Nat /\ windows'[k] > 0
      /\ Second * (windows'[k] - 1) <= w.start
      /\ Len(admitted[k]) <= MaxLimit * (windows'[k] - 1) + w.count
  <2>0. /\ old.open <=> n > 0
        /\ n > 0 => /\ Second * (n - 1) <= old.start
                    /\ Len(admitted[k]) <= MaxLimit * (n - 1) + old.count
        /\ n = 0 => Len(admitted[k]) = 0
    BY <1>1 DEF LimiterInv, Ledger
  <2>1. CASE ~Expired(old, at)
    BY <1>1, <1>3, <2>0, <2>1 DEF LimiterInv, LimiterTypeOK, Expired, Current
  <2>2. CASE Expired(old, at)
    <3>1. windows'[k] = n + 1 /\ w = Opened(at)
      BY <1>1, <1>3, <2>2 DEF LimiterInv, LimiterTypeOK, Current
    <3>2. CASE n = 0
      BY <1>1, <2>0, <3>1, <3>2, LimitAssumption, SecondAssumption DEF Opened
    <3>3. CASE n > 0
      <4>1. at >= old.start + Second
        BY <1>1, <2>0, <2>2, <3>3, SecondAssumption DEF Expired, Elapsed
      <4> DEFINE s0 == Second * (n - 1)
                 s1 == Second * n
                 m0 == MaxLimit * (n - 1)
                 m1 == MaxLimit * n
      <4>2. s1 = s0 + Second /\ s0 \in Nat /\ s0 <= old.start
        BY <1>1, <2>0, <3>3, OneMore, SecondAssumption
      <4>3. m1 = m0 + MaxLimit /\ m0 \in Nat /\ Len(admitted[k]) <= m0 + old.count
        BY <1>1, <2>0, <3>3, OneMore, LimitAssumption
      <4> HIDE DEF s0, s1, m0, m1
      <4>4. Len(admitted[k]) <= m1
        <5>1. Len(admitted[k]) \in Nat /\ old.count \in Nat /\ old.count <= MaxLimit
          BY <1>1, LimitAssumption
        <5>2. QED
          BY <4>3, <5>1, LimitAssumption
      <4>5. s1 <= at
        <5>1. old.start \in Nat /\ at \in Nat
          BY <1>1, TimeAssumption
        <5>2. QED
          BY <4>1, <4>2, <5>1, SecondAssumption
      <4> USE DEF s0, s1, m0, m1
      <4>6. windows'[k] - 1 = n /\ w.start = at /\ w.count = 0
        BY <1>1, <3>1 DEF Opened
      <4>7. MaxLimit * n \in Nat
        BY <1>1, <3>3, OneMore, LimitAssumption
      <4>8. QED
        BY <1>1, <3>1, <4>4, <4>5, <4>6, <4>7
    <3>4. QED
      BY <1>1, <3>2, <3>3
  <2>3. QED
    BY <2>1, <2>2
<1>7. windows' \in [Keys -> Nat]
  BY <1>1, <1>3 DEF LimiterInv, LimiterTypeOK
<1>8. CASE SuppressCall(t)
  <2>1. window' = [window EXCEPT ![k] = w] /\ UNCHANGED admitted
    BY <1>8 DEF SuppressCall
  <2>2. LimiterTypeOK'
    BY <1>1, <1>2, <1>3, <1>4, <1>7, <2>1 DEF LimiterInv, LimiterTypeOK
  <2>3. Ledger'
    BY <1>1, <1>2, <1>3, <1>6, <2>1, SMTT(30) DEF LimiterInv, Ledger, LimiterTypeOK
  <2>4. QED
    BY <1>5, <2>2, <2>3 DEF LimiterInv
<1>9. CASE AdmitCall(t)
  <2> DEFINE v == [open |-> TRUE, start |-> w.start, count |-> w.count + 1]
  <2>1. /\ window' = [window EXCEPT ![k] = v]
        /\ admitted' = [admitted EXCEPT ![k] = Append(@, at)]
        /\ w.count < ask[t].limit
    BY <1>9 DEF AdmitCall
  <2>2. v \in [open : BOOLEAN, start : 0..MaxTime, count : 0..MaxLimit]
    BY <1>1, <1>2, <2>1, LimitAssumption
  <2>3. /\ admitted'[k] \in Seq(0..MaxTime)
        /\ Len(admitted'[k]) = Len(admitted[k]) + 1
    <3>1. admitted'[k] = Append(admitted[k], at)
      BY <1>1, <2>1 DEF LimiterInv, LimiterTypeOK
    <3> HIDE DEF k, at
    <3>2. QED
      BY <1>1, <3>1, AppendProperties
  <2>4. LimiterTypeOK'
    BY <1>1, <1>3, <1>4, <1>7, <2>1, <2>2, <2>3 DEF LimiterInv, LimiterTypeOK
  <2>5. Len(admitted'[k]) <= MaxLimit * (windows'[k] - 1) + v.count
    <3>1. MaxLimit * (windows'[k] - 1) \in Nat
      BY <1>6, OneMore, LimitAssumption
    <3>2. Len(admitted[k]) \in Nat /\ w.count \in Nat
      BY <1>1, <1>2
    <3>3. QED
      BY <1>6, <2>3, <3>1, <3>2
  <2>6. window'[k] = v /\ \A j \in Keys \ {k} : /\ window'[j] = window[j]
                                                /\ windows'[j] = windows[j]
                                                /\ admitted'[j] = admitted[j]
    BY <1>1, <1>3, <2>1 DEF LimiterInv, LimiterTypeOK
  <2>7. Ledger'
    <3>1. v.open /\ v.start = w.start /\ v.count = w.count + 1 /\ now' = now
      BY <1>3
    <3>2. windows'[k] > 0 /\ Second * (windows'[k] - 1) <= w.start /\ w.start <= now
      BY <1>2, <1>6
    <3> HIDE DEF v, w, k
    <3>3. ASSUME NEW j \in Keys
          PROVE  /\ window'[j].open <=> windows'[j] > 0
                 /\ window'[j].start <= now'
                 /\ windows'[j] > 0 =>
                      /\ Second * (windows'[j] - 1) <= window'[j].start
                      /\ Len(admitted'[j]) <= MaxLimit * (windows'[j] - 1) + window'[j].count
                 /\ windows'[j] = 0 => Len(admitted'[j]) = 0
      <4>1. CASE j = k
        BY <2>5, <2>6, <3>1, <3>2, <4>1, <1>6
      <4>2. CASE j # k
        BY <2>6, <3>1, <3>3, <4>2 DEF LimiterInv, Ledger
      <4> QED BY <4>1, <4>2
    <3> QED BY <3>3 DEF Ledger
  <2>8. QED
    BY <1>5, <2>4, <2>7 DEF LimiterInv
<1>10. QED
  BY <1>8, <1>9

LEMMA NextInv == LimiterInv /\ [LimiterNext]_limiterVars => LimiterInv'
<1>1. SUFFICES ASSUME LimiterInv, [LimiterNext]_limiterVars PROVE LimiterInv'
  OBVIOUS
<1>2. CASE UNCHANGED limiterVars
  BY <1>1, <1>2 DEF limiterVars, LimiterInv, LimiterTypeOK, Ledger, ReadingsPast
<1>3. CASE LimiterNext
  BY <1>1, <1>3, QuietStepInv, DecisionInv DEF LimiterNext, Decide
<1>4. QED
  BY <1>1, <1>2, <1>3

\* The ledger of each key: its n-th window began n - 1 seconds in at the earliest, and
\* over_budget admitted at most the limit in each.
THEOREM LimiterInvariant == LimiterSpec => []LimiterInv
BY InitLimiter, NextInv, PTL DEF LimiterSpec

\* At most MaxLimit admissions per window, windows a second apart.
THEOREM LongRunRateHolds == LimiterSpec => []LongRunRate
<1>1. LimiterInv => LongRunRate
  <2>1. SUFFICES ASSUME LimiterInv, NEW k \in Keys
                 PROVE  /\ Len(admitted[k]) <= MaxLimit * windows[k]
                        /\ windows[k] > 0 => Second * (windows[k] - 1) <= now
    BY DEF LongRunRate
  <2>2. /\ windows[k] \in Nat /\ window[k].count \in 0..MaxLimit
        /\ window[k].start \in Nat /\ now \in Nat /\ window[k].start <= now
        /\ Len(admitted[k]) \in Nat
    BY <2>1, TimeAssumption DEF LimiterInv, LimiterTypeOK, Ledger
  <2>3. CASE windows[k] = 0
    BY <2>1, <2>2, <2>3, LimitAssumption DEF LimiterInv, Ledger
  <2>4. CASE windows[k] > 0
    <3>1. /\ Second * (windows[k] - 1) <= window[k].start
          /\ Len(admitted[k]) <= MaxLimit * (windows[k] - 1) + window[k].count
      BY <2>1, <2>4 DEF LimiterInv, Ledger
    <3> DEFINE m0 == MaxLimit * (windows[k] - 1)
               m1 == MaxLimit * windows[k]
               s0 == Second * (windows[k] - 1)
    <3>2. m1 = m0 + MaxLimit /\ m0 \in Nat /\ s0 \in Nat
      BY <2>2, <2>4, OneMore, LimitAssumption, SecondAssumption
    <3>3. s0 <= window[k].start /\ Len(admitted[k]) <= m0 + window[k].count
      BY <3>1
    <3>4. SUFFICES Len(admitted[k]) <= m1 /\ s0 <= now
      OBVIOUS
    <3> HIDE DEF m0, m1, s0
    <3>5. window[k].count \in Nat /\ window[k].count <= MaxLimit
      BY <2>2, LimitAssumption
    <3>6. QED
      BY <2>2, <3>2, <3>3, <3>5, LimitAssumption
  <2>5. QED
    BY <2>2, <2>3, <2>4
<1>2. QED
  BY <1>1, LimiterInvariant, PTL

\* Windows never move back, whatever the age of the readings.
THEOREM WindowsAdvanceAlways == LimiterSpec => WindowsAdvance
<1>1. ASSUME LimiterInv, LimiterNext PROVE Advances
  <2>1. SUFFICES ASSUME NEW k \in Keys, window[k].open, window'[k] # window[k]
                 PROVE  \/ /\ window'[k].start = window[k].start
                           /\ window'[k].count > window[k].count
                        \/ window'[k].start >= window[k].start + Second
    BY DEF Advances
  <2>2. PICK t \in Askers : SuppressCall(t) \/ AdmitCall(t)
    BY <1>1, <2>1
       DEF LimiterNext, Decide, Tick, SetThrottle, ReadLimit, ReadClock, Unlimited
  <2> DEFINE at == ask[t].now
             w  == Current(window[k], at)
  <2>3. /\ window[k] \in [open : BOOLEAN, start : 0..MaxTime, count : 0..MaxLimit]
        /\ at \in 0..MaxTime
    BY <1>1 DEF LimiterInv, LimiterTypeOK
  <2>4. w = window[k] \/ (w = Opened(at) /\ at >= window[k].start + Second)
    BY <2>1, <2>3, SecondAssumption, TimeAssumption DEF Current, Expired, Elapsed
  <2>5. ask[t].key = k
    BY <1>1, <2>1, <2>2 DEF SuppressCall, AdmitCall, LimiterInv, LimiterTypeOK
  <2>6. CASE SuppressCall(t)
    <3>1. window'[k] = w
      BY <1>1, <2>5, <2>6 DEF SuppressCall, LimiterInv, LimiterTypeOK
    <3>2. QED
      BY <2>1, <2>4, <3>1 DEF Opened
  <2>7. CASE AdmitCall(t)
    <3>1. window'[k] = [open |-> TRUE, start |-> w.start, count |-> w.count + 1]
      BY <1>1, <2>5, <2>7 DEF AdmitCall, LimiterInv, LimiterTypeOK
    <3>2. QED
      BY <2>3, <2>4, <3>1, LimitAssumption DEF Opened
  <2>8. QED
    BY <2>2, <2>6, <2>7
<1>2. LimiterInv /\ [LimiterNext]_limiterVars => [Advances]_limiterVars
  BY <1>1
<1>3. QED
  BY <1>2, LimiterInvariant, PTL DEF LimiterSpec, WindowsAdvance

\* An expired window suppresses nothing: who is suppressed finds the limit it read
\* used up in a window that is less than a second old by its own reading, however
\* late it gets the mutex and whatever the limit has become.  (over_budget)
THEOREM SuppressionIsJustified == LimiterSpec => SuppressionJustified
<1> DEFINE Justified ==
      \A t \in Askers :
        LET a == ask[t] IN
        /\ a.pc = "mutex" /\ a.limit # 0
        /\ ask'[t].pc = "idle"
        /\ admitted' = admitted
        => /\ window[a.key].count >= a.limit
           /\ a.now < window[a.key].start + Second
<1>1. ASSUME LimiterInv, LimiterNext PROVE Justified
  <2> SUFFICES ASSUME NEW t \in Askers, ask[t].pc = "mutex", ask[t].limit # 0,
                      ask'[t].pc = "idle", admitted' = admitted
               PROVE  /\ window[ask[t].key].count >= ask[t].limit
                      /\ ask[t].now < window[ask[t].key].start + Second
    OBVIOUS
  <2> DEFINE w == window[ask[t].key]
  <2>1. ask \in [Askers -> [pc : {"idle", "clock", "mutex"}, key : Keys,
                             limit : 0..MaxLimit, now : 0..MaxTime]]
    BY <1>1 DEF LimiterInv, LimiterTypeOK
  <2>2. Decide(t)
    <3>1. ASSUME NEW u \in Askers, u # t,
                 Decide(u) \/ ReadClock(u) \/ \E k \in Keys : ReadLimit(u, k)
          PROVE  ask'[t] = ask[t]
      BY <2>1, <3>1
         DEF Decide, Unlimited, SuppressCall, AdmitCall, Answered, ReadClock, ReadLimit
    <3>2. ~ReadClock(t) /\ \A k \in Keys : ~ReadLimit(t, k)
      BY DEF ReadClock, ReadLimit
    <3>3. ask' # ask
      OBVIOUS
    <3> QED BY <1>1, <3>1, <3>2, <3>3 DEF LimiterNext, Tick, SetThrottle
  <2>3. ~AdmitCall(t)
    <3> SUFFICES ASSUME AdmitCall(t) PROVE FALSE
      OBVIOUS
    <3>1. admitted \in [Keys -> Seq(0..MaxTime)] /\ ask[t].key \in Keys
      BY <1>1, <2>1 DEF LimiterInv, LimiterTypeOK
    <3>2. admitted'[ask[t].key] = Append(admitted[ask[t].key], ask[t].now)
      BY <3>1 DEF AdmitCall
    <3>3. admitted[ask[t].key] \in Seq(0..MaxTime) /\ ask[t].now \in 0..MaxTime
      BY <2>1, <3>1
    <3> HIDE DEF w
    <3>4. Len(admitted'[ask[t].key]) = Len(admitted[ask[t].key]) + 1
      BY <3>2, <3>3, AppendProperties
    <3> QED BY <3>3, <3>4
  <2>4. SuppressCall(t)
    BY <2>2, <2>3 DEF Decide, Unlimited
  <2>5. /\ w \in [open : BOOLEAN, start : 0..MaxTime, count : 0..MaxLimit]
        /\ ask[t].now \in 0..MaxTime /\ ask[t].limit \in 0..MaxLimit
    BY <1>1, <2>1 DEF LimiterInv, LimiterTypeOK
  <2>6. Current(w, ask[t].now).count >= ask[t].limit
    BY <2>4 DEF SuppressCall
  <2>7. ~Expired(w, ask[t].now)
    BY <2>5, <2>6, LimitAssumption DEF Current, Opened
  <2>8. w.count >= ask[t].limit
    BY <2>6, <2>7 DEF Current
  <2>9. ask[t].now < w.start + Second
    BY <2>5, <2>7, SecondAssumption, TimeAssumption DEF Expired, Elapsed
  <2> QED BY <2>8, <2>9
<1>2. LimiterInv /\ [LimiterNext]_limiterVars => [Justified]_limiterVars
  BY <1>1
<1> QED BY <1>2, LimiterInvariant, PTL DEF LimiterSpec, SuppressionJustified
=============================================================================
