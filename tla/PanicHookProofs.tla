--------------------------- MODULE PanicHookProofs ---------------------------
(***************************************************************************)
(* However many threads panic, in hooks or outside, and whatever the hooks *)
(* construct: every panic reaches the previous panic hook once, is counted *)
(* before that, and interrupts no fan-out.                                 *)
(*                                                                         *)
(* The argument is about one stack at a time.  A thread is in the panic    *)
(* hook at most once (a second panic aborts), right below the fault of the *)
(* panic, and everything below the top of the stack is inside a hook call, *)
(* so what the unwinding finds is a hook to go on from.                    *)
(***************************************************************************)
EXTENDS PanicHook, FiniteSetTheorems, TLAPS

Frame == Fault \cup {InPanicHook}

\* A fan-out has called the hooks up to where it is, and is counted between the two
\* families.
Walks(f) ==
  /\ f.pc = "next" => f.ran = SubSeq(Hooks, 1, f.at - 1)
  /\ f.pc = "call" => f.at <= Len(Hooks) /\ f.ran = SubSeq(Hooks, 1, f.at)
  /\ f.counted => f.at > Len(CaptureHooks)
  /\ f.at > Len(CaptureHooks) + 1 => f.counted
  /\ f.pc = "call" /\ f.at > Len(CaptureHooks) => f.counted

\* No hook panics or constructs a fault on the fault of a panic.
Tame == \A hook \in ToSet(Hooks) :
          <<hook, "PanicError">> \notin program.panics \cup program.constructs

\* The stack of a thread, if the hooks are tame or not.
StackOK(s, tame) ==
  /\ s \in Seq(Frame)
  /\ \A i \in 1..Len(s) : s[i] = InPanicHook \/ Walks(s[i])
  /\ \A i \in 1..Len(s) : s[i] = InPanicHook =>
       i < Len(s) /\ s[i + 1] # InPanicHook /\ s[i + 1].type = "PanicError"
  /\ \A i, j \in 1..Len(s) : s[i] = InPanicHook /\ s[j] = InPanicHook => i = j
  /\ \A i \in 1..Len(s) : s[i] # InPanicHook /\ s[i].type = "PanicError" =>
       i > 1 /\ s[i - 1] = InPanicHook
  /\ \A i \in 1..(Len(s) - 1) : s[i] # InPanicHook => s[i].pc = "call"
  /\ tame => \A i \in 1..Len(s) : s[i] = InPanicHook => i + 1 = Len(s)

RangesOK ==
  /\ program \in Programs
  /\ alive \in BOOLEAN /\ installed \in BOOLEAN
  /\ stack \in [Threads -> Seq(Frame)]
  /\ errorCounts \in [Types -> Nat]
  /\ panics \in 0..MaxPanics /\ built \in 0..MaxFaults
  /\ chained \in [{"alone", "afterOurs"} -> Nat]

StacksOK == \A t \in Threads : StackOK(stack[t], Tame)

Counts ==
  /\ IsFiniteSet(HookFrames) /\ EveryPanicChained
  /\ IsFiniteSet(CountedFrames) /\ PanicsCounted

PanicInv == RangesOK /\ StacksOK /\ Counts /\ HooksContained

-----------------------------------------------------------------------------
\* The hooks and the fan-out over them.

LEMMA HooksOK ==
  /\ Hooks \in Seq(ToSet(Hooks)) /\ Len(CaptureHooks) \in Nat
  /\ Len(Hooks) \in Nat /\ Len(CaptureHooks) <= Len(Hooks)
  /\ SubSeq(Hooks, 1, 0) = <<>>
  /\ SubSeq(Hooks, 1, Len(CaptureHooks)) = CaptureHooks
  /\ SubSeq(Hooks, 1, Len(Hooks)) = Hooks
  /\ \A k \in 1..Len(Hooks) : Append(SubSeq(Hooks, 1, k - 1), Hooks[k]) = SubSeq(Hooks, 1, k)
<1> DEFINE All == ToSet(CaptureHooks) \cup ToSet(SinkHooks)
<1>1. CaptureHooks \in Seq(All) /\ SinkHooks \in Seq(All)
  BY HooksAssumption
<1>2. Hooks \in Seq(All) /\ Len(Hooks) = Len(CaptureHooks) + Len(SinkHooks)
  BY <1>1 DEF Hooks
<1>3. Hooks \in Seq(ToSet(Hooks))
  BY <1>2 DEF ToSet
<1>4. SubSeq(Hooks, 1, Len(CaptureHooks)) = CaptureHooks
  BY <1>1 DEF Hooks
<1>5. ASSUME NEW k \in 1..Len(Hooks)
      PROVE  Append(SubSeq(Hooks, 1, k - 1), Hooks[k]) = SubSeq(Hooks, 1, k)
  <2> DEFINE u == SubSeq(Hooks, 1, k - 1)
             v == SubSeq(Hooks, 1, k)
  <2>1. /\ u \in Seq(All) /\ v \in Seq(All) /\ Len(u) = k - 1 /\ Len(v) = k
        /\ \A j \in 1..(k - 1) : u[j] = v[j]
        /\ v[k] = Hooks[k] /\ Hooks[k] \in All
    BY <1>2
  <2> HIDE DEF u, v
  <2>2. Append(u, Hooks[k]) = v
    BY <2>1
  <2> QED BY <2>2 DEF u, v
<1> QED BY <1>1, <1>2, <1>3, <1>4, <1>5

LEMMA BuildingOK ==
  ASSUME NEW ty \in Types
  PROVE  /\ Building(ty) \in Fault /\ Walks(Building(ty))
         /\ Building(ty).type = ty /\ Building(ty).counted = FALSE /\ Building(ty).ran = <<>>
<1>1. <<>> \in Seq(ToSet(Hooks)) /\ 1 \in 1..(Len(Hooks) + 1) /\ Len(CaptureHooks) \in Nat
  BY HooksOK
<1> QED BY <1>1, HooksOK DEF Building, Fault, Walks

LEMMA NextHookOK ==
  ASSUME NEW f \in Fault, Walks(f), f.pc = "call"
  PROVE  /\ NextHook(f) \in Fault /\ Walks(NextHook(f))
         /\ NextHook(f).type = f.type /\ NextHook(f).counted = f.counted
<1>1. f.at \in Nat /\ f.at >= 1 /\ f.at <= Len(Hooks)
  BY HooksOK DEF Fault, Walks
<1>2. f.at + 1 \in 1..(Len(Hooks) + 1)
  BY <1>1, HooksOK
<1>3. NextHook(f) \in Fault
  BY <1>2 DEF NextHook, Fault
<1>4. /\ NextHook(f).at = f.at + 1 /\ NextHook(f).pc = "next" /\ NextHook(f).ran = f.ran
      /\ NextHook(f).type = f.type /\ NextHook(f).counted = f.counted
  BY DEF NextHook, Fault
<1>5. Walks(NextHook(f))
  BY <1>1, <1>4, HooksOK DEF Walks
<1> QED BY <1>3, <1>4, <1>5

LEMMA Prefix ==
  ASSUME NEW s \in Seq(Frame), NEW k \in 0..Len(s)
  PROVE  SubSeq(s, 1, k) \in Seq(Frame) /\ Len(SubSeq(s, 1, k)) = k
OBVIOUS

LEMMA FaultIsNoHook == \A f \in Fault : f # InPanicHook
BY DEF Fault, InPanicHook

-----------------------------------------------------------------------------
\* What the steps do to a stack.

\* The top is a fault; it is the fault of a panic exactly if it is right above the
\* panic hook.
LEMMA TopIsFault ==
  ASSUME NEW s, NEW tame, StackOK(s, tame), s # <<>>
  PROVE  /\ Len(s) \in Nat /\ Len(s) >= 1
         /\ Last(s) = s[Len(s)] /\ Last(s) \in Fault /\ Walks(Last(s))
         /\ Last(s).type = "PanicError" => Len(s) > 1 /\ s[Len(s) - 1] = InPanicHook
         /\ Len(s) > 1 /\ s[Len(s) - 1] = InPanicHook => Last(s).type = "PanicError"
<1>1. s \in Seq(Frame) /\ Len(s) \in Nat /\ Len(s) >= 1
  BY DEF StackOK
<1>2. Last(s) = s[Len(s)] /\ s[Len(s)] \in Frame
  BY <1>1 DEF Last
<1>3. Last(s) # InPanicHook
  BY <1>1, <1>2 DEF StackOK
<1>4. Last(s) \in Fault /\ Walks(Last(s))
  BY <1>1, <1>2, <1>3 DEF StackOK, Frame
<1>5. Last(s).type = "PanicError" => Len(s) > 1 /\ s[Len(s) - 1] = InPanicHook
  BY <1>1, <1>2, <1>3 DEF StackOK
<1>6. Len(s) > 1 /\ s[Len(s) - 1] = InPanicHook => Last(s).type = "PanicError"
  <2> SUFFICES ASSUME Len(s) > 1, s[Len(s) - 1] = InPanicHook PROVE Last(s).type = "PanicError"
    OBVIOUS
  <2>1. Len(s) - 1 \in 1..Len(s) /\ (Len(s) - 1) + 1 = Len(s)
    BY <1>1
  <2> QED BY <1>2, <2>1 DEF StackOK
<1> QED BY <1>1, <1>2, <1>4, <1>5, <1>6

LEMMA ReplaceTop ==
  ASSUME NEW s, NEW tame, StackOK(s, tame), s # <<>>,
         NEW f \in Fault, Walks(f), f.type = Last(s).type
  PROVE  /\ StackOK(SetTop(s, f), tame)
         /\ Len(SetTop(s, f)) = Len(s) /\ SetTop(s, f)[Len(s)] = f
         /\ \A i \in 1..(Len(s) - 1) : SetTop(s, f)[i] = s[i]
<1> DEFINE u == SetTop(s, f)
<1>1. /\ s \in Seq(Frame) /\ f \in Frame /\ Len(s) \in Nat /\ Len(s) >= 1
      /\ s[Len(s)] = Last(s) /\ Last(s) # InPanicHook /\ f # InPanicHook
  BY TopIsFault, FaultIsNoHook DEF StackOK, Frame
<1>2. /\ u \in Seq(Frame) /\ Len(u) = Len(s) /\ u[Len(s)] = f
      /\ \A i \in 1..Len(s) : i # Len(s) => u[i] = s[i]
  BY <1>1 DEF SetTop
<1>3. \A i \in 1..Len(s) : u[i] = InPanicHook <=> s[i] = InPanicHook
  BY <1>1, <1>2
<1>4. \A i \in 1..Len(s) : u[i] # InPanicHook => u[i].type = s[i].type
  BY <1>1, <1>2
<1> HIDE DEF u
<1>5. \A i \in 1..Len(u) : u[i] = InPanicHook \/ Walks(u[i])
  BY <1>2 DEF StackOK
<1>6. \A i \in 1..Len(u) : u[i] = InPanicHook =>
        i < Len(u) /\ u[i + 1] # InPanicHook /\ u[i + 1].type = "PanicError"
  <2> SUFFICES ASSUME NEW i \in 1..Len(s), s[i] = InPanicHook
               PROVE  i < Len(u) /\ u[i + 1] # InPanicHook /\ u[i + 1].type = "PanicError"
    BY <1>2, <1>3
  <2>1. i < Len(s) /\ s[i + 1] # InPanicHook /\ s[i + 1].type = "PanicError"
    BY DEF StackOK
  <2>2. i + 1 \in 1..Len(s)
    BY <1>1, <2>1
  <2> QED BY <1>2, <1>3, <1>4, <2>1, <2>2
<1>7. \A i, j \in 1..Len(u) : u[i] = InPanicHook /\ u[j] = InPanicHook => i = j
  BY <1>2, <1>3 DEF StackOK
<1>8. \A i \in 1..Len(u) : u[i] # InPanicHook /\ u[i].type = "PanicError" =>
        i > 1 /\ u[i - 1] = InPanicHook
  <2> SUFFICES ASSUME NEW i \in 1..Len(s), s[i] # InPanicHook, s[i].type = "PanicError"
               PROVE  i > 1 /\ u[i - 1] = InPanicHook
    BY <1>2, <1>3, <1>4
  <2>1. i > 1 /\ s[i - 1] = InPanicHook
    BY DEF StackOK
  <2>2. i - 1 \in 1..Len(s)
    BY <1>1, <2>1
  <2> QED BY <1>3, <2>1, <2>2
<1>9. \A i \in 1..(Len(u) - 1) : u[i] # InPanicHook => u[i].pc = "call"
  BY <1>1, <1>2 DEF StackOK
<1>10. tame => \A i \in 1..Len(u) : u[i] = InPanicHook => i + 1 = Len(u)
  BY <1>2, <1>3 DEF StackOK
<1>11. StackOK(u, tame)
  BY <1>2, <1>5, <1>6, <1>7, <1>8, <1>9, <1>10 DEF StackOK
<1> QED BY <1>1, <1>2, <1>11 DEF u

\* The code on top is outside the library or in a hook: faults may be put on it.
InUserCode(s) == s = <<>> \/ Last(s).pc = "call"

LEMMA PushFault ==
  ASSUME NEW s, NEW tame, StackOK(s, tame), InUserCode(s),
         tame => \A i \in 1..Len(s) : s[i] # InPanicHook
  PROVE  /\ StackOK(Append(s, Building("App")), tame)
         /\ Len(Append(s, Building("App"))) = Len(s) + 1
         /\ Append(s, Building("App"))[Len(s) + 1] = Building("App")
         /\ \A i \in 1..Len(s) : Append(s, Building("App"))[i] = s[i]
<1> DEFINE f == Building("App")
           u == Append(s, f)
<1>1. f \in Fault /\ Walks(f) /\ f.type = "App" /\ f # InPanicHook /\ f \in Frame
  BY BuildingOK, FaultIsNoHook DEF Types, Frame
<1> HIDE DEF f
<1>2. s \in Seq(Frame) /\ Len(s) \in Nat
  BY DEF StackOK
<1>3. /\ u \in Seq(Frame) /\ Len(u) = Len(s) + 1 /\ u[Len(s) + 1] = f
      /\ \A i \in 1..Len(s) : u[i] = s[i]
  BY <1>1, <1>2
<1> HIDE DEF u
<1>4. \A i \in 1..Len(u) : i \in 1..Len(s) \/ i = Len(u)
  BY <1>2, <1>3
<1>5. \A i \in 1..Len(u) : u[i] = InPanicHook \/ Walks(u[i])
  BY <1>1, <1>3, <1>4 DEF StackOK
<1>6. \A i \in 1..Len(u) : u[i] = InPanicHook =>
        i < Len(u) /\ u[i + 1] # InPanicHook /\ u[i + 1].type = "PanicError"
  <2> SUFFICES ASSUME NEW i \in 1..Len(s), s[i] = InPanicHook
               PROVE  i < Len(u) /\ u[i + 1] # InPanicHook /\ u[i + 1].type = "PanicError"
    BY <1>1, <1>3, <1>4
  <2>1. i < Len(s) /\ s[i + 1] # InPanicHook /\ s[i + 1].type = "PanicError"
    BY DEF StackOK
  <2>2. i + 1 \in 1..Len(s)
    BY <1>2, <2>1
  <2> QED BY <1>2, <1>3, <2>1, <2>2
<1>7. \A i, j \in 1..Len(u) : u[i] = InPanicHook /\ u[j] = InPanicHook => i = j
  <2>1. \A i \in 1..Len(u) : u[i] = InPanicHook => i \in 1..Len(s) /\ s[i] = InPanicHook
    BY <1>1, <1>3, <1>4
  <2> QED BY <2>1 DEF StackOK
<1>8. \A i \in 1..Len(u) : u[i] # InPanicHook /\ u[i].type = "PanicError" =>
        i > 1 /\ u[i - 1] = InPanicHook
  <2> SUFFICES ASSUME NEW i \in 1..Len(s), s[i] # InPanicHook, s[i].type = "PanicError"
               PROVE  i > 1 /\ u[i - 1] = InPanicHook
    BY <1>1, <1>3, <1>4
  <2>1. i > 1 /\ s[i - 1] = InPanicHook
    BY DEF StackOK
  <2>2. i - 1 \in 1..Len(s)
    BY <1>2, <2>1
  <2> QED BY <1>3, <2>1, <2>2
<1>9. \A i \in 1..(Len(u) - 1) : u[i] # InPanicHook => u[i].pc = "call"
  <2> SUFFICES ASSUME NEW i \in 1..Len(s), s[i] # InPanicHook PROVE s[i].pc = "call"
    BY <1>2, <1>3
  <2>1. CASE i = Len(s)
    BY <1>2, <2>1, TopIsFault DEF InUserCode
  <2>2. CASE i # Len(s)
    BY <1>2, <2>2 DEF StackOK
  <2> QED BY <2>1, <2>2
<1>10. tame => \A i \in 1..Len(u) : u[i] = InPanicHook => i + 1 = Len(u)
  BY <1>1, <1>3, <1>4
<1>11. StackOK(u, tame)
  BY <1>3, <1>5, <1>6, <1>7, <1>8, <1>9, <1>10 DEF StackOK
<1> QED BY <1>3, <1>11 DEF u, f

LEMMA PushPanicHook ==
  ASSUME NEW s, NEW tame, StackOK(s, tame), InUserCode(s),
         \A i \in 1..Len(s) : s[i] # InPanicHook,
         NEW u, u = s \o <<InPanicHook, Building("PanicError")>>
  PROVE  /\ StackOK(u, tame)
         /\ Len(u) = Len(s) + 2
         /\ u[Len(s) + 1] = InPanicHook /\ u[Len(s) + 2] = Building("PanicError")
         /\ \A i \in 1..Len(s) : u[i] = s[i]
<1> DEFINE f == Building("PanicError")
<1>1. f \in Fault /\ Walks(f) /\ f.type = "PanicError" /\ f # InPanicHook /\ f \in Frame
  BY BuildingOK, FaultIsNoHook DEF Types, Frame
<1>2. s \in Seq(Frame) /\ Len(s) \in Nat /\ InPanicHook \in Frame
  BY DEF StackOK, Frame
<1>3. /\ u \in Seq(Frame) /\ Len(u) = Len(s) + 2
      /\ u[Len(s) + 1] = InPanicHook /\ u[Len(s) + 2] = f
      /\ \A i \in 1..Len(s) : u[i] = s[i]
  BY <1>1, <1>2
<1> HIDE DEF f
<1>4. \A i \in 1..Len(u) : i \in 1..Len(s) \/ i = Len(s) + 1 \/ i = Len(s) + 2
  BY <1>2, <1>3
<1>5. \A i \in 1..Len(u) : u[i] = InPanicHook <=> i = Len(s) + 1
  BY <1>1, <1>2, <1>3, <1>4
<1>6. \A i \in 1..Len(u) : u[i] = InPanicHook \/ Walks(u[i])
  BY <1>1, <1>3, <1>4 DEF StackOK
<1>7. \A i \in 1..Len(u) : u[i] = InPanicHook =>
        i < Len(u) /\ u[i + 1] # InPanicHook /\ u[i + 1].type = "PanicError"
  <2>1. (Len(s) + 1) + 1 = Len(s) + 2 /\ Len(s) + 1 < Len(u)
    BY <1>2, <1>3
  <2> QED BY <1>1, <1>3, <1>5, <2>1
<1>8. \A i \in 1..Len(u) : u[i] # InPanicHook /\ u[i].type = "PanicError" =>
        i > 1 /\ u[i - 1] = InPanicHook
  <2> SUFFICES ASSUME NEW i \in 1..Len(u), u[i] # InPanicHook, u[i].type = "PanicError"
               PROVE  i > 1 /\ u[i - 1] = InPanicHook
    OBVIOUS
  <2>1. i \notin 1..Len(s)
    <3> SUFFICES ASSUME i \in 1..Len(s) PROVE FALSE
      OBVIOUS
    <3>1. i - 1 \in 1..Len(s) /\ s[i - 1] = InPanicHook
      BY <1>2, <1>3 DEF StackOK
    <3> QED BY <3>1
  <2>2. i = Len(s) + 2
    BY <1>4, <1>5, <2>1
  <2>3. i > 1 /\ i - 1 = Len(s) + 1
    BY <1>2, <2>2
  <2> QED BY <1>3, <2>3
<1>9. \A i \in 1..(Len(u) - 1) : u[i] # InPanicHook => u[i].pc = "call"
  <2> SUFFICES ASSUME NEW i \in 1..Len(s), s[i] # InPanicHook PROVE s[i].pc = "call"
    BY <1>2, <1>3, <1>4
  <2>1. CASE i = Len(s)
    BY <1>2, <2>1, TopIsFault DEF InUserCode
  <2>2. CASE i # Len(s)
    BY <1>2, <2>2 DEF StackOK
  <2> QED BY <2>1, <2>2
<1>10. \A i, j \in 1..Len(u) : u[i] = InPanicHook /\ u[j] = InPanicHook => i = j
  BY <1>5
<1>11. \A i \in 1..Len(u) : u[i] = InPanicHook => i + 1 = Len(u)
  BY <1>2, <1>3, <1>5
<1>12. StackOK(u, tame)
  BY <1>3, <1>6, <1>7, <1>8, <1>9, <1>10, <1>11 DEF StackOK
<1> QED BY <1>3, <1>12 DEF f

\* What is below the top, with one frame less or, if the top is the fault of a
\* panic, without the panic hook too.
LEMMA PopFault ==
  ASSUME NEW s, NEW tame, StackOK(s, tame), NEW n \in 0..(Len(s) - 1), n >= Len(s) - 2,
         n > 0 => s[n] # InPanicHook,
         n = Len(s) - 2 => s[n + 1] = InPanicHook
  PROVE  /\ StackOK(SubSeq(s, 1, n), tame)
         /\ Len(SubSeq(s, 1, n)) = n
         /\ \A i \in 1..n : SubSeq(s, 1, n)[i] = s[i]
         /\ InUserCode(SubSeq(s, 1, n))
<1> DEFINE u == SubSeq(s, 1, n)
<1>1. s \in Seq(Frame) /\ Len(s) \in Nat /\ n \in Nat /\ n < Len(s)
  BY DEF StackOK
<1>2. u \in Seq(Frame) /\ Len(u) = n /\ \A i \in 1..n : u[i] = s[i]
  BY <1>1
<1> HIDE DEF u
<1>3. \A i \in 1..n : i \in 1..Len(s) /\ i \in 1..(Len(s) - 1)
  BY <1>1
<1>4. \A i \in 1..n : u[i] = InPanicHook =>
        i < n /\ u[i + 1] # InPanicHook /\ u[i + 1].type = "PanicError"
  <2> SUFFICES ASSUME NEW i \in 1..n, s[i] = InPanicHook
               PROVE  i < n /\ u[i + 1] # InPanicHook /\ u[i + 1].type = "PanicError"
    BY <1>2
  <2>1. i < n /\ i + 1 \in 1..n
    BY <1>1
  <2> QED BY <1>2, <1>3, <2>1 DEF StackOK
<1>5. \A i \in 1..n : u[i] # InPanicHook /\ u[i].type = "PanicError" =>
        i > 1 /\ u[i - 1] = InPanicHook
  <2> SUFFICES ASSUME NEW i \in 1..n, s[i] # InPanicHook, s[i].type = "PanicError"
               PROVE  i > 1 /\ u[i - 1] = InPanicHook
    BY <1>2
  <2>1. i > 1 /\ s[i - 1] = InPanicHook
    BY <1>3 DEF StackOK
  <2>2. i - 1 \in 1..n
    BY <1>1, <2>1
  <2> QED BY <1>2, <2>1, <2>2
<1>6. tame => \A i \in 1..n : u[i] = InPanicHook => i + 1 = n
  <2> SUFFICES ASSUME tame, NEW i \in 1..n, s[i] = InPanicHook PROVE FALSE
    BY <1>2
  <2>1. i + 1 = Len(s)
    BY <1>3 DEF StackOK
  <2> QED BY <1>1, <2>1
<1>7. StackOK(u, tame)
  <2>1. \A i \in 1..n : u[i] = InPanicHook \/ Walks(u[i])
    BY <1>2, <1>3 DEF StackOK
  <2>2. \A i, j \in 1..n : u[i] = InPanicHook /\ u[j] = InPanicHook => i = j
    BY <1>2, <1>3, ZenonT(40) DEF StackOK
  <2>3. \A i \in 1..(n - 1) : u[i] # InPanicHook => u[i].pc = "call"
    BY <1>1, <1>2, <1>3 DEF StackOK
  <2> QED BY <1>2, <1>4, <1>5, <1>6, <2>1, <2>2, <2>3 DEF StackOK
<1>8. InUserCode(u)
  <2>1. CASE n = 0
    BY <1>2, <2>1 DEF InUserCode
  <2>2. CASE n > 0
    <3>1. Last(u) = s[n] /\ n \in 1..(Len(s) - 1)
      BY <1>1, <1>2, <2>2 DEF Last
    <3> QED BY <2>2, <3>1 DEF StackOK, InUserCode
  <2> QED BY <1>1, <2>1, <2>2
<1> QED BY <1>2, <1>7, <1>8 DEF u

-----------------------------------------------------------------------------
\* The frames that count.

HooksIn(s)   == {i \in DOMAIN s : s[i] = InPanicHook}
CountedIn(s) == {i \in DOMAIN s : s[i] # InPanicHook /\ s[i].type = "PanicError" /\ s[i].counted}

\* One frame more or less in the stack of t is one more or less of all.
LEMMA HookFramesChange ==
  ASSUME DOMAIN stack = Threads, IsFiniteSet(HookFrames),
         NEW t \in Threads, NEW u, stack' = [stack EXCEPT ![t] = u]
  PROVE  /\ HooksIn(u) = HooksIn(stack[t]) => HookFrames' = HookFrames
         /\ \A k : k \notin HooksIn(stack[t]) /\ HooksIn(u) = HooksIn(stack[t]) \cup {k} =>
              /\ IsFiniteSet(HookFrames')
              /\ Cardinality(HookFrames') = Cardinality(HookFrames) + 1
         /\ \A k : k \in HooksIn(stack[t]) /\ HooksIn(u) = HooksIn(stack[t]) \ {k} =>
              /\ IsFiniteSet(HookFrames')
              /\ Cardinality(HookFrames') = Cardinality(HookFrames) - 1
<1>1. \A p : p \in HookFrames <=>
        /\ p = <<p[1], p[2]>> /\ p[1] \in Threads /\ p[2] \in HooksIn(stack[p[1]])
  BY DEF HookFrames, Frames, FrameAt, HooksIn
<1>2. \A p : p \in HookFrames' <=>
        /\ p = <<p[1], p[2]>> /\ p[1] \in Threads
        /\ p[2] \in HooksIn(IF p[1] = t THEN u ELSE stack[p[1]])
  <2>1. \A x \in Threads : stack'[x] = IF x = t THEN u ELSE stack[x]
    OBVIOUS
  <2>2. \A p : p \in HookFrames' <=>
          /\ p = <<p[1], p[2]>> /\ p[1] \in Threads /\ p[2] \in HooksIn(stack'[p[1]])
    BY DEF HookFrames, Frames, FrameAt, HooksIn
  <2> QED BY <2>1, <2>2
<1>3. HooksIn(u) = HooksIn(stack[t]) => HookFrames' = HookFrames
  BY <1>1, <1>2
<1>4. ASSUME NEW k, k \notin HooksIn(stack[t]), HooksIn(u) = HooksIn(stack[t]) \cup {k}
      PROVE  /\ IsFiniteSet(HookFrames')
             /\ Cardinality(HookFrames') = Cardinality(HookFrames) + 1
  <2>1. HookFrames' = HookFrames \cup {<<t, k>>} /\ <<t, k>> \notin HookFrames
    BY <1>1, <1>2, <1>4
  <2> QED BY <2>1, FS_AddElement
<1>5. ASSUME NEW k, k \in HooksIn(stack[t]), HooksIn(u) = HooksIn(stack[t]) \ {k}
      PROVE  /\ IsFiniteSet(HookFrames')
             /\ Cardinality(HookFrames') = Cardinality(HookFrames) - 1
  <2>1. HookFrames' = HookFrames \ {<<t, k>>} /\ <<t, k>> \in HookFrames
    BY <1>1, <1>2, <1>5
  <2> QED BY <2>1, FS_RemoveElement
<1> QED BY <1>3, <1>4, <1>5

LEMMA CountedFramesChange ==
  ASSUME DOMAIN stack = Threads, IsFiniteSet(CountedFrames),
         NEW t \in Threads, NEW u, stack' = [stack EXCEPT ![t] = u]
  PROVE  /\ CountedIn(u) = CountedIn(stack[t]) => CountedFrames' = CountedFrames
         /\ \A k : k \notin CountedIn(stack[t]) /\ CountedIn(u) = CountedIn(stack[t]) \cup {k} =>
              /\ IsFiniteSet(CountedFrames')
              /\ Cardinality(CountedFrames') = Cardinality(CountedFrames) + 1
         /\ \A k : k \in CountedIn(stack[t]) /\ CountedIn(u) = CountedIn(stack[t]) \ {k} =>
              /\ IsFiniteSet(CountedFrames')
              /\ Cardinality(CountedFrames') = Cardinality(CountedFrames) - 1
<1>1. \A p : p \in CountedFrames <=>
        /\ p = <<p[1], p[2]>> /\ p[1] \in Threads /\ p[2] \in CountedIn(stack[p[1]])
  BY DEF CountedFrames, Frames, FrameAt, CountedIn
<1>2. \A p : p \in CountedFrames' <=>
        /\ p = <<p[1], p[2]>> /\ p[1] \in Threads
        /\ p[2] \in CountedIn(IF p[1] = t THEN u ELSE stack[p[1]])
  <2>1. \A x \in Threads : stack'[x] = IF x = t THEN u ELSE stack[x]
    OBVIOUS
  <2>2. \A p : p \in CountedFrames' <=>
          /\ p = <<p[1], p[2]>> /\ p[1] \in Threads /\ p[2] \in CountedIn(stack'[p[1]])
    BY DEF CountedFrames, Frames, FrameAt, CountedIn
  <2> QED BY <2>1, <2>2
<1>3. CountedIn(u) = CountedIn(stack[t]) => CountedFrames' = CountedFrames
  BY <1>1, <1>2
<1>4. ASSUME NEW k, k \notin CountedIn(stack[t]), CountedIn(u) = CountedIn(stack[t]) \cup {k}
      PROVE  /\ IsFiniteSet(CountedFrames')
             /\ Cardinality(CountedFrames') = Cardinality(CountedFrames) + 1
  <2>1. CountedFrames' = CountedFrames \cup {<<t, k>>} /\ <<t, k>> \notin CountedFrames
    BY <1>1, <1>2, <1>4
  <2> QED BY <2>1, FS_AddElement
<1>5. ASSUME NEW k, k \in CountedIn(stack[t]), CountedIn(u) = CountedIn(stack[t]) \ {k}
      PROVE  /\ IsFiniteSet(CountedFrames')
             /\ Cardinality(CountedFrames') = Cardinality(CountedFrames) - 1
  <2>1. CountedFrames' = CountedFrames \ {<<t, k>>} /\ <<t, k>> \in CountedFrames
    BY <1>1, <1>2, <1>5
  <2> QED BY <2>1, FS_RemoveElement
<1> QED BY <1>3, <1>4, <1>5

\* A fault that takes the place of the top leaves the frames that count, unless it
\* is counted itself.
LEMMA ReplaceTopFrames ==
  ASSUME NEW s, NEW tame, StackOK(s, tame), s # <<>>,
         NEW f \in Fault, Walks(f), f.type = Last(s).type
  PROVE  /\ HooksIn(SetTop(s, f)) = HooksIn(s)
         /\ f.counted = Last(s).counted => CountedIn(SetTop(s, f)) = CountedIn(s)
         /\ f.counted /\ ~Last(s).counted =>
              IF f.type = "PanicError"
              THEN /\ Len(s) \notin CountedIn(s)
                   /\ CountedIn(SetTop(s, f)) = CountedIn(s) \cup {Len(s)}
              ELSE CountedIn(SetTop(s, f)) = CountedIn(s)
<1> DEFINE u == SetTop(s, f)
<1>1. /\ Len(u) = Len(s) /\ u[Len(s)] = f /\ \A i \in 1..(Len(s) - 1) : u[i] = s[i]
      /\ u \in Seq(Frame) /\ s \in Seq(Frame)
  BY ReplaceTop, ZenonT(40) DEF StackOK
<1>2. /\ Len(s) \in Nat /\ Len(s) >= 1 /\ s[Len(s)] = Last(s)
      /\ Last(s) # InPanicHook /\ f # InPanicHook
  BY TopIsFault, FaultIsNoHook
<1> HIDE DEF u
<1>3. DOMAIN u = 1..Len(s) /\ DOMAIN s = 1..Len(s)
  BY <1>1
<1>4. \A i \in 1..Len(s) : i # Len(s) => u[i] = s[i]
  BY <1>1, <1>2
<1>5. HooksIn(u) = HooksIn(s)
  BY <1>1, <1>2, <1>3, <1>4 DEF HooksIn
<1>6. f.counted = Last(s).counted => CountedIn(u) = CountedIn(s)
  BY <1>1, <1>2, <1>3, <1>4, ZenonT(40) DEF CountedIn
<1>7. ASSUME f.counted, ~Last(s).counted, f.type = "PanicError"
      PROVE  Len(s) \notin CountedIn(s) /\ CountedIn(u) = CountedIn(s) \cup {Len(s)}
  <2>1. Len(s) \notin CountedIn(s)
    BY <1>2, <1>7 DEF CountedIn
  <2>2. Len(s) \in CountedIn(u)
    BY <1>1, <1>2, <1>3, <1>7 DEF CountedIn
  <2>3. \A i \in 1..Len(s) : i # Len(s) => (i \in CountedIn(u) <=> i \in CountedIn(s))
    BY <1>3, <1>4 DEF CountedIn
  <2>4. CountedIn(u) \subseteq 1..Len(s) /\ CountedIn(s) \subseteq 1..Len(s)
    BY <1>3 DEF CountedIn
  <2> QED BY <2>1, <2>2, <2>3, <2>4
<1>8. ASSUME f.type # "PanicError"
      PROVE  CountedIn(u) = CountedIn(s)
  BY <1>1, <1>2, <1>3, <1>4, <1>8 DEF CountedIn
<1> QED BY <1>5, <1>6, <1>7, <1>8 DEF u

\* Unwinding to a hook call leaves the frames that count.
LEMMA UnwoundOK ==
  ASSUME NEW s, NEW tame, StackOK(s, tame), InUserCode(s)
  PROVE  /\ StackOK(Unwound(s), tame) /\ Len(Unwound(s)) = Len(s)
         /\ HooksIn(Unwound(s)) = HooksIn(s) /\ CountedIn(Unwound(s)) = CountedIn(s)
<1>1. CASE s = <<>>
  BY <1>1 DEF Unwound
<1>2. CASE s # <<>>
  <2> DEFINE f == NextHook(Last(s))
  <2>1. Unwound(s) = SetTop(s, f)
    BY <1>2 DEF Unwound
  <2>2. Last(s) \in Fault /\ Walks(Last(s)) /\ Last(s).pc = "call"
    BY <1>2, TopIsFault DEF InUserCode
  <2>3. f \in Fault /\ Walks(f) /\ f.type = Last(s).type /\ f.counted = Last(s).counted
    BY <2>2, NextHookOK
  <2> HIDE DEF f
  <2> QED BY <1>2, <2>1, <2>3, ReplaceTop, ReplaceTopFrames
<1> QED BY <1>1, <1>2

-----------------------------------------------------------------------------
\* The invariant.

LEMMA InitPanic == Init => PanicInv
<1> SUFFICES ASSUME Init PROVE PanicInv
  OBVIOUS
<1>0. /\ stack = [t \in Threads |-> <<>>] /\ panics = 0 /\ built = 0
      /\ errorCounts = [ty \in Types |-> 0] /\ chained = [by \in {"alone", "afterOurs"} |-> 0]
  BY DEF Init
<1>1. RangesOK
  <2>1. errorCounts \in [Types -> Nat] /\ chained \in [{"alone", "afterOurs"} -> Nat]
    BY <1>0
  <2>2. stack \in [Threads -> Seq(Frame)]
    BY <1>0
  <2>3. panics \in 0..MaxPanics /\ built \in 0..MaxFaults
    BY <1>0, BoundsAssumption
  <2> QED BY <2>1, <2>2, <2>3 DEF Init, RangesOK
<1>2. StacksOK
  <2> SUFFICES ASSUME NEW tame PROVE StackOK(<<>>, tame)
    BY DEF Init, StacksOK
  <2> QED BY DEF StackOK
<1>3. HookFrames = {} /\ CountedFrames = {}
  <2>1. \A t \in Threads : DOMAIN stack[t] = {}
    <3>1. \A t \in Threads : stack[t] = <<>>
      BY <1>0
    <3>2. DOMAIN <<>> = {}
      OBVIOUS
    <3> QED BY <3>1, <3>2
  <2>2. Frames = {}
    BY <2>1 DEF Frames
  <2> QED BY <2>2 DEF HookFrames, CountedFrames
<1>4. Counts
  <2>1. IsFiniteSet({}) /\ Cardinality({}) = 0
    BY FS_EmptySet
  <2>2. /\ chained["alone"] = 0 /\ chained["afterOurs"] = 0
        /\ errorCounts["PanicError"] = 0
    BY <1>0 DEF Types
  <2>3. Cardinality(HookFrames) = 0 /\ Cardinality(CountedFrames) = 0
    BY <1>3, <2>1
  <2>4. alive
    BY DEF Init
  <2>5. EveryPanicChained
    BY <1>0, <2>2, <2>3, <2>4 DEF EveryPanicChained
  <2>6. PanicsCounted
    BY <2>2, <2>3 DEF PanicsCounted
  <2> QED BY <1>3, <2>1, <2>5, <2>6 DEF Counts
<1>5. HooksContained
  BY DEF Init, HooksContained
<1> QED BY <1>1, <1>2, <1>4, <1>5 DEF PanicInv

LEMMA StackTyped ==
  ASSUME PanicInv, NEW t \in Threads, NEW u, stack' = [stack EXCEPT ![t] = u], StackOK(u, Tame)
  PROVE  stack' \in [Threads -> Seq(Frame)]
<1>1. u \in Seq(Frame) /\ stack \in [Threads -> Seq(Frame)]
  BY DEF StackOK, PanicInv, RangesOK
<1> QED BY <1>1

\* A step of the stack of t that leaves the frames that count.
LEMMA StackMoves ==
  ASSUME PanicInv, NEW t \in Threads, NEW u, stack' = [stack EXCEPT ![t] = u],
         StackOK(u, Tame), HooksIn(u) = HooksIn(stack[t]),
         CountedIn(u) = CountedIn(stack[t]),
         UNCHANGED <<program, alive, installed, errorCounts, panics, chained>>,
         built' \in 0..MaxFaults
  PROVE  PanicInv'
<1>1. DOMAIN stack = Threads
  BY DEF PanicInv, RangesOK
<1>2. RangesOK'
  BY <1>1, StackTyped DEF PanicInv, RangesOK
<1>3. Tame' = Tame
  BY DEF Tame
<1>4. StacksOK'
  BY <1>1, <1>3 DEF PanicInv, StacksOK
<1>5. HookFrames' = HookFrames /\ CountedFrames' = CountedFrames
  BY <1>1, HookFramesChange, CountedFramesChange DEF PanicInv, Counts
<1>6. Counts'
  BY <1>5 DEF PanicInv, Counts, EveryPanicChained, PanicsCounted
<1>7. HooksContained'
  BY DEF PanicInv, HooksContained
<1> QED BY <1>2, <1>4, <1>6, <1>7 DEF PanicInv

LEMMA StackOf ==
  ASSUME PanicInv, NEW t \in Threads
  PROVE  StackOK(stack[t], Tame)
BY DEF PanicInv, StacksOK

LEMMA AtTop ==
  ASSUME PanicInv, NEW t \in Threads, NEW pc, At(t, pc)
  PROVE  /\ stack[t] # <<>> /\ Top(t) = Last(stack[t]) /\ Top(t) \in Fault /\ Walks(Top(t))
         /\ Top(t).pc = pc /\ alive
BY StackOf, TopIsFault DEF At, Top

\* A tame hook that panics or constructs a fault is not inside the panic hook.
LEMMA TameIsNotNested ==
  ASSUME PanicInv, NEW t \in Threads, At(t, "call"),
         <<Hook(t), Top(t).type>> \in program.panics \cup program.constructs
  PROVE  Tame => \A i \in 1..Len(stack[t]) : stack[t][i] # InPanicHook
<1> DEFINE s == stack[t]
<1> SUFFICES ASSUME Tame, NEW i \in 1..Len(s), s[i] = InPanicHook PROVE FALSE
  OBVIOUS
<1>1. /\ StackOK(s, Tame) /\ s # <<>> /\ Top(t) = Last(s) /\ Last(s) \in Fault
      /\ Walks(Last(s)) /\ Last(s).pc = "call"
  BY StackOf, AtTop
<1>2. i + 1 = Len(s) /\ Len(s) \in Nat
  BY <1>1 DEF StackOK
<1>3. Last(s).type = "PanicError"
  <2>1. Len(s) - 1 = i /\ Len(s) > 1
    BY <1>2
  <2> QED BY <1>1, <2>1, TopIsFault
<1>4. Hook(t) \in ToSet(Hooks)
  <2>1. Last(s).at \in 1..Len(Hooks)
    BY <1>1, HooksOK DEF Walks, Fault
  <2> QED BY <1>1, <2>1, HooksOK DEF Hook, ToSet
<1> QED BY <1>1, <1>3, <1>4 DEF Tame

LEMMA NumbersOK ==
  ASSUME PanicInv
  PROVE  /\ Cardinality(HookFrames) \in Nat /\ Cardinality(CountedFrames) \in Nat
         /\ chained["alone"] \in Nat /\ chained["afterOurs"] \in Nat
         /\ errorCounts["PanicError"] \in Nat /\ panics \in Nat
         /\ panics = chained["alone"] + chained["afterOurs"] + Cardinality(HookFrames)
                     + (IF alive THEN 0 ELSE 1)
         /\ errorCounts["PanicError"] = chained["afterOurs"] + Cardinality(CountedFrames)
<1>1. Cardinality(HookFrames) \in Nat /\ Cardinality(CountedFrames) \in Nat
  BY FS_CardinalityType DEF PanicInv, Counts
<1>2. /\ chained["alone"] \in Nat /\ chained["afterOurs"] \in Nat
      /\ errorCounts["PanicError"] \in Nat /\ panics \in Nat
  BY BoundsAssumption DEF PanicInv, RangesOK, Types
<1> QED BY <1>1, <1>2 DEF PanicInv, Counts, EveryPanicChained, PanicsCounted

LEMMA ConstructInv ==
  ASSUME PanicInv, NEW t \in Threads, Construct(t)
  PROVE  PanicInv'
<1> DEFINE s == stack[t]
           u == Append(s, Building("App"))
<1>1. /\ StackOK(s, Tame) /\ stack' = [stack EXCEPT ![t] = u]
      /\ UNCHANGED <<program, alive, installed, errorCounts, panics, chained>>
      /\ built' \in 0..MaxFaults
  <2>1. built \in 0..MaxFaults /\ built < MaxFaults /\ built' = built + 1 /\ MaxFaults \in Nat
    BY BoundsAssumption DEF Construct, PanicInv, RangesOK
  <2>2. built' \in 0..MaxFaults
    BY <2>1
  <2> QED BY <2>2, StackOf DEF Construct
<1>2. InUserCode(s)
  BY DEF Construct, InUserCode, Top
<1>3. Tame => \A i \in 1..Len(s) : s[i] # InPanicHook
  <2>1. CASE s = <<>>
    BY <2>1
  <2>2. CASE s # <<>>
    BY <2>2, TameIsNotNested DEF Construct, At
  <2> QED BY <2>1, <2>2
<1>4. /\ StackOK(u, Tame) /\ Len(u) = Len(s) + 1 /\ u[Len(s) + 1] = Building("App")
      /\ \A i \in 1..Len(s) : u[i] = s[i]
  BY <1>1, <1>2, <1>3, PushFault
<1>5. HooksIn(u) = HooksIn(s) /\ CountedIn(u) = CountedIn(s)
  <2>1. Building("App") # InPanicHook /\ Building("App").type # "PanicError"
    BY BuildingOK, FaultIsNoHook DEF Types
  <2>2. Len(s) \in Nat /\ DOMAIN s = 1..Len(s) /\ DOMAIN u = 1..(Len(s) + 1)
    BY <1>1, <1>4 DEF StackOK
  <2> HIDE DEF u
  <2>3. \A i \in DOMAIN u : i \in DOMAIN s \/ u[i] = Building("App")
    BY <1>4, <2>2
  <2>4. \A i \in DOMAIN s : i \in DOMAIN u /\ u[i] = s[i]
    BY <1>4, <2>2
  <2> QED BY <2>1, <2>3, <2>4 DEF HooksIn, CountedIn
<1> HIDE DEF u
<1> QED BY <1>1, <1>4, <1>5, StackMoves

LEMMA CallHookInv ==
  ASSUME PanicInv, NEW t \in Threads, CallHook(t)
  PROVE  PanicInv'
<1> DEFINE s == stack[t]
           g == Last(s)
           f == [Top(t) EXCEPT !.pc = "call", !.ran = Append(@, Hook(t))]
<1>1. /\ StackOK(s, Tame) /\ s # <<>> /\ g \in Fault /\ Walks(g) /\ g = Top(t) /\ g.pc = "next"
      /\ g.at <= Len(Hooks) /\ (g.at > Len(CaptureHooks) => g.counted)
      /\ stack' = [stack EXCEPT ![t] = SetTop(s, f)]
      /\ UNCHANGED <<program, alive, installed, errorCounts, panics, chained, built>>
  BY StackOf, AtTop DEF CallHook
<1>2. g.at \in 1..Len(Hooks) /\ g.ran \in Seq(ToSet(Hooks))
  BY <1>1, HooksOK DEF Fault
<1>3. Hook(t) = Hooks[g.at] /\ Hook(t) \in ToSet(Hooks)
  BY <1>1, <1>2, HooksOK DEF Hook, ToSet
<1>4. Append(g.ran, Hook(t)) \in Seq(ToSet(Hooks))
  BY <1>2, <1>3
<1>5. f \in Fault
  BY <1>1, <1>4 DEF Fault
<1>6. /\ f.pc = "call" /\ f.ran = Append(g.ran, Hook(t)) /\ f.at = g.at
      /\ f.type = g.type /\ f.counted = g.counted
  BY <1>1 DEF Fault
<1> HIDE DEF f
<1>7. Walks(f)
  <2>1. f.ran = SubSeq(Hooks, 1, f.at)
    <3>1. g.ran = SubSeq(Hooks, 1, g.at - 1)
      BY <1>1 DEF Walks
    <3>2. Append(SubSeq(Hooks, 1, g.at - 1), Hooks[g.at]) = SubSeq(Hooks, 1, g.at)
      BY <1>2, HooksOK
    <3> QED BY <1>3, <1>6, <3>1, <3>2
  <2> QED BY <1>1, <1>6, <2>1 DEF Walks
<1>8. /\ StackOK(SetTop(s, f), Tame) /\ HooksIn(SetTop(s, f)) = HooksIn(s)
      /\ CountedIn(SetTop(s, f)) = CountedIn(s)
  BY <1>1, <1>5, <1>6, <1>7, ReplaceTop, ReplaceTopFrames
<1>9. built \in 0..MaxFaults
  BY DEF PanicInv, RangesOK
<1> QED BY <1>1, <1>8, <1>9, StackMoves

LEMMA HookReturnsInv ==
  ASSUME PanicInv, NEW t \in Threads, HookReturns(t)
  PROVE  PanicInv'
<1> DEFINE s == stack[t]
           f == NextHook(Top(t))
<1>1. /\ StackOK(s, Tame) /\ s # <<>> /\ Last(s) \in Fault /\ Walks(Last(s)) /\ Last(s) = Top(t)
      /\ Top(t).pc = "call" /\ stack' = [stack EXCEPT ![t] = SetTop(s, f)]
      /\ UNCHANGED <<program, alive, installed, errorCounts, panics, chained, built>>
  BY StackOf, AtTop DEF HookReturns
<1>2. f \in Fault /\ Walks(f) /\ f.type = Last(s).type /\ f.counted = Last(s).counted
  BY <1>1, NextHookOK
<1> HIDE DEF f
<1>3. /\ StackOK(SetTop(s, f), Tame) /\ HooksIn(SetTop(s, f)) = HooksIn(s)
      /\ CountedIn(SetTop(s, f)) = CountedIn(s)
  BY <1>1, <1>2, ReplaceTop, ReplaceTopFrames
<1>4. built \in 0..MaxFaults
  BY DEF PanicInv, RangesOK
<1> QED BY <1>1, <1>3, <1>4, StackMoves

LEMMA CountInv ==
  ASSUME PanicInv, NEW t \in Threads, Count(t)
  PROVE  PanicInv'
<1> DEFINE s == stack[t]
           g == Last(s)
           f == [Top(t) EXCEPT !.counted = TRUE]
           u == SetTop(s, f)
<1>1. /\ StackOK(s, Tame) /\ s # <<>> /\ g \in Fault /\ Walks(g) /\ g = Top(t) /\ g.pc = "next"
      /\ g.at = Len(CaptureHooks) + 1 /\ ~g.counted
      /\ errorCounts' = [errorCounts EXCEPT ![g.type] = @ + 1]
      /\ stack' = [stack EXCEPT ![t] = u]
      /\ UNCHANGED <<program, alive, installed, panics, chained, built>>
  BY StackOf, AtTop DEF Count
<1>2. f \in Fault
  BY <1>1 DEF Fault
<1>3. f.pc = "next" /\ f.ran = g.ran /\ f.at = g.at /\ f.type = g.type /\ f.counted
  BY <1>1 DEF Fault
<1> HIDE DEF f
<1>4. Walks(f)
  BY <1>1, <1>3, HooksOK DEF Walks
<1>5. /\ StackOK(u, Tame) /\ HooksIn(u) = HooksIn(s)
      /\ IF f.type = "PanicError"
         THEN Len(s) \notin CountedIn(s) /\ CountedIn(u) = CountedIn(s) \cup {Len(s)}
         ELSE CountedIn(u) = CountedIn(s)
  BY <1>1, <1>2, <1>3, <1>4, ReplaceTop, ReplaceTopFrames
<1> HIDE DEF u
<1>6. DOMAIN stack = Threads /\ errorCounts \in [Types -> Nat] /\ g.type \in Types
  BY <1>1 DEF PanicInv, RangesOK, Fault
<1>7. RangesOK'
  <2>1. errorCounts' \in [Types -> Nat]
    BY <1>1, <1>6
  <2>2. stack' \in [Threads -> Seq(Frame)]
    BY <1>1, <1>5, StackTyped
  <2> QED BY <1>1, <2>1, <2>2 DEF PanicInv, RangesOK
<1>8. StacksOK'
  <2>1. Tame' = Tame
    BY <1>1 DEF Tame
  <2> QED BY <1>1, <1>5, <1>6, <2>1 DEF PanicInv, StacksOK
<1>9. Counts'
  <2>1. HookFrames' = HookFrames
    BY <1>1, <1>5, <1>6, HookFramesChange DEF PanicInv, Counts
  <2>2. IsFiniteSet(HookFrames') /\ EveryPanicChained'
    BY <1>1, <2>1 DEF PanicInv, Counts, EveryPanicChained
  <2>3. CASE g.type = "PanicError"
    <3>1. /\ IsFiniteSet(CountedFrames')
          /\ Cardinality(CountedFrames') = Cardinality(CountedFrames) + 1
      BY <1>1, <1>3, <1>5, <1>6, <2>3, CountedFramesChange DEF PanicInv, Counts
    <3>2. errorCounts'["PanicError"] = errorCounts["PanicError"] + 1
      BY <1>1, <1>6, <2>3
    <3>3. Cardinality(CountedFrames) \in Nat /\ chained["afterOurs"] \in Nat
      BY FS_CardinalityType DEF PanicInv, Counts, RangesOK
    <3>4. errorCounts["PanicError"] = chained["afterOurs"] + Cardinality(CountedFrames)
      BY DEF PanicInv, Counts, PanicsCounted
    <3>5. chained'["afterOurs"] = chained["afterOurs"]
      BY <1>1
    <3>6. PanicsCounted'
      BY <3>1, <3>2, <3>3, <3>4, <3>5 DEF PanicsCounted
    <3> QED BY <2>2, <3>1, <3>6 DEF Counts
  <2>4. CASE g.type # "PanicError"
    <3>1. CountedFrames' = CountedFrames
      BY <1>1, <1>3, <1>5, <1>6, <2>4, CountedFramesChange DEF PanicInv, Counts
    <3>2. errorCounts'["PanicError"] = errorCounts["PanicError"]
      BY <1>1, <1>6, <2>4 DEF Types
    <3> QED BY <1>1, <2>2, <3>1, <3>2 DEF PanicInv, Counts, PanicsCounted
  <2> QED BY <2>3, <2>4
<1>10. HooksContained'
  BY <1>1 DEF PanicInv, HooksContained
<1> QED BY <1>7, <1>8, <1>9, <1>10 DEF PanicInv

LEMMA LeaveFaultInv ==
  ASSUME PanicInv, NEW t \in Threads, At(t, "next"), Top(t).counted, LeaveFault(t),
         UNCHANGED <<program, alive, installed, errorCounts, panics, built>>
  PROVE  PanicInv'
<1> DEFINE s == stack[t]
           n == Len(s)
<1>1. /\ StackOK(s, Tame) /\ s # <<>> /\ Last(s) \in Fault /\ Last(s).counted
      /\ n \in Nat /\ n >= 1 /\ Last(s) = s[n] /\ s \in Seq(Frame) /\ s[n] # InPanicHook
      /\ s[n].type = "PanicError" => n > 1 /\ s[n - 1] = InPanicHook
      /\ n > 1 /\ s[n - 1] = InPanicHook => s[n].type = "PanicError"
  <2>1. StackOK(s, Tame) /\ s # <<>> /\ Last(s) = Top(t)
    BY StackOf, AtTop
  <2>2. s \in Seq(Frame)
    BY <2>1 DEF StackOK
  <2> QED BY <2>1, <2>2, TopIsFault, FaultIsNoHook
<1>2. Front(s) = SubSeq(s, 1, n - 1)
  BY DEF Front
<1>3. Len(Front(s)) = n - 1 /\ Front(s) \in Seq(Frame)
  BY <1>1, <1>2
<1>4. Front(s) # <<>> /\ Last(Front(s)) = InPanicHook <=> n > 1 /\ s[n - 1] = InPanicHook
  <2>1. Front(s) # <<>> <=> n > 1
    BY <1>1, <1>3
  <2>2. n > 1 => Last(Front(s)) = s[n - 1]
    BY <1>1, <1>2, <1>3 DEF Last
  <2> QED BY <2>1, <2>2
<1>5. DOMAIN s = 1..n /\ DOMAIN stack = Threads /\ built \in 0..MaxFaults
  BY <1>1 DEF PanicInv, RangesOK
<1>6. CASE n > 1 /\ s[n - 1] = InPanicHook
  <2> DEFINE w == SubSeq(s, 1, n - 2)
             u == Unwound(w)
  <2>1. Front(Front(s)) = w
    <3>1. Front(Front(s)) = SubSeq(Front(s), 1, n - 2)
      BY <1>3, <1>6 DEF Front
    <3> QED BY <1>1, <1>2, <1>6, <3>1
  <2>2. /\ stack' = [stack EXCEPT ![t] = u]
        /\ chained' = [chained EXCEPT !["afterOurs"] = @ + 1]
    BY <1>4, <1>6, <2>1 DEF LeaveFault
  <2>3. n - 2 > 0 => s[n - 2] # InPanicHook
    <3>1. \A i, j \in 1..n : s[i] = InPanicHook /\ s[j] = InPanicHook => i = j
      BY <1>1 DEF StackOK
    <3>2. n - 1 \in 1..n /\ (n - 2 > 0 => n - 2 \in 1..n) /\ n - 1 # n - 2
      BY <1>1, <1>6
    <3> QED BY <1>6, <3>1, <3>2
  <2>4. /\ StackOK(w, Tame) /\ Len(w) = n - 2 /\ \A i \in 1..(n - 2) : w[i] = s[i]
        /\ InUserCode(w)
    <3>1. n - 2 \in 0..(n - 1) /\ n - 2 >= n - 2 /\ s[(n - 2) + 1] = InPanicHook
      BY <1>1, <1>6
    <3> QED BY <1>1, <2>3, <3>1, PopFault
  <2>5. DOMAIN w = 1..(n - 2)
    BY <2>4 DEF StackOK
  <2> HIDE DEF w
  <2>6. /\ StackOK(u, Tame) /\ HooksIn(u) = HooksIn(w) /\ CountedIn(u) = CountedIn(w)
    BY <2>4, UnwoundOK
  <2>7. n - 1 \in HooksIn(s) /\ HooksIn(w) = HooksIn(s) \ {n - 1}
    <3>1. n - 1 \in HooksIn(s)
      BY <1>1, <1>5, <1>6 DEF HooksIn
    <3>2. \A i \in 1..n : i \in 1..(n - 2) \/ i = n - 1 \/ i = n
      BY <1>1
    <3>3. \A i \in 1..(n - 2) : i \in 1..n /\ i # n - 1
      BY <1>1
    <3> QED BY <1>1, <1>5, <2>4, <2>5, <3>1, <3>2, <3>3 DEF HooksIn
  <2>8. n \in CountedIn(s) /\ CountedIn(w) = CountedIn(s) \ {n}
    <3>1. n \in CountedIn(s)
      BY <1>1, <1>5, <1>6 DEF CountedIn
    <3>2. \A i \in 1..n : i \in 1..(n - 2) \/ i = n - 1 \/ i = n
      BY <1>1
    <3>3. \A i \in 1..(n - 2) : i \in 1..n /\ i # n
      BY <1>1
    <3> QED BY <1>1, <1>5, <1>6, <2>4, <2>5, <3>1, <3>2, <3>3 DEF CountedIn
  <2> HIDE DEF u
  <2>9. RangesOK'
    <3>1. chained' \in [{"alone", "afterOurs"} -> Nat]
      BY <2>2 DEF PanicInv, RangesOK
    <3>2. stack' \in [Threads -> Seq(Frame)]
      BY <2>2, <2>6, StackTyped
    <3> QED BY <3>1, <3>2 DEF PanicInv, RangesOK
  <2>10. StacksOK'
    <3>1. Tame' = Tame
      BY DEF Tame
    <3> QED BY <1>5, <2>2, <2>6, <3>1 DEF PanicInv, StacksOK
  <2>11. Counts'
    <3>1. /\ IsFiniteSet(HookFrames') /\ Cardinality(HookFrames') = Cardinality(HookFrames) - 1
      BY <1>5, <2>2, <2>6, <2>7, HookFramesChange DEF PanicInv, Counts
    <3>2. /\ IsFiniteSet(CountedFrames')
          /\ Cardinality(CountedFrames') = Cardinality(CountedFrames) - 1
      BY <1>5, <2>2, <2>6, <2>8, CountedFramesChange DEF PanicInv, Counts
    <3>3. /\ chained'["afterOurs"] = chained["afterOurs"] + 1
          /\ chained'["alone"] = chained["alone"]
      BY <2>2 DEF PanicInv, RangesOK
    <3>4. EveryPanicChained'
      BY <3>1, <3>3, NumbersOK DEF EveryPanicChained
    <3>5. PanicsCounted'
      BY <3>2, <3>3, NumbersOK DEF PanicsCounted
    <3> QED BY <3>1, <3>2, <3>4, <3>5 DEF Counts
  <2>12. HooksContained'
    BY DEF PanicInv, HooksContained
  <2> QED BY <2>9, <2>10, <2>11, <2>12 DEF PanicInv
<1>7. CASE ~(n > 1 /\ s[n - 1] = InPanicHook)
  <2> DEFINE u == SubSeq(s, 1, n - 1)
  <2>1. stack' = [stack EXCEPT ![t] = u] /\ chained' = chained
    BY <1>2, <1>4, <1>7 DEF LeaveFault
  <2>2. /\ StackOK(u, Tame) /\ Len(u) = n - 1 /\ \A i \in 1..(n - 1) : u[i] = s[i]
    <3>1. n - 1 \in 0..(n - 1) /\ n - 1 >= n - 2 /\ n - 1 # n - 2
      BY <1>1
    <3>2. n - 1 > 0 => s[n - 1] # InPanicHook
      BY <1>1, <1>7
    <3> QED BY <1>1, <3>1, <3>2, PopFault
  <2>3. DOMAIN u = 1..(n - 1)
    BY <2>2 DEF StackOK
  <2> HIDE DEF u
  <2>4. \A i \in 1..n : i \in 1..(n - 1) \/ i = n
    BY <1>1
  <2>5. \A i \in 1..(n - 1) : i \in 1..n
    BY <1>1
  <2>6. HooksIn(u) = HooksIn(s)
    BY <1>1, <1>5, <2>2, <2>3, <2>4, <2>5 DEF HooksIn
  <2>7. CountedIn(u) = CountedIn(s)
    BY <1>1, <1>5, <1>7, <2>2, <2>3, <2>4, <2>5 DEF CountedIn
  <2> QED BY <1>5, <2>1, <2>2, <2>6, <2>7, StackMoves
<1> QED BY <1>6, <1>7

LEMMA PanicInvStep ==
  ASSUME PanicInv, NEW t \in Threads, alive, InUserCode(stack[t]), Panic(t),
         Tame => \A i \in 1..Len(stack[t]) : stack[t][i] # InPanicHook
  PROVE  PanicInv'
<1> DEFINE s == stack[t]
<1>1. /\ StackOK(s, Tame) /\ s \in Seq(Frame) /\ Len(s) \in Nat /\ DOMAIN s = 1..Len(s)
  BY StackOf DEF StackOK
<1>2. /\ DOMAIN stack = Threads /\ chained \in [{"alone", "afterOurs"} -> Nat]
      /\ UNCHANGED <<program, installed, errorCounts, built>> /\ panics' = panics + 1
  BY DEF Panic, PanicInv, RangesOK
<1>3. panics' \in 0..MaxPanics
  BY <1>2, BoundsAssumption DEF Panic, PanicInv, RangesOK
<1>4. Tame' = Tame
  BY <1>2 DEF Tame
<1>5. CASE Nests(t) /\ alive' = FALSE /\ UNCHANGED <<stack, chained>>
  <2>1. RangesOK'
    BY <1>2, <1>3, <1>5 DEF PanicInv, RangesOK
  <2>2. StacksOK'
    BY <1>4, <1>5 DEF PanicInv, StacksOK
  <2>3. HookFrames' = HookFrames /\ CountedFrames' = CountedFrames
    BY <1>5 DEF HookFrames, CountedFrames, Frames, FrameAt
  <2>4. EveryPanicChained'
    BY <1>2, <1>5, <2>3, NumbersOK DEF EveryPanicChained
  <2>5. PanicsCounted'
    BY <1>2, <1>5, <2>3, NumbersOK DEF PanicsCounted
  <2>6. ~Tame
    BY <1>1, <1>5 DEF Nests
  <2>7. HooksContained'
    BY <1>2, <2>6 DEF HooksContained, Tame
  <2> QED BY <2>1, <2>2, <2>3, <2>4, <2>5, <2>7 DEF PanicInv, Counts
<1>6. CASE /\ ~Nests(t) /\ stack' = [stack EXCEPT ![t] = Ours(t)]
           /\ UNCHANGED <<alive, chained>>
  <2> DEFINE u == Ours(t)
  <2>1. \A i \in 1..Len(s) : s[i] # InPanicHook
    BY <1>1, <1>6 DEF Nests
  <2>2. /\ StackOK(u, Tame) /\ Len(u) = Len(s) + 2
        /\ u[Len(s) + 1] = InPanicHook /\ u[Len(s) + 2] = Building("PanicError")
        /\ \A i \in 1..Len(s) : u[i] = s[i]
    BY <1>1, <2>1, PushPanicHook, ZenonT(40) DEF Ours
  <2>3. DOMAIN u = 1..(Len(s) + 2)
    BY <2>2 DEF StackOK
  <2> HIDE DEF u
  <2>4. \A i \in 1..(Len(s) + 2) : i \in 1..Len(s) \/ i = Len(s) + 1 \/ i = Len(s) + 2
    BY <1>1
  <2>5. /\ \A i \in 1..Len(s) : i \in 1..(Len(s) + 2)
        /\ Len(s) + 1 \in 1..(Len(s) + 2) /\ Len(s) + 1 \notin 1..Len(s)
    BY <1>1
  <2>6. Building("PanicError") # InPanicHook /\ Building("PanicError").counted = FALSE
    BY BuildingOK, FaultIsNoHook DEF Types
  <2>7. Len(s) + 1 \notin HooksIn(s) /\ HooksIn(u) = HooksIn(s) \cup {Len(s) + 1}
    BY <1>1, <2>1, <2>2, <2>3, <2>4, <2>5, <2>6 DEF HooksIn
  <2>8. CountedIn(u) = CountedIn(s)
    BY <1>1, <2>1, <2>2, <2>3, <2>4, <2>5, <2>6 DEF CountedIn
  <2>9. stack' = [stack EXCEPT ![t] = u]
    BY <1>6 DEF u
  <2>10. RangesOK'
    <3>1. stack' \in [Threads -> Seq(Frame)]
      BY <2>2, <2>9, StackTyped
    <3> QED BY <1>2, <1>3, <1>6, <3>1 DEF PanicInv, RangesOK
  <2>11. StacksOK'
    BY <1>2, <1>4, <2>2, <2>9 DEF PanicInv, StacksOK
  <2>12. /\ IsFiniteSet(HookFrames') /\ Cardinality(HookFrames') = Cardinality(HookFrames) + 1
    BY <1>2, <2>7, <2>9, HookFramesChange DEF PanicInv, Counts
  <2>13. CountedFrames' = CountedFrames
    BY <1>2, <2>8, <2>9, CountedFramesChange DEF PanicInv, Counts
  <2>14. EveryPanicChained'
    BY <1>2, <1>6, <2>12, NumbersOK DEF EveryPanicChained
  <2>15. PanicsCounted'
    BY <1>2, <1>6, <2>13, NumbersOK DEF PanicsCounted
  <2>16. HooksContained'
    BY <1>2, <1>6 DEF PanicInv, HooksContained
  <2> QED BY <2>10, <2>11, <2>12, <2>13, <2>14, <2>15, <2>16 DEF PanicInv, Counts
<1>7. CASE /\ chained' = [chained EXCEPT !["alone"] = @ + 1]
           /\ stack' = [stack EXCEPT ![t] = Unwound(@)] /\ UNCHANGED alive
  <2> DEFINE u == Unwound(s)
  <2>1. StackOK(u, Tame) /\ HooksIn(u) = HooksIn(s) /\ CountedIn(u) = CountedIn(s)
    BY <1>1, UnwoundOK
  <2>2. stack' = [stack EXCEPT ![t] = u]
    BY <1>7
  <2> HIDE DEF u
  <2>3. /\ chained' \in [{"alone", "afterOurs"} -> Nat]
        /\ chained'["alone"] = chained["alone"] + 1
        /\ chained'["afterOurs"] = chained["afterOurs"]
    BY <1>2, <1>7
  <2>4. RangesOK'
    <3>1. stack' \in [Threads -> Seq(Frame)]
      BY <2>1, <2>2, StackTyped
    <3> QED BY <1>2, <1>3, <1>7, <2>3, <3>1 DEF PanicInv, RangesOK
  <2>5. StacksOK'
    BY <1>2, <1>4, <2>1, <2>2 DEF PanicInv, StacksOK
  <2>6. HookFrames' = HookFrames /\ CountedFrames' = CountedFrames
    BY <1>2, <2>1, <2>2, HookFramesChange, CountedFramesChange DEF PanicInv, Counts
  <2>7. EveryPanicChained'
    BY <1>2, <1>7, <2>3, <2>6, NumbersOK DEF EveryPanicChained
  <2>8. PanicsCounted'
    BY <1>2, <2>3, <2>6, NumbersOK DEF PanicsCounted
  <2>9. HooksContained'
    BY <1>2, <1>7 DEF PanicInv, HooksContained
  <2> QED BY <2>4, <2>5, <2>6, <2>7, <2>8, <2>9 DEF PanicInv, Counts
<1> QED BY <1>5, <1>6, <1>7 DEF Panic

LEMMA NextPanic == PanicInv /\ [Next]_vars => PanicInv'
<1> SUFFICES ASSUME PanicInv, [Next]_vars PROVE PanicInv'
  OBVIOUS
<1>1. CASE Install
  <2>1. /\ UNCHANGED <<program, alive, stack, errorCounts, panics, chained, built>>
        /\ installed' \in BOOLEAN
    BY <1>1 DEF Install
  <2>2. HookFrames' = HookFrames /\ CountedFrames' = CountedFrames
    BY <2>1 DEF HookFrames, CountedFrames, Frames, FrameAt
  <2> QED BY <2>1, <2>2 DEF PanicInv, RangesOK, StacksOK, Tame, Counts, EveryPanicChained,
                            PanicsCounted, HooksContained
<1>2. ASSUME NEW t \in Threads, HookPanics(t)
      PROVE  PanicInv'
  <2>1. alive /\ InUserCode(stack[t]) /\ Panic(t)
    BY <1>2, AtTop DEF HookPanics, InUserCode, At, Top
  <2>2. Tame => \A i \in 1..Len(stack[t]) : stack[t][i] # InPanicHook
    BY <1>2, TameIsNotNested DEF HookPanics
  <2> QED BY <2>1, <2>2, PanicInvStep
<1>3. ASSUME NEW t \in Threads, UserPanics(t)
      PROVE  PanicInv'
  <2>1. alive /\ stack[t] = <<>> /\ Panic(t)
    BY <1>3 DEF UserPanics
  <2>2. InUserCode(stack[t]) /\ \A i \in 1..Len(stack[t]) : stack[t][i] # InPanicHook
    BY <2>1 DEF InUserCode
  <2> QED BY <2>1, <2>2, PanicInvStep
<1>4. ASSUME NEW t \in Threads, Suppress(t) \/ Finish(t)
      PROVE  PanicInv'
  BY <1>4, LeaveFaultInv DEF Suppress, Finish
<1>5. CASE UNCHANGED vars
  <2>1. HookFrames' = HookFrames /\ CountedFrames' = CountedFrames
    BY <1>5 DEF HookFrames, CountedFrames, Frames, FrameAt, vars
  <2> QED BY <1>5, <2>1 DEF PanicInv, RangesOK, StacksOK, Tame, Counts, EveryPanicChained,
                            PanicsCounted, HooksContained, vars
<1> QED BY <1>1, <1>2, <1>3, <1>4, <1>5, ConstructInv, CallHookInv, HookReturnsInv, CountInv
        DEF Next

\* Whatever the hooks do, the stacks are as the panic hook and the catch_unwind of
\* the fan-out (src/src/deploy.rs, install_panic_hook; src/src/hook.rs, invoke)
\* make them.
THEOREM PanicInvariant == Spec => []PanicInv
BY InitPanic, NextPanic, PTL DEF Spec

LEMMA PanicInvType == PanicInv => TypeOK
<1> SUFFICES ASSUME PanicInv PROVE TypeOK
  OBVIOUS
<1>1. stack \in [Threads -> Seq(Frame)]
  BY DEF PanicInv, RangesOK
<1>2. \A t \in Threads : \A i \in 1..Len(stack[t]) :
        stack[t][i] = InPanicHook => i < Len(stack[t]) /\ stack[t][i + 1].type = "PanicError"
  BY DEF PanicInv, StacksOK, StackOK
<1> QED BY <1>1, <1>2 DEF PanicInv, RangesOK, TypeOK, Frame

\* Every panic is counted once, before the previous hook sees it, and hooks that
\* keep off the faults of panics cannot abort the process, however they nest.
THEOREM PanicsAreContained == Spec => []Inv
<1>1. PanicInv => Inv
  BY PanicInvType DEF Inv, PanicInv, Counts
<1> QED BY <1>1, PanicInvariant, PTL

\* install_panic_hook never stomps the hook it found: every panic reaches it once.
THEOREM NoPanicLost == Spec => []EveryPanicChained
<1>1. PanicInv => EveryPanicChained
  BY DEF PanicInv, Counts
<1> QED BY <1>1, PanicInvariant, PTL

\* A hook that panics does not keep the later hooks from the fault: a construction
\* ends with all hooks called, or with all capture hooks if the throttle says so.
THEOREM FanOutSurvivesPanics == Spec => FansOutAcrossPanics
<1> DEFINE A == \A t \in Threads : \A i \in 1..Len(stack[t]) :
                  /\ stack[t][i] # InPanicHook
                  /\ i > Len(stack'[t])
                  => stack[t][i].ran \in {CaptureHooks, Hooks}
<1>1. ASSUME PanicInv, NEW t \in Threads, LeaveFault(t), At(t, "next"),
             Top(t).ran \in {CaptureHooks, Hooks}
      PROVE  A
  <2> DEFINE s == stack[t]
             n == Len(s)
  <2>1. /\ StackOK(s, Tame) /\ s # <<>> /\ n \in Nat /\ n >= 1 /\ Top(t) = s[n]
        /\ s \in Seq(Frame) /\ DOMAIN stack = Threads
    BY <1>1, StackOf, AtTop, TopIsFault DEF StackOK, PanicInv, RangesOK
  <2>2. \A x \in Threads : x # t => stack'[x] = stack[x]
    BY <1>1, <2>1 DEF LeaveFault
  <2>3. \A i \in 1..n : s[i] # InPanicHook /\ i > Len(stack'[t]) => i = n
    <3> DEFINE outer == Front(s)
    <3>1. outer = SubSeq(s, 1, n - 1) /\ outer \in Seq(Frame) /\ Len(outer) = n - 1
      <4>1. outer = SubSeq(s, 1, n - 1)
        BY DEF Front
      <4>2. SubSeq(s, 1, n - 1) \in Seq(Frame) /\ Len(SubSeq(s, 1, n - 1)) = n - 1
        <5>1. n - 1 \in 0..n
          BY <2>1
        <5> QED BY <2>1, <5>1, Prefix
      <4> QED BY <4>1, <4>2
    <3>2. CASE outer # <<>> /\ Last(outer) = InPanicHook
      <4> DEFINE w == Front(outer)
      <4>1. stack'[t] = Unwound(w)
        BY <1>1, <2>1, <3>2 DEF LeaveFault
      <4>2. n > 1 /\ s[n - 1] = InPanicHook
        BY <2>1, <3>1, <3>2 DEF Last
      <4>3. w = SubSeq(s, 1, n - 2)
        BY <2>1, <3>1, <4>2 DEF Front
      <4>4. w \in Seq(Frame) /\ Len(w) = n - 2
        <5>1. SubSeq(s, 1, n - 2) \in Seq(Frame) /\ Len(SubSeq(s, 1, n - 2)) = n - 2
          <6>1. n - 2 \in 0..n
            BY <2>1, <4>2
          <6> QED BY <2>1, <6>1, Prefix
        <5> QED BY <4>3, <5>1
      <4> HIDE DEF w
      <4>5. Len(Unwound(w)) = n - 2
        BY <4>4 DEF Unwound, SetTop
      <4> QED BY <2>1, <4>1, <4>2, <4>5
    <3>3. CASE ~(outer # <<>> /\ Last(outer) = InPanicHook)
      <4>1. stack'[t] = outer
        BY <1>1, <2>1, <3>3 DEF LeaveFault
      <4> QED BY <2>1, <3>1, <4>1
    <3> QED BY <3>2, <3>3
  <2> SUFFICES ASSUME NEW x \in Threads, NEW i \in 1..Len(stack[x]),
                      stack[x][i] # InPanicHook, i > Len(stack'[x])
               PROVE  stack[x][i].ran \in {CaptureHooks, Hooks}
    OBVIOUS
  <2>4. x = t
    <3>1. stack[x] \in Seq(Frame)
      BY <1>1, StackOf DEF StackOK
    <3> QED BY <2>2, <3>1
  <2> QED BY <1>1, <2>1, <2>3, <2>4
<1>2. ASSUME PanicInv, NEW t \in Threads, Suppress(t) \/ Finish(t)
      PROVE  Top(t).ran \in {CaptureHooks, Hooks}
  <2>1. /\ Walks(Top(t)) /\ Top(t).pc = "next" /\ Top(t) \in Fault
        /\ Top(t).at = Len(CaptureHooks) + 1 \/ Top(t).at > Len(Hooks)
    BY <1>2, AtTop DEF Suppress, Finish
  <2>2. Top(t).ran = SubSeq(Hooks, 1, Top(t).at - 1)
    BY <2>1 DEF Walks
  <2>3. CASE Top(t).at = Len(CaptureHooks) + 1
    <3>1. Top(t).at - 1 = Len(CaptureHooks)
      BY <2>3, HooksOK
    <3> QED BY <2>2, <3>1, HooksOK
  <2>4. CASE Top(t).at > Len(Hooks)
    <3>1. Top(t).at - 1 = Len(Hooks)
      BY <2>1, <2>4, HooksOK DEF Fault
    <3> QED BY <2>2, <3>1, HooksOK
  <2> QED BY <2>1, <2>3, <2>4
<1>3. ASSUME PanicInv, [Next]_vars,
             \A t \in Threads : ~Suppress(t) /\ ~Finish(t)
      PROVE  \A t \in Threads : Len(stack'[t]) >= Len(stack[t])
  <2> DEFINE Grows(t) == \E u : stack' = [stack EXCEPT ![t] = u] /\ Len(u) >= Len(stack[t])
  <2>1. DOMAIN stack = Threads /\ \A t \in Threads : Len(stack[t]) \in Nat
    BY <1>3 DEF PanicInv, RangesOK, StacksOK, StackOK
  <2>2. stack' = stack \/ \E t \in Threads : Grows(t)
    <3>1. ASSUME NEW t \in Threads, Construct(t)
          PROVE  Grows(t)
      <4>1. stack[t] \in Seq(Frame) /\ Building("App") \in Frame
        BY <1>3, StackOf, BuildingOK DEF StackOK, Frame, Types
      <4>2. Len(Append(stack[t], Building("App"))) >= Len(stack[t])
        BY <4>1
      <4> QED BY <3>1, <4>2 DEF Construct
    <3>2. ASSUME NEW t \in Threads, CallHook(t) \/ HookReturns(t) \/ Count(t)
          PROVE  Grows(t)
      <4>1. \E f : stack' = [stack EXCEPT ![t] = SetTop(stack[t], f)]
        BY <3>2 DEF CallHook, HookReturns, Count
      <4>2. \A f : Len(SetTop(stack[t], f)) >= Len(stack[t])
        BY <1>3, <2>1, StackOf DEF StackOK, SetTop
      <4> QED BY <4>1, <4>2
    <3>3. ASSUME NEW t \in Threads, HookPanics(t) \/ UserPanics(t)
          PROVE  stack' = stack \/ Grows(t)
      <4>1. CASE stack' = stack
        BY <4>1
      <4>2. CASE stack' = [stack EXCEPT ![t] = Ours(t)]
        <5>1. stack[t] \in Seq(Frame) /\ <<InPanicHook, Building("PanicError")>> \in Seq(Frame)
          BY <1>3, StackOf, BuildingOK DEF StackOK, Frame, Types
        <5>2. Len(Ours(t)) >= Len(stack[t])
          BY <5>1 DEF Ours
        <5> QED BY <4>2, <5>2
      <4>3. CASE stack' = [stack EXCEPT ![t] = Unwound(stack[t])]
        <5>1. stack[t] \in Seq(Frame)
          BY <1>3, StackOf DEF StackOK
        <5>2. Len(Unwound(stack[t])) >= Len(stack[t])
          BY <5>1 DEF Unwound, SetTop
        <5> QED BY <4>3, <5>2
      <4> QED BY <3>3, <4>1, <4>2, <4>3 DEF HookPanics, UserPanics, Panic
    <3> HIDE DEF Grows
    <3>4. CASE Install \/ UNCHANGED vars
      BY <3>4 DEF Install, vars
    <3> QED BY <1>3, <3>1, <3>2, <3>3, <3>4 DEF Next
  <2> QED BY <2>1, <2>2
<1>4. PanicInv /\ [Next]_vars => A
  <2> SUFFICES ASSUME PanicInv, [Next]_vars PROVE A
    OBVIOUS
  <2>1. CASE \E t \in Threads : Suppress(t) \/ Finish(t)
    <3>1. PICK t \in Threads : Suppress(t) \/ Finish(t)
      BY <2>1
    <3>2. LeaveFault(t) /\ At(t, "next")
      BY <3>1 DEF Suppress, Finish
    <3> QED BY <1>1, <1>2, <3>1, <3>2
  <2>2. CASE ~\E t \in Threads : Suppress(t) \/ Finish(t)
    <3>1. \A t \in Threads : Len(stack'[t]) >= Len(stack[t]) /\ Len(stack[t]) \in Nat
      BY <1>3, <2>2 DEF PanicInv, StacksOK, StackOK
    <3>2. \A t \in Threads : \A i \in 1..Len(stack[t]) : ~(i > Len(stack'[t]))
      <4> SUFFICES ASSUME NEW t \in Threads, NEW i \in 1..Len(stack[t]) PROVE ~(i > Len(stack'[t]))
        OBVIOUS
      <4>1. Len(stack'[t]) >= Len(stack[t]) /\ Len(stack[t]) \in Nat /\ i <= Len(stack[t])
        BY <3>1
      <4> QED BY <4>1
    <3> QED BY <3>2
  <2> QED BY <2>1, <2>2
<1>5. PanicInv /\ [Next]_vars => [A]_vars
  BY <1>4
<1> QED BY <1>5, PanicInvariant, PTL DEF Spec, FansOutAcrossPanics
=============================================================================
