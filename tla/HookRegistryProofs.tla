------------------------- MODULE HookRegistryProofs -------------------------
(***************************************************************************)
(* The inductive invariant of HookRegistry, for any set of callers and any *)
(* number of hooks, and from it: the built-in hook stays first, no hook is *)
(* listed twice, no registration is lost and none comes back, and the      *)
(* mutex protocol implements AtomicHooks.                                  *)
(***************************************************************************)
EXTENDS HookRegistry, SequenceTheorems, TLAPS

\* The identities a vector may hold.
Entry == {Builtin} \cup Ids

\* What push makes: the old vector and the new hook behind it.
LEMMA AppendOK ==
  ASSUME NEW s \in Seq(Entry), NEW id \in Ids
  PROVE  /\ Append(s, id) \in Seq(Entry)
         /\ Len(Append(s, id)) = Len(s) + 1
         /\ \A i \in 1..Len(s) : Append(s, id)[i] = s[i]
         /\ Append(s, id)[Len(s) + 1] = id
<1>1. id \in Entry
  BY DEF Entry
<1>2. QED
  BY <1>1, AppendProperties

\* What retain makes: the vector without position k.
LEMMA DropAtOK ==
  ASSUME NEW s \in Seq(Entry), NEW k \in 1..Len(s)
  PROVE  /\ DropAt(s, k) \in Seq(Entry)
         /\ Len(DropAt(s, k)) = Len(s) - 1
         /\ \A i \in 1..(Len(s) - 1) :
              DropAt(s, k)[i] = IF i < k THEN s[i] ELSE s[i + 1]
<1>1. Len(s) - 1 \in Nat
  OBVIOUS
<1>2. DropAt(s, k) \in [1..(Len(s) - 1) -> Entry]
  <2>1. \A i \in 1..(Len(s) - 1) : s[i] \in Entry /\ s[i + 1] \in Entry
    BY ElementOfSeq
  <2>2. QED
    BY <2>1 DEF DropAt
<1>3. QED
  BY <1>1, <1>2, IsASeq, LenProperties DEF DropAt

LEMMA InitInv == Init => Inv
<1>1. SUFFICES ASSUME Init PROVE Inv
  OBVIOUS
<1>2. <<Builtin>> \in Seq({Builtin} \cup Ids) /\ <<>> \in Seq({Builtin} \cup Ids)
  OBVIOUS
<1>3. TypeOK
  BY <1>1, <1>2, MaxHooksAssumption
     DEF Init, TypeOK, Idle, Call, Family
<1>4. BuiltinFirst /\ DistinctHooks /\ HooksAreLive
  BY <1>1 DEF Init, BuiltinFirst, DistinctHooks, HooksAreLive
<1>5. Exclusive /\ FreshIds /\ CallShape
  BY <1>1 DEF Init, Exclusive, FreshIds, CallShape, Idle
<1>6. QED
  BY <1>3, <1>4, <1>5 DEF Inv

-----------------------------------------------------------------------------
\* One lemma per action.

LEMMA BeginAddInv ==
  ASSUME NEW c \in Caller, NEW f \in Family, Inv, BeginAdd(c, f)
  PROVE  Inv'
<1> USE DEF Inv, BeginAdd
<1>1. nextId[f] \in Ids /\ <<>> \in Seq({Builtin} \cup Ids)
  BY MaxHooksAssumption DEF TypeOK, Ids
<1>2. TypeOK'
  BY <1>1, MaxHooksAssumption DEF TypeOK, Call, Ids
<1>3. BuiltinFirst' /\ DistinctHooks' /\ HooksAreLive'
  BY DEF BuiltinFirst, DistinctHooks, HooksAreLive
<1>4. Exclusive'
  BY DEF Exclusive, TypeOK
<1>5. FreshIds'
  BY <1>1 DEF FreshIds, TypeOK, Ids
<1>6. CallShape'
  BY DEF CallShape, TypeOK
<1>7. QED
  BY <1>2, <1>3, <1>4, <1>5, <1>6

LEMMA BeginRemoveInv ==
  ASSUME NEW c \in Caller, NEW id, Inv, BeginRemove(c, id)
  PROVE  Inv'
<1> USE DEF Inv, BeginRemove
<1>1. id \in issued["sink"] /\ id \in Ids /\ <<>> \in Seq({Builtin} \cup Ids)
  BY DEF TypeOK, Family
<1>2. TypeOK'
  BY <1>1 DEF TypeOK, Call, Family
<1>3. BuiltinFirst' /\ DistinctHooks' /\ HooksAreLive'
  BY DEF BuiltinFirst, DistinctHooks, HooksAreLive
<1>4. Exclusive'
  BY DEF Exclusive, TypeOK
<1>5. FreshIds'
  BY <1>1 DEF FreshIds, TypeOK
<1>6. CallShape'
  BY <1>1 DEF CallShape, TypeOK
<1>7. QED
  BY <1>2, <1>3, <1>4, <1>5, <1>6

LEMMA BeginClearInv ==
  ASSUME NEW c \in Caller, Inv, BeginClear(c)
  PROVE  Inv'
<1> USE DEF Inv, BeginClear
<1>1. <<>> \in Seq({Builtin} \cup Ids)
  OBVIOUS
<1>2. TypeOK'
  BY <1>1 DEF TypeOK, Call, Family
<1>3. BuiltinFirst' /\ DistinctHooks' /\ HooksAreLive'
  BY DEF BuiltinFirst, DistinctHooks, HooksAreLive
<1>4. Exclusive'
  BY DEF Exclusive, TypeOK
<1>5. FreshIds'
  BY DEF FreshIds, TypeOK
<1>6. CallShape'
  BY DEF CallShape, TypeOK
<1>7. QED
  BY <1>2, <1>3, <1>4, <1>5, <1>6

LEMMA AcquireInv ==
  ASSUME NEW c \in Caller, Inv, Acquire(c)
  PROVE  Inv'
<1> USE DEF Inv, Acquire
<1> DEFINE f == call[c].fam
<1>1. f \in Family /\ call[c] \in Call
  BY DEF TypeOK, Call
<1>2. TypeOK'
  BY <1>1 DEF TypeOK, Call
<1>3. BuiltinFirst' /\ DistinctHooks' /\ HooksAreLive'
  BY DEF BuiltinFirst, DistinctHooks, HooksAreLive
<1>4. Exclusive'
  <2>1. \A d \in Caller \ {c} : call[d].step = "locked" => call[d].fam # f
    BY CallerAssumption DEF Exclusive, Free
  <2>2. \A d \in Caller \ {c} : call'[d] = call[d]
    BY DEF TypeOK
  <2>3. call'[c].fam = f /\ call'[c].copy = slots[f]
    BY <1>1 DEF TypeOK, Call
  <2>4. holder'[f] = c /\ \A g \in Family \ {f} : holder'[g] = holder[g]
    BY <1>1 DEF TypeOK
  <2>5. \A d \in Caller : call[d].fam \in Family
    BY DEF TypeOK, Call
  <2>6. QED
    BY <2>1, <2>2, <2>3, <2>4, <2>5 DEF Exclusive
<1>5. FreshIds'
  BY <1>1 DEF FreshIds, TypeOK, Call
<1>6. CallShape'
  BY <1>1 DEF CallShape, TypeOK, Call
<1>7. QED
  BY <1>2, <1>3, <1>4, <1>5, <1>6

\* What leaving the critical section does to the calls: c is idle, the others
\* are where they were and none of them is inside the same section.
LEMMA LeaveOK ==
  ASSUME NEW c \in Caller, Inv, call[c].step = "locked", Leave(c)
  PROVE  /\ call' \in [Caller -> Call]
         /\ holder' \in [Family -> Caller \cup {Nobody}]
         /\ call'[c].step = "idle"
         /\ call'[c].kind = "none"
         /\ \A d \in Caller \ {c} : call'[d] = call[d]
         /\ \A d \in Caller \ {c} :
              call[d].step = "locked" => /\ call[d].fam # call[c].fam
                                         /\ holder'[call[d].fam] = d
<1> USE DEF Inv, Leave
<1>1. Idle \in Call
  <2>1. <<>> \in Seq({Builtin} \cup Ids)
    OBVIOUS
  <2>2. QED
    BY <2>1 DEF Idle, Call, Family
<1>2. \A d \in Caller : call[d] \in Call /\ call[d].fam \in Family
  BY DEF TypeOK, Call
<1>3. call' \in [Caller -> Call] /\ holder' \in [Family -> Caller \cup {Nobody}]
  BY <1>1, <1>2 DEF TypeOK
<1>4. /\ call'[c].step = "idle"
      /\ call'[c].kind = "none"
      /\ \A d \in Caller \ {c} : call'[d] = call[d]
  BY DEF Idle, TypeOK
<1>5. \A d \in Caller \ {c} :
        call[d].step = "locked" => /\ call[d].fam # call[c].fam
                                   /\ holder'[call[d].fam] = d
  BY <1>2 DEF Exclusive, TypeOK
<1>6. QED
  BY <1>3, <1>4, <1>5

\* Leaving keeps the mutual exclusion if only c's own family changed.
LEMMA LeaveExclusive ==
  ASSUME NEW c \in Caller, Inv, call[c].step = "locked", Leave(c),
         \A g \in Family \ {call[c].fam} : slots'[g] = slots[g]
  PROVE  Exclusive'
<1>1. SUFFICES ASSUME NEW d \in Caller, call'[d].step = "locked"
               PROVE  /\ holder'[call'[d].fam] = d
                      /\ call'[d].copy = slots'[call'[d].fam]
  BY DEF Exclusive
<1>2. d # c
  BY <1>1, LeaveOK
<1>3. /\ call'[d] = call[d]
      /\ call[d].fam # call[c].fam
      /\ holder'[call[d].fam] = d
  BY <1>1, <1>2, LeaveOK
<1>4. call[d].fam \in Family /\ call[d].copy = slots[call[d].fam]
  BY <1>1, <1>3 DEF Inv, TypeOK, Call, Exclusive
<1>5. QED
  BY <1>3, <1>4

\* Leaving keeps the drawn ids fresh if c's own id is the only one issued
\* and only issued ids are retired.
LEMMA LeaveFresh ==
  ASSUME NEW c \in Caller, Inv, call[c].step = "locked", Leave(c),
         \A g \in Family : /\ retired'[g] \subseteq issued'[g]
                           /\ issued[g] \subseteq issued'[g],
         \A g \in Family : \A x \in issued'[g] \ issued[g] :
            g = call[c].fam /\ x = call[c].id /\ call[c].kind = "add"
  PROVE  FreshIds'
<1>1. \A d \in Caller : call'[d].step # "idle" => d # c /\ call'[d] = call[d]
  BY LeaveOK
<1>2. nextId' = nextId
  BY DEF Leave
<1>3. \A d \in Caller : call[d].fam \in Family
  BY DEF Inv, TypeOK, Call
<1>4. \A g \in Family : \A x \in issued'[g] : x < nextId'[g]
  BY <1>2, <1>3 DEF Inv, FreshIds
<1>5. ASSUME NEW d \in Caller, call'[d].step # "idle", call'[d].kind = "add"
      PROVE  /\ call'[d].id < nextId'[call'[d].fam]
             /\ call'[d].id \in Ids
             /\ call'[d].id \notin issued'[call'[d].fam]
  BY <1>1, <1>2, <1>3, <1>5 DEF Inv, FreshIds
<1>6. QED
  BY <1>1, <1>4, <1>5 DEF Inv, FreshIds

LEMMA StoreAddInv ==
  ASSUME NEW c \in Caller, Inv, StoreAdd(c)
  PROVE  Inv'
<1> DEFINE f  == call[c].fam
           id == call[c].id
<1>1. /\ f \in Family
      /\ slots[f] \in Seq(Entry)
      /\ call[c].copy = slots[f]
      /\ id \in Ids
      /\ id \notin issued[f]
      /\ id < nextId[f]
  BY DEF Inv, StoreAdd, TypeOK, Call, Exclusive, FreshIds, Entry
<1>2. /\ slots' = [slots EXCEPT ![f] = Append(slots[f], id)]
      /\ issued' = [issued EXCEPT ![f] = @ \cup {id}]
      /\ UNCHANGED <<nextId, retired>>
      /\ Leave(c)
      /\ call[c].step = "locked"
      /\ call[c].kind = "add"
  BY <1>1 DEF StoreAdd, Leave
<1>3. /\ slots'[f] \in Seq(Entry)
      /\ Len(slots'[f]) = Len(slots[f]) + 1
      /\ \A i \in 1..Len(slots[f]) : slots'[f][i] = slots[f][i]
      /\ slots'[f][Len(slots[f]) + 1] = id
      /\ \A g \in Family \ {f} : slots'[g] = slots[g]
  BY <1>1, <1>2, AppendOK DEF Inv, TypeOK
<1>4. \A i \in 1..Len(slots[f]) : slots[f][i] # id
  BY <1>1 DEF Inv, HooksAreLive, Builtin, Ids
<1>5. \A g \in Family : Len(slots[g]) \in Nat
  BY DEF Inv, TypeOK
<1>6. TypeOK'
  <2>1. slots' \in [Family -> Seq({Builtin} \cup Ids)]
    BY <1>1, <1>2, <1>3 DEF Inv, TypeOK, Entry
  <2>2. nextId' \in [Family -> 1..(MaxHooks + 1)] /\ retired' \in [Family -> SUBSET Ids]
    BY <1>2 DEF Inv, TypeOK
  <2>3. issued' \in [Family -> SUBSET Ids]
    BY <1>1, <1>2 DEF Inv, TypeOK
  <2>4. call' \in [Caller -> Call] /\ holder' \in [Family -> Caller \cup {Nobody}]
    BY <1>2, LeaveOK
  <2>5. QED
    BY <2>1, <2>2, <2>3, <2>4 DEF TypeOK
<1>7. BuiltinFirst'
  <2>1. SUFFICES ASSUME NEW g \in Family
                 PROVE  /\ Len(slots'[g]) > 0
                        /\ \A i \in 1..Len(slots'[g]) : slots'[g][i] = Builtin <=> i = 1
    BY DEF BuiltinFirst
  <2>2. /\ Len(slots[g]) > 0
        /\ \A i \in 1..Len(slots[g]) : slots[g][i] = Builtin <=> i = 1
    BY DEF Inv, BuiltinFirst
  <2>3. id # Builtin
    BY <1>1 DEF Builtin, Ids
  <2>4. CASE g = f
    <3>1. \A i \in 1..Len(slots'[f]) : i \in 1..Len(slots[f]) \/ i = Len(slots[f]) + 1
      BY <1>1, <1>3, <1>5
    <3>2. QED
      BY <1>1, <1>3, <1>5, <2>2, <2>3, <2>4, <3>1, SMTT(30)
  <2>5. CASE g # f
    BY <1>3, <2>2, <2>5
  <2>6. QED
    BY <2>4, <2>5
<1>8. DistinctHooks'
  <2>1. SUFFICES ASSUME NEW g \in Family,
                        NEW i \in 1..Len(slots'[g]), NEW j \in 1..Len(slots'[g]),
                        slots'[g][i] = slots'[g][j]
                 PROVE  i = j
    BY DEF DistinctHooks
  <2>2. CASE g = f
    <3>1. i \in 1..Len(slots[f]) \/ i = Len(slots[f]) + 1
      BY <1>3, <1>5, <1>1, <2>2
    <3>2. j \in 1..Len(slots[f]) \/ j = Len(slots[f]) + 1
      BY <1>3, <1>5, <1>1, <2>2
    <3>3. CASE i \in 1..Len(slots[f]) /\ j \in 1..Len(slots[f])
      BY <3>3, <1>3, <2>1, <2>2 DEF Inv, DistinctHooks
    <3>4. CASE i = Len(slots[f]) + 1 /\ j \in 1..Len(slots[f])
      BY <3>4, <1>3, <1>4, <2>1, <2>2
    <3>5. CASE i \in 1..Len(slots[f]) /\ j = Len(slots[f]) + 1
      BY <3>5, <1>3, <1>4, <2>1, <2>2
    <3>6. QED
      BY <3>1, <3>2, <3>3, <3>4, <3>5
  <2>3. CASE g # f
    BY <1>3, <2>1, <2>3 DEF Inv, DistinctHooks
  <2>4. QED
    BY <2>2, <2>3
<1>9. HooksAreLive'
  <2>1. SUFFICES ASSUME NEW g \in Family
                 PROVE  /\ \A i \in 1..Len(slots'[g]) :
                             slots'[g][i] \in {Builtin} \cup (issued'[g] \ retired'[g])
                        /\ \A x \in issued'[g] \ retired'[g] :
                             \E i \in 1..Len(slots'[g]) : slots'[g][i] = x
    BY DEF HooksAreLive
  <2>2. CASE g = f
    <3>1. issued'[f] \ retired'[f] = (issued[f] \ retired[f]) \cup {id}
      <4>1. id \notin retired[f]
        BY <1>1 DEF Inv, FreshIds
      <4>2. QED
        BY <4>1, <1>1, <1>2 DEF Inv, TypeOK
    <3>2. \A i \in 1..Len(slots'[f]) : i \in 1..Len(slots[f]) \/ i = Len(slots[f]) + 1
      BY <1>1, <1>3, <1>5
    <3>3. 1..Len(slots[f]) \subseteq 1..Len(slots'[f]) /\ Len(slots[f]) + 1 \in 1..Len(slots'[f])
      BY <1>1, <1>3, <1>5
    <3>4. \A i \in 1..Len(slots'[f]) :
            slots'[f][i] \in {Builtin} \cup (issued'[f] \ retired'[f])
      BY <3>1, <3>2, <1>1, <1>3 DEF Inv, HooksAreLive
    <3>5. \A x \in issued'[f] \ retired'[f] :
            \E i \in 1..Len(slots'[f]) : slots'[f][i] = x
      BY <3>1, <3>3, <1>1, <1>3, SMTT(30) DEF Inv, HooksAreLive
    <3>6. QED
      BY <3>4, <3>5, <2>2
  <2>3. CASE g # f
    <3>1. slots'[g] = slots[g] /\ issued'[g] = issued[g] /\ retired'[g] = retired[g]
      BY <1>2, <1>3, <2>3 DEF Inv, TypeOK
    <3>2. QED
      BY <3>1 DEF Inv, HooksAreLive
  <2>4. QED
    BY <2>2, <2>3
<1>10. Exclusive'
  BY <1>2, <1>3, LeaveExclusive
<1>11. FreshIds'
  BY <1>1, <1>2, LeaveFresh DEF Inv, FreshIds, TypeOK
<1>12. CallShape'
  BY <1>2, LeaveOK, SMTT(30) DEF Inv, CallShape, TypeOK, Family
<1>13. QED
  BY <1>6, <1>7, <1>8, <1>9, <1>10, <1>11, <1>12 DEF Inv

\* A removal: position k of the vector held the id, and nothing else did.
LEMMA StoreRemoveInv ==
  ASSUME NEW c \in Caller, Inv, StoreRemove(c)
  PROVE  Inv'
<1> DEFINE id == call[c].id
           old == slots["sink"]
<1>1. /\ call[c].fam = "sink"
      /\ call[c].copy = old
      /\ old \in Seq(Entry)
      /\ id \in issued["sink"]
      /\ id \in Ids
      /\ call[c].step = "locked"
      /\ Leave(c)
  BY DEF Inv, StoreRemove, TypeOK, Exclusive, CallShape, Entry, Family
<1>2. PICK k \in 1..Len(old) :
        /\ old[k] = id
        /\ slots' = [slots EXCEPT !["sink"] = DropAt(old, k)]
  <2>1. DOMAIN old = 1..Len(old)
    BY <1>1
  <2>2. \E k \in DOMAIN old : /\ old[k] = id
                             /\ slots' = [slots EXCEPT !["sink"] = DropAt(old, k)]
    BY <1>1, Zenon DEF StoreRemove
  <2>3. QED
    BY <2>1, <2>2, Zenon
<1>3. /\ slots'["sink"] \in Seq(Entry)
      /\ Len(slots'["sink"]) = Len(old) - 1
      /\ \A i \in 1..(Len(old) - 1) :
           slots'["sink"][i] = IF i < k THEN old[i] ELSE old[i + 1]
      /\ slots'["capture"] = slots["capture"]
  BY <1>1, <1>2, DropAtOK DEF Inv, TypeOK, Family
<1>4. Len(old) \in Nat /\ k \in Nat /\ k >= 1 /\ k <= Len(old)
  BY <1>1
<1>5. k # 1
  BY <1>1, <1>2, <1>4 DEF Inv, BuiltinFirst, Family, Builtin, Ids
<1>6. /\ issued' = issued
      /\ retired'["sink"] = retired["sink"] \cup {id}
      /\ retired'["capture"] = retired["capture"]
      /\ nextId' = nextId
      /\ retired' \in [Family -> SUBSET Ids]
  BY <1>1 DEF StoreRemove, Leave, Inv, TypeOK, Family
<1>7. TypeOK'
  <2>1. slots' \in [Family -> Seq({Builtin} \cup Ids)]
    BY <1>2, <1>3 DEF Inv, TypeOK, Entry, Family
  <2>2. QED
    BY <1>1, <1>6, <2>1, LeaveOK DEF Inv, TypeOK
\* Where the entries of the new vector come from.
<1> DEFINE from(i) == IF i < k THEN i ELSE i + 1
<1>8. ASSUME NEW i \in 1..Len(slots'["sink"])
      PROVE  /\ i \in Nat
             /\ from(i) \in 1..Len(old)
             /\ from(i) # k
             /\ slots'["sink"][i] = old[from(i)]
  <2>1. i \in 1..(Len(old) - 1)
    BY <1>3
  <2>2. i \in Nat /\ from(i) \in 1..Len(old) /\ from(i) # k
    BY <2>1, <1>4
  <2>3. QED
    BY <2>1, <2>2, <1>3
<1> HIDE DEF from
<1>9. BuiltinFirst'
  <2>1. Len(slots'["sink"]) > 0
    BY <1>3, <1>4, <1>5
  <2>2. ASSUME NEW i \in 1..Len(slots'["sink"])
        PROVE  slots'["sink"][i] = Builtin <=> i = 1
    <3>1. \A m \in 1..Len(old) : old[m] = Builtin <=> m = 1
      BY DEF Inv, BuiltinFirst, Family
    <3>2. from(i) = 1 <=> i = 1
      BY <1>4, <1>5, <1>8 DEF from
    <3>3. QED
      BY <1>8, <3>1, <3>2
  <2>3. QED
    BY <1>3, <2>1, <2>2 DEF Inv, BuiltinFirst, Family
<1>10. DistinctHooks'
  <2>1. ASSUME NEW i \in 1..Len(slots'["sink"]), NEW j \in 1..Len(slots'["sink"]),
               slots'["sink"][i] = slots'["sink"][j]
        PROVE  i = j
    <3>1. \A m, n \in 1..Len(old) : old[m] = old[n] => m = n
      BY DEF Inv, DistinctHooks, Family
    <3>2. from(i) = from(j)
      BY <1>8, <2>1, <3>1
    <3>3. i \in Nat /\ j \in Nat
      BY <1>8
    <3>4. QED
      BY <1>4, <3>2, <3>3 DEF from
  <2>2. QED
    BY <1>3, <2>1 DEF Inv, DistinctHooks, Family
<1>11. HooksAreLive'
  <2>1. \A i \in 1..Len(slots'["sink"]) :
          slots'["sink"][i] \in {Builtin} \cup (issued'["sink"] \ retired'["sink"])
    <3>1. \A m \in 1..Len(old) : m # k => old[m] # id
      BY <1>2 DEF Inv, DistinctHooks, Family
    <3>2. \A m \in 1..Len(old) : old[m] \in {Builtin} \cup (issued["sink"] \ retired["sink"])
      BY DEF Inv, HooksAreLive, Family
    <3>3. QED
      BY <1>6, <1>8, <3>1, <3>2
  <2>2. ASSUME NEW x \in issued'["sink"] \ retired'["sink"]
        PROVE  \E i \in 1..Len(slots'["sink"]) : slots'["sink"][i] = x
    <3>1. x \in issued["sink"] \ retired["sink"] /\ x # id
      BY <1>6, <2>2
    <3>2. PICK m \in 1..Len(old) : old[m] = x
      BY <3>1 DEF Inv, HooksAreLive, Family
    <3>3. m # k
      BY <1>2, <3>1, <3>2
    <3>4. CASE m < k
      <4>1. m \in 1..Len(slots'["sink"]) /\ slots'["sink"][m] = old[m]
        BY <1>3, <1>4, <3>4
      <4>2. QED
        BY <4>1, <3>2
    <3>5. CASE m > k
      <4>1. m - 1 \in 1..Len(slots'["sink"]) /\ slots'["sink"][m - 1] = old[m]
        BY <1>3, <1>4, <3>5
      <4>2. QED
        BY <4>1, <3>2
    <3>6. QED
      BY <1>4, <3>3, <3>4, <3>5
  <2>3. /\ \A i \in 1..Len(slots'["capture"]) :
             slots'["capture"][i] \in {Builtin} \cup (issued'["capture"] \ retired'["capture"])
        /\ \A x \in issued'["capture"] \ retired'["capture"] :
             \E i \in 1..Len(slots'["capture"]) : slots'["capture"][i] = x
    <3>1. UNCHANGED <<slots["capture"], issued["capture"], retired["capture"]>>
      BY <1>3, <1>6
    <3>2. QED
      BY <3>1 DEF Inv, HooksAreLive, Family
  <2>4. QED
    BY <2>1, <2>2, <2>3 DEF HooksAreLive, Family
<1>12. Exclusive'
  BY <1>1, <1>3, LeaveExclusive DEF Family
<1>13. FreshIds'
  BY <1>1, <1>6, LeaveFresh DEF Inv, FreshIds, Family
<1>14. CallShape'
  BY <1>1, <1>6, LeaveOK DEF Inv, CallShape
<1>15. QED
  BY <1>7, <1>9, <1>10, <1>11, <1>12, <1>13, <1>14 DEF Inv

LEMMA MissRemoveInv ==
  ASSUME NEW c \in Caller, Inv, MissRemove(c)
  PROVE  Inv'
<1>1. /\ call[c].step = "locked"
      /\ Leave(c)
      /\ UNCHANGED <<slots, issued, retired, nextId>>
  BY DEF MissRemove, Leave
<1>2. TypeOK'
  BY <1>1, LeaveOK DEF Inv, TypeOK
<1>3. BuiltinFirst' /\ DistinctHooks' /\ HooksAreLive'
  BY <1>1 DEF Inv, BuiltinFirst, DistinctHooks, HooksAreLive
<1>4. Exclusive'
  BY <1>1, LeaveExclusive
<1>5. FreshIds'
  BY <1>1, LeaveFresh DEF Inv, FreshIds
<1>6. CallShape'
  BY <1>1, LeaveOK DEF Inv, CallShape
<1>7. QED
  BY <1>2, <1>3, <1>4, <1>5, <1>6 DEF Inv

LEMMA StoreClearInv ==
  ASSUME NEW c \in Caller, Inv, StoreClear(c)
  PROVE  Inv'
<1> DEFINE old == slots["sink"]
<1>1. /\ call[c].step = "locked"
      /\ call[c].fam = "sink"
      /\ Leave(c)
      /\ slots' = [slots EXCEPT !["sink"] = <<Builtin>>]
      /\ retired' = [retired EXCEPT !["sink"] = @ \cup (Range(old) \ {Builtin})]
      /\ UNCHANGED <<issued, nextId>>
  BY DEF StoreClear, Leave, Inv, CallShape
<1>2. /\ slots'["sink"] = <<Builtin>>
      /\ slots'["capture"] = slots["capture"]
      /\ retired'["sink"] = retired["sink"] \cup (Range(old) \ {Builtin})
      /\ retired'["capture"] = retired["capture"]
  BY <1>1 DEF Inv, TypeOK, Family
<1>3. \A x : x \in Range(old) <=> \E i \in 1..Len(old) : old[i] = x
  <2>1. DOMAIN old = 1..Len(old)
    BY DEF Inv, TypeOK, Family
  <2>2. QED
    BY <2>1 DEF Range
<1>4. Range(old) \ {Builtin} = issued["sink"] \ retired["sink"]
  <2>1. \A x \in Range(old) \ {Builtin} : x \in issued["sink"] \ retired["sink"]
    BY <1>3 DEF Inv, HooksAreLive, Family
  <2>2. \A x \in issued["sink"] \ retired["sink"] : x \in Range(old)
    BY <1>3 DEF Inv, HooksAreLive, Family
  <2>3. Builtin \notin issued["sink"]
    BY DEF Inv, TypeOK, Family, Builtin, Ids
  <2>4. QED
    BY <2>1, <2>2, <2>3
<1>5. retired'["sink"] = issued["sink"]
  BY <1>2, <1>4 DEF Inv, FreshIds, Family
<1>6. TypeOK'
  <2>1. <<Builtin>> \in Seq({Builtin} \cup Ids)
    OBVIOUS
  <2>2. slots' \in [Family -> Seq({Builtin} \cup Ids)]
    BY <1>1, <2>1 DEF Inv, TypeOK
  <2>3. retired' \in [Family -> SUBSET Ids]
    BY <1>1, <1>4 DEF Inv, TypeOK
  <2>4. QED
    BY <1>1, <2>2, <2>3, LeaveOK DEF Inv, TypeOK
<1>7. BuiltinFirst' /\ DistinctHooks'
  <2>1. /\ Len(slots'["sink"]) = 1
        /\ slots'["sink"][1] = Builtin
        /\ \A i \in 1..Len(slots'["sink"]) : i = 1
    BY <1>2
  <2>2. BuiltinFirst'
    <3>1. /\ Len(slots'["capture"]) > 0
          /\ \A i \in 1..Len(slots'["capture"]) : slots'["capture"][i] = Builtin <=> i = 1
      BY <1>2 DEF Inv, BuiltinFirst, Family
    <3>2. /\ Len(slots'["sink"]) > 0
          /\ \A i \in 1..Len(slots'["sink"]) : slots'["sink"][i] = Builtin <=> i = 1
      BY <2>1
    <3>3. QED
      BY <3>1, <3>2 DEF BuiltinFirst, Family
  <2>3. \A i, j \in 1..Len(slots'["sink"]) : i = j
    BY <2>1
  <2>4. DistinctHooks'
    BY <1>2, <2>3 DEF Inv, DistinctHooks, Family
  <2>5. QED
    BY <2>2, <2>4
<1>8. HooksAreLive'
  BY <1>1, <1>2, <1>5 DEF Inv, HooksAreLive, Family
<1>9. Exclusive'
  BY <1>1, <1>2, LeaveExclusive DEF Family
<1>10. FreshIds'
  BY <1>1, <1>2, <1>5, LeaveFresh DEF Inv, FreshIds, Family
<1>11. CallShape'
  BY <1>1, LeaveOK DEF Inv, CallShape
<1>12. QED
  BY <1>6, <1>7, <1>8, <1>9, <1>10, <1>11 DEF Inv

-----------------------------------------------------------------------------
LEMMA NextInv == Inv /\ [Next]_vars => Inv'
<1>1. SUFFICES ASSUME Inv, [Next]_vars PROVE Inv'
  OBVIOUS
<1>2. CASE UNCHANGED vars
  BY <1>1, <1>2
     DEF vars, Inv, TypeOK, BuiltinFirst, DistinctHooks, HooksAreLive,
         Exclusive, FreshIds, CallShape
<1>3. CASE Next
  BY <1>1, <1>3, BeginAddInv, BeginRemoveInv, BeginClearInv, AcquireInv,
     StoreAddInv, StoreRemoveInv, MissRemoveInv, StoreClearInv DEF Next, Store
<1>4. QED
  BY <1>1, <1>2, <1>3

\* What a thread between lock and store holds is the current vector, and an id that was
\* drawn and not stored is in none: the invariant of push, remove_where and reset.
THEOREM RegistryInvariant == Spec => []Inv
BY InitInv, NextInv, PTL DEF Spec

\* index 0 is ALWAYS the default hook (hook.rs, the comment at HOOKS).
THEOREM BuiltinAlwaysFirst == Spec => []BuiltinFirst
<1>1. Inv => BuiltinFirst
  BY DEF Inv
<1>2. QED
  BY <1>1, RegistryInvariant, PTL

\* The vector lists each hook once.
THEOREM HooksStayDistinct == Spec => []DistinctHooks
<1>1. Inv => DistinctHooks
  BY DEF Inv
<1>2. QED
  BY <1>1, RegistryInvariant, PTL

\* No registration is lost and no removed hook comes back.
THEOREM NoLostRegistration == Spec => []HooksAreLive
<1>1. Inv => HooksAreLive
  BY DEF Inv
<1>2. QED
  BY <1>1, RegistryInvariant, PTL

-----------------------------------------------------------------------------
\* The mutex protocol implements AtomicHooks: the step that stores a vector
\* is the atomic operation, every other step leaves hooks and used alone.

LEMMA StoreIsAtomicStep ==
  ASSUME NEW c \in Caller, Inv, Store(c)
  PROVE  [Atomic!Next]_(Atomic!vars)
<1>1. CASE StoreAdd(c)
  <2> DEFINE f == call[c].fam
             id == call[c].id
  <2>1. f \in Family /\ call[c].copy = slots[f] /\ id \in Ids /\ id \notin issued[f]
    BY <1>1 DEF StoreAdd, Inv, TypeOK, Call, Exclusive, FreshIds
  <2>2. Atomic!Add(f, id)
    BY <1>1, <2>1 DEF StoreAdd, Atomic!Add
  <2>3. QED
    BY <2>1, <2>2 DEF Atomic!Next, Atomic!Family, Family
<1>2. CASE StoreRemove(c)
  <2> DEFINE old == slots["sink"]
  <2>1. call[c].copy = old /\ call[c].id # Builtin /\ DOMAIN old = 1..Len(old)
    BY <1>2 DEF StoreRemove, Inv, TypeOK, Exclusive, CallShape, Family, Builtin, Ids
  <2>2. \E k \in DOMAIN old : /\ old[k] = call[c].id
                             /\ slots' = [slots EXCEPT !["sink"] = DropAt(old, k)]
    BY <1>2, <2>1, Zenon DEF StoreRemove
  <2>3. PICK k \in 1..Len(old) : /\ old[k] = call[c].id
                                /\ slots' = [slots EXCEPT !["sink"] = DropAt(old, k)]
    BY <2>1, <2>2, Zenon
  <2>4. DropAt(old, k) = Atomic!DropAt(old, k)
    BY DEF DropAt, Atomic!DropAt
  <2>5. old[k] # Atomic!Builtin
    BY <2>1, <2>3 DEF Builtin, Atomic!Builtin
  <2>6. UNCHANGED issued
    BY <1>2 DEF StoreRemove
  <2>7. Atomic!Remove(k)
    BY <2>3, <2>4, <2>5, <2>6, Zenon DEF Atomic!Remove
  <2>8. QED
    BY <2>7, Zenon DEF Atomic!Next
<1>3. CASE MissRemove(c)
  BY <1>3 DEF MissRemove, Atomic!vars
<1>4. CASE StoreClear(c)
  <2>1. Atomic!Clear
    BY <1>4 DEF StoreClear, Atomic!Clear, Builtin, Atomic!Builtin
  <2>2. QED
    BY <2>1 DEF Atomic!Next
<1>5. QED
  BY <1>1, <1>2, <1>3, <1>4 DEF Store

\* Copying under the mutex is as good as changing the vectors in one step: every store
\* of push, remove_where and reset is an operation of AtomicHooks, other steps stutter.
THEOREM RegistryImplementsAtomicHooks == Spec => ImplementsAtomicHooks
<1>1. Init => Atomic!Init
  BY DEF Init, Atomic!Init, Family, Atomic!Family, Builtin, Atomic!Builtin
<1>2. Inv /\ [Next]_vars => [Atomic!Next]_(Atomic!vars)
  <2>1. SUFFICES ASSUME Inv, [Next]_vars
                 PROVE  [Atomic!Next]_(Atomic!vars)
    OBVIOUS
  <2>2. CASE UNCHANGED vars
    BY <2>2 DEF vars, Atomic!vars
  <2>3. ASSUME NEW c \in Caller, Store(c)
        PROVE  [Atomic!Next]_(Atomic!vars)
    BY <2>1, <2>3, StoreIsAtomicStep
  <2>4. ASSUME NEW c \in Caller,
               \/ \E f \in Family : BeginAdd(c, f)
               \/ \E id \in issued["sink"] \cup {Builtin} : BeginRemove(c, id)
               \/ BeginClear(c)
               \/ Acquire(c)
        PROVE  UNCHANGED Atomic!vars
    BY <2>4 DEF BeginAdd, BeginRemove, BeginClear, Acquire, Atomic!vars
  <2>5. QED
    BY <2>1, <2>2, <2>3, <2>4 DEF Next
<1>3. QED
  BY <1>1, <1>2, RegistryInvariant, PTL DEF Spec, ImplementsAtomicHooks, Atomic!Spec
=============================================================================
