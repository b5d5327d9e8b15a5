-------------------------- MODULE ProfilingProofs --------------------------
(***************************************************************************)
(* Five parts of the library that share no state, proved side by side: the *)
(* function scopes of a thread, measured runs, where the settings come     *)
(* from, the reporters of traces and the instant backend.                  *)
(*                                                                         *)
(* For any tasks, names and bounds, the diagnostic is the leaf of the stack*)
(* of scopes, whatever order guards end in, and with guards that nest the  *)
(* stack is theirs and what a fault captures of it is true.                *)
(*                                                                         *)
(* For any environments, builders, drafts and calls, a toggle has the value*)
(* of the source that takes precedence, in whatever order the environment  *)
(* is read, the toggles are set and the deployment is wired.               *)
(*                                                                         *)
(* For any targets, spans and batches, and any nesting of the sampling and *)
(* the fanning reporter, no target misses a span with an error event.      *)
(*                                                                         *)
(* For any threads, backends and masks, a missing backend is warned about  *)
(* once, and with callers that serialize a measured run restores the mask  *)
(* and reports its own spans.                                              *)
(*                                                                         *)
(* However many spans and frames, and whatever is drained, cleared and     *)
(* forgotten between them: no span is lost or recorded twice, the frame    *)
(* boundaries cut the buffer where the frames ended, and what is not       *)
(* drained is bounded.  The boundaries are those of the last frames, in    *)
(* order.  Each cuts the finished spans between the frames up to its own   *)
(* and the later ones, and a step that takes spans out of the buffer moves *)
(* the base by as many.                                                    *)
(***************************************************************************)
EXTENDS FunctionScopes, Profiles, Configuration, Reporters, InstantSpans, SequenceTheorems, TLAPS

\* No scope and no guard is from the future: elapsed times are natural numbers.
EnteredBefore ==
  /\ \A i \in DOMAIN currentScope : currentScope[i].since <= now
  /\ \A i \in DOMAIN guards : guards[i].since <= now

ScopesIInv == ScopesInv /\ EnteredBefore

\* A part of a sequence.
LEMMA PartOfSeq ==
  ASSUME NEW S, NEW s \in Seq(S), NEW m \in Nat \ {0}, NEW n \in Nat, n <= Len(s), m <= n + 1
  PROVE  /\ SubSeq(s, m, n) \in Seq(S)
         /\ Len(SubSeq(s, m, n)) = n + 1 - m
         /\ \A i \in 1..(n + 1 - m) : SubSeq(s, m, n)[i] = s[m + i - 1]
<1>1. SubSeq(s, m, n) \in Seq(S)
  OBVIOUS
<1>2. Len(SubSeq(s, m, n)) = n + 1 - m
  OBVIOUS
<1>3. \A i \in 1..(n + 1 - m) : SubSeq(s, m, n)[i] = s[m + i - 1]
  OBVIOUS
<1> QED BY <1>1, <1>2, <1>3

\* What is left of a stack without its last entry.
LEMMA FrontIsPrefix ==
  ASSUME NEW S, NEW s \in Seq(S), s # <<>>
  PROVE  /\ Front(s) \in Seq(S)
         /\ Len(Front(s)) = Len(s) - 1
         /\ \A i \in 1..(Len(s) - 1) : Front(s)[i] = s[i]
<1> DEFINE n     == Len(s) - 1
           front == SubSeq(s, 1, n)
<1>1. n \in Nat /\ n <= Len(s) /\ 1 <= n + 1 /\ 1 \in Nat \ {0}
  BY EmptySeq
<1> HIDE DEF n
<1>2. /\ front \in Seq(S)
      /\ Len(front) = n + 1 - 1
      /\ \A i \in 1..(n + 1 - 1) : front[i] = s[1 + i - 1]
  <2>1. front \in Seq(S) /\ Len(front) = n + 1 - 1
    BY <1>1, PartOfSeq
  <2>2. \A i \in 1..(n + 1 - 1) : front[i] = s[1 + i - 1]
    BY <1>1, PartOfSeq
  <2> QED BY <2>1, <2>2
<1> HIDE DEF front
<1>3. front \in Seq(S) /\ Len(front) = n /\ \A i \in 1..n : front[i] = s[i]
  BY <1>1, <1>2
<1>4. Front(s) = front
  BY DEF Front, front, n
<1> QED BY <1>3, <1>4 DEF n

\* What is left of the guards when one ends: of the last one, the others in place.
LEMMA RemovedGuard ==
  ASSUME NEW S, NEW s \in Seq(S), NEW g \in DOMAIN s
  PROVE  /\ RemoveAt(s, g) \in Seq(S)
         /\ \A i \in DOMAIN RemoveAt(s, g) : \E j \in DOMAIN s : RemoveAt(s, g)[i] = s[j]
         /\ g = Len(s) => /\ Len(RemoveAt(s, g)) = Len(s) - 1
                          /\ \A i \in 1..(Len(s) - 1) : RemoveAt(s, g)[i] = s[i]
<1> DEFINE before == SubSeq(s, 1, g - 1)
           after  == SubSeq(s, g + 1, Len(s))
           rest   == before \o after
<1>1. Len(s) \in Nat /\ g \in 1..Len(s) /\ DOMAIN s = 1..Len(s)
  OBVIOUS
<1>2. /\ before \in Seq(S)
      /\ Len(before) = g - 1
      /\ \A i \in 1..(g - 1) : before[i] = s[i]
  <2>1. 1 \in Nat \ {0} /\ g - 1 \in Nat /\ g - 1 <= Len(s) /\ 1 <= (g - 1) + 1
    BY <1>1
  <2>2. before \in Seq(S) /\ Len(before) = (g - 1) + 1 - 1
    BY <2>1, PartOfSeq
  <2>3. \A i \in 1..((g - 1) + 1 - 1) : before[i] = s[1 + i - 1]
    BY <2>1, PartOfSeq
  <2> HIDE DEF before
  <2>4. before \in Seq(S) /\ Len(before) = g - 1
    BY <1>1, <2>2
  <2>5. ASSUME NEW i \in 1..(g - 1) PROVE before[i] = s[i]
    <3>1. i \in 1..((g - 1) + 1 - 1) /\ 1 + i - 1 = i
      BY <1>1
    <3> QED BY <2>3, <3>1
  <2> QED BY <2>4, <2>5
<1>3. /\ after \in Seq(S)
      /\ Len(after) = Len(s) - g
      /\ \A i \in 1..(Len(s) - g) : after[i] = s[g + i]
  <2>1. g + 1 \in Nat \ {0} /\ Len(s) \in Nat /\ Len(s) <= Len(s) /\ g + 1 <= Len(s) + 1
    BY <1>1
  <2>2. after \in Seq(S) /\ Len(after) = Len(s) + 1 - (g + 1)
    BY <2>1, PartOfSeq
  <2>3. \A i \in 1..(Len(s) + 1 - (g + 1)) : after[i] = s[(g + 1) + i - 1]
    BY <2>1, PartOfSeq
  <2> HIDE DEF after
  <2>4. after \in Seq(S) /\ Len(after) = Len(s) - g
    BY <1>1, <2>2
  <2>5. ASSUME NEW i \in 1..(Len(s) - g) PROVE after[i] = s[g + i]
    <3>1. i \in 1..(Len(s) + 1 - (g + 1)) /\ (g + 1) + i - 1 = g + i
      BY <1>1
    <3> QED BY <2>3, <3>1
  <2> QED BY <2>4, <2>5
<1> HIDE DEF before, after
<1>4. /\ rest \in Seq(S)
      /\ Len(rest) = Len(before) + Len(after)
      /\ \A i \in 1..(Len(before) + Len(after)) :
           rest[i] = IF i <= Len(before) THEN before[i] ELSE after[i - Len(before)]
  BY <1>2, <1>3, ConcatProperties, Zenon
<1>5. RemoveAt(s, g) = rest
  BY DEF RemoveAt, before, after
<1> HIDE DEF rest
<1>6. Len(rest) = Len(s) - 1
  BY <1>1, <1>2, <1>3, <1>4
<1>7. \A i \in 1..(Len(s) - 1) : rest[i] = IF i <= g - 1 THEN s[i] ELSE s[i + 1]
  <2> SUFFICES ASSUME NEW i \in 1..(Len(s) - 1)
               PROVE  rest[i] = IF i <= g - 1 THEN s[i] ELSE s[i + 1]
    OBVIOUS
  <2>1. CASE i <= g - 1
    BY <1>1, <1>2, <1>3, <1>4, <2>1
  <2>2. CASE ~(i <= g - 1)
    <3>1. i - (g - 1) \in 1..(Len(s) - g) /\ g + (i - (g - 1)) = i + 1
      BY <1>1, <2>2
    <3>2. rest[i] = after[i - (g - 1)]
      BY <1>1, <1>2, <1>3, <1>4, <2>2
    <3>3. after[i - (g - 1)] = s[g + (i - (g - 1))]
      BY <1>3, <3>1
    <3> QED BY <2>2, <3>1, <3>2, <3>3
  <2> QED BY <2>1, <2>2
<1>8. DOMAIN rest = 1..(Len(s) - 1)
  BY <1>4, <1>6
<1>9. ASSUME NEW i \in DOMAIN rest
      PROVE  \E j \in DOMAIN s : rest[i] = s[j]
  <2>1. i \in DOMAIN s /\ i + 1 \in DOMAIN s
    BY <1>1, <1>8
  <2> QED BY <1>7, <1>8, <2>1
<1>10. g = Len(s) => \A i \in 1..(Len(s) - 1) : rest[i] = s[i]
  BY <1>1, <1>7
<1> QED BY <1>4, <1>5, <1>6, <1>9, <1>10

LEMMA EntryOfStack ==
  ASSUME NEW s \in Seq(Scope), NEW i \in 1..Len(s)
  PROVE  s[i].name \in Names /\ s[i].since \in Nat
<1>1. s[i] \in Scope
  BY ElementOfSeq
<1> QED BY <1>1 DEF Scope

LEMMA GuardOfThread ==
  ASSUME NEW s \in Seq(Guard), NEW i \in 1..Len(s)
  PROVE  s[i].name \in Names /\ s[i].since \in Nat
<1>1. s[i] \in Guard
  BY ElementOfSeq
<1> QED BY <1>1 DEF Guard

LEMMA LeafIsName ==
  ASSUME NEW scopes \in Seq(Scope)
  PROVE  LeafName(scopes) \in Names \cup {None}
<1>1. CASE scopes = <<>>
  BY <1>1 DEF LeafName
<1>2. CASE scopes # <<>>
  <2>1. Len(scopes) \in 1..Len(scopes)
    BY <1>2, EmptySeq
  <2> QED BY <1>2, <2>1, EntryOfStack DEF LeafName
<1> QED BY <1>1, <1>2

\* The cache and the diagnostic follow the leaf, if nobody else writes the key.
LEMMA DiagnosticFollows ==
  ASSUME ScopesInv, NEW name \in Names \cup {None}, SetScopeDiagnostic(name), UNCHANGED foreign
  PROVE  /\ lastDiagnostic' = name
         /\ diagnostic' \in Names \cup {None}
         /\ ~foreign' => diagnostic' = name
BY DEF ScopesInv, ScopesTypeOK, DiagnosticIsLeaf, SetScopeDiagnostic

LEMMA InitScopes == ScopesInit => ScopesIInv
<1> SUFFICES ASSUME ScopesInit PROVE ScopesIInv
  OBVIOUS
<1>1. ScopesTypeOK
  BY DEF ScopesInit, ScopesTypeOK, Capture, Nothing
<1>2. DiagnosticIsLeaf /\ EntriesAreGuards /\ EnteredBefore
  BY DEF ScopesInit, DiagnosticIsLeaf, LeafName, EntriesAreGuards, EnteredBefore
<1>3. FaultsTellTheirScope
  BY DEF ScopesInit, FaultsTellTheirScope, Nothing
<1> QED BY <1>1, <1>2, <1>3 DEF ScopesIInv, ScopesInv

LEMMA EnterKeeps ==
  ASSUME ScopesIInv, NEW t \in Tasks, NEW n \in Names, EnterFunctionScope(t, n)
  PROVE  ScopesIInv'
<1> USE DEF ScopesIInv, ScopesInv, program
<1> DEFINE scope == [name |-> n, since |-> now]
           guard == [task |-> t, name |-> n, since |-> now]
<1>1. scope \in Scope /\ guard \in Guard
  BY DEF ScopesTypeOK, Scope, Guard
<1>2. /\ currentScope' = Append(currentScope, scope)
      /\ guards' = Append(guards, guard)
  BY DEF EnterFunctionScope
<1>3. /\ lastDiagnostic' = n
      /\ diagnostic' \in Names \cup {None}
      /\ ~foreign' => diagnostic' = n
  BY DiagnosticFollows DEF EnterFunctionScope
<1>4. /\ currentScope' \in Seq(Scope)
      /\ Len(currentScope') = Len(currentScope) + 1
      /\ \A i \in 1..Len(currentScope) : currentScope'[i] = currentScope[i]
      /\ currentScope'[Len(currentScope) + 1] = scope
  BY <1>1, <1>2 DEF ScopesTypeOK
<1>5. /\ guards' \in Seq(Guard)
      /\ Len(guards') = Len(guards) + 1
      /\ \A i \in 1..Len(guards) : guards'[i] = guards[i]
      /\ guards'[Len(guards) + 1] = guard
  BY <1>1, <1>2 DEF ScopesTypeOK
<1>6. ScopesTypeOK'
  BY <1>3, <1>4, <1>5 DEF ScopesTypeOK, EnterFunctionScope
<1>7. DiagnosticIsLeaf'
  BY <1>3, <1>4 DEF ScopesTypeOK, DiagnosticIsLeaf, LeafName
<1>8. EntriesAreGuards'
  BY <1>4, <1>5 DEF ScopesTypeOK, EntriesAreGuards, EnterFunctionScope
<1>9. FaultsTellTheirScope'
  BY DEF FaultsTellTheirScope, EnterFunctionScope
<1>10. EnteredBefore'
  BY <1>4, <1>5 DEF ScopesTypeOK, EnteredBefore, EnterFunctionScope
<1> QED BY <1>6, <1>7, <1>8, <1>9, <1>10

LEMMA DropKeeps ==
  ASSUME ScopesIInv, NEW g \in DOMAIN guards, DropFunctionScope(g)
  PROVE  ScopesIInv'
<1> USE DEF ScopesIInv, ScopesInv, program
<1> DEFINE rest == IF currentScope = <<>> THEN <<>> ELSE Front(currentScope)
<1>1. /\ rest \in Seq(Scope)
      /\ Len(currentScope) > 0 => Len(rest) = Len(currentScope) - 1
      /\ \A i \in DOMAIN rest : i \in DOMAIN currentScope /\ rest[i] = currentScope[i]
  <2>1. CASE currentScope = <<>>
    BY <2>1
  <2>2. CASE currentScope # <<>>
    BY <2>2, FrontIsPrefix DEF ScopesTypeOK
  <2> QED BY <2>1, <2>2
<1>2. currentScope' = rest /\ guards' = RemoveAt(guards, g) /\ (nested => g = Len(guards))
  BY DEF DropFunctionScope, Ends
<1>3. LeafName(rest) \in Names \cup {None}
  BY <1>1, LeafIsName
<1>4. SetScopeDiagnostic(LeafName(rest)) /\ UNCHANGED <<program, now, entered, captured>>
  BY DEF DropFunctionScope
<1> HIDE DEF rest
<1>5. /\ lastDiagnostic' = LeafName(rest)
      /\ diagnostic' \in Names \cup {None}
      /\ ~foreign' => diagnostic' = LeafName(rest)
  BY <1>3, <1>4, DiagnosticFollows
<1>6. /\ guards' \in Seq(Guard)
      /\ \A i \in DOMAIN guards' : \E j \in DOMAIN guards : guards'[i] = guards[j]
      /\ nested => /\ Len(guards') = Len(guards) - 1
                   /\ \A i \in 1..(Len(guards) - 1) : guards'[i] = guards[i]
  BY <1>2, RemovedGuard DEF ScopesTypeOK
<1>7. ScopesTypeOK'
  BY <1>1, <1>2, <1>3, <1>4, <1>5, <1>6 DEF ScopesTypeOK
<1>8. DiagnosticIsLeaf'
  BY <1>2, <1>5 DEF DiagnosticIsLeaf
<1>9. EntriesAreGuards'
  BY <1>1, <1>2, <1>4, <1>6, SMTT(30) DEF ScopesTypeOK, EntriesAreGuards
<1>10. FaultsTellTheirScope'
  BY <1>4 DEF FaultsTellTheirScope
<1>11. EnteredBefore'
  BY <1>1, <1>2, <1>4, <1>6 DEF ScopesTypeOK, EnteredBefore
<1> QED BY <1>7, <1>8, <1>9, <1>10, <1>11

LEMMA ForgetKeeps ==
  ASSUME ScopesIInv, NEW g \in DOMAIN guards, ForgetGuard(g)
  PROVE  ScopesIInv'
<1> USE DEF ScopesIInv, ScopesInv, program
<1>1. /\ guards' \in Seq(Guard)
      /\ \A i \in DOMAIN guards' : \E j \in DOMAIN guards : guards'[i] = guards[j]
  BY RemovedGuard DEF ScopesTypeOK, ForgetGuard
<1>2. ScopesTypeOK'
  BY <1>1 DEF ScopesTypeOK, ForgetGuard
<1>3. DiagnosticIsLeaf' /\ EntriesAreGuards' /\ FaultsTellTheirScope'
  BY DEF DiagnosticIsLeaf, EntriesAreGuards, FaultsTellTheirScope, ForgetGuard
<1>4. EnteredBefore'
  BY <1>1 DEF EnteredBefore, ForgetGuard
<1> QED BY <1>2, <1>3, <1>4

LEMMA CaptureKeeps ==
  ASSUME ScopesIInv, CaptureScope
  PROVE  ScopesIInv'
<1> USE DEF ScopesIInv, ScopesInv, program
<1> DEFINE path    == [i \in DOMAIN currentScope |-> currentScope[i].name]
           elapsed == IF currentScope = <<>> THEN 0 ELSE now - currentScope[Len(currentScope)].since
           age     == IF guards = <<>> THEN 0 ELSE now - guards[Len(guards)].since
<1>1. captured' = [path |-> path, elapsed |-> elapsed, live |-> guards, age |-> age]
  BY DEF CaptureScope
<1>2. path \in Seq(Names)
  <2>1. currentScope \in Seq(Scope)
    BY DEF ScopesTypeOK
  <2>2. \A i \in 1..Len(currentScope) : currentScope[i].name \in Names
    BY <2>1, EntryOfStack
  <2>3. DOMAIN currentScope = 1..Len(currentScope) /\ Len(currentScope) \in Nat
    BY <2>1
  <2> QED BY <2>2, <2>3
<1>3. elapsed \in Nat
  <2>1. CASE currentScope = <<>>
    BY <2>1
  <2>2. CASE currentScope # <<>>
    <3>1. Len(currentScope) \in 1..Len(currentScope) /\ now \in Nat
      BY <2>2, EmptySeq DEF ScopesTypeOK
    <3>2. currentScope[Len(currentScope)].since \in Nat
      BY <3>1, EntryOfStack DEF ScopesTypeOK
    <3>3. currentScope[Len(currentScope)].since <= now
      BY <3>1 DEF ScopesTypeOK, EnteredBefore
    <3> QED BY <2>2, <3>1, <3>2, <3>3
  <2> QED BY <2>1, <2>2
<1>4. age \in Nat
  <2>1. CASE guards = <<>>
    BY <2>1
  <2>2. CASE guards # <<>>
    <3>1. Len(guards) \in 1..Len(guards) /\ now \in Nat
      BY <2>2, EmptySeq DEF ScopesTypeOK
    <3>2. guards[Len(guards)].since \in Nat
      BY <3>1, GuardOfThread DEF ScopesTypeOK
    <3>3. guards[Len(guards)].since <= now
      BY <3>1 DEF ScopesTypeOK, EnteredBefore
    <3> QED BY <2>2, <3>1, <3>2, <3>3
  <2> QED BY <2>1, <2>2
<1>5. nested => path = [i \in DOMAIN guards |-> guards[i].name] /\ elapsed = age
  BY DEF ScopesTypeOK, EntriesAreGuards
<1> HIDE DEF path, elapsed, age
<1>6. captured' \in Capture
  BY <1>1, <1>2, <1>3, <1>4 DEF Capture, ScopesTypeOK
<1>7. FaultsTellTheirScope'
  BY <1>1, <1>5 DEF FaultsTellTheirScope, CaptureScope
<1>8. ScopesTypeOK'
  BY <1>6 DEF ScopesTypeOK, CaptureScope
<1>9. DiagnosticIsLeaf' /\ EntriesAreGuards' /\ EnteredBefore'
  BY DEF DiagnosticIsLeaf, EntriesAreGuards, EnteredBefore, CaptureScope
<1> QED BY <1>7, <1>8, <1>9

LEMMA OthersKeep ==
  ASSUME ScopesIInv, PassTime \/ (\E v \in Names \cup {None} : WriteDiagnostic(v))
  PROVE  ScopesIInv'
<1> USE DEF ScopesIInv, ScopesInv, program
<1>1. ASSUME PassTime PROVE ScopesIInv'
  <2>1. ScopesTypeOK'
    BY <1>1 DEF ScopesTypeOK, PassTime
  <2>2. DiagnosticIsLeaf' /\ EntriesAreGuards' /\ FaultsTellTheirScope'
    BY <1>1 DEF DiagnosticIsLeaf, EntriesAreGuards, FaultsTellTheirScope, PassTime
  <2>3. EnteredBefore'
    <3>1. /\ \A i \in DOMAIN currentScope : currentScope[i].since \in Nat
          /\ \A i \in DOMAIN guards : guards[i].since \in Nat
      BY EntryOfStack, GuardOfThread DEF ScopesTypeOK
    <3> QED BY <1>1, <3>1 DEF ScopesTypeOK, EnteredBefore, PassTime
  <2> QED BY <2>1, <2>2, <2>3
<1>2. ASSUME NEW v \in Names \cup {None}, WriteDiagnostic(v) PROVE ScopesIInv'
  BY <1>2 DEF ScopesTypeOK, DiagnosticIsLeaf, EntriesAreGuards, FaultsTellTheirScope,
              EnteredBefore, WriteDiagnostic
<1> QED BY <1>1, <1>2

LEMMA NextScopes == ScopesIInv /\ [ScopesNext]_scopeVars => ScopesIInv'
<1> SUFFICES ASSUME ScopesIInv, [ScopesNext]_scopeVars PROVE ScopesIInv'
  OBVIOUS
<1>1. CASE ScopesNext
  BY <1>1, EnterKeeps, DropKeeps, ForgetKeeps, CaptureKeeps, OthersKeep DEF ScopesNext
<1>2. CASE UNCHANGED scopeVars
  BY <1>2 DEF scopeVars, program, ScopesIInv, ScopesInv, ScopesTypeOK, DiagnosticIsLeaf,
              EntriesAreGuards, FaultsTellTheirScope, EnteredBefore
<1> QED BY <1>1, <1>2

\* Log records carry the leaf of the stack of scopes, and a fault the path and the
\* elapsed time of the guards that are live where it is made.  (profiling.rs 430-555,
\* hook.rs 341-357)
THEOREM ScopesTold == ScopesSpec => []ScopesInv
<1>1. ScopesSpec => []ScopesIInv
  BY InitScopes, NextScopes, PTL DEF ScopesSpec
<1>2. ScopesIInv => ScopesInv
  BY DEF ScopesIInv
<1> QED BY <1>1, <1>2, PTL

-----------------------------------------------------------------------------
\* The settings.

Toggled == {"backends", "throttle"}

\* What the toggles are when no deployment has been wired.
Unwired(f) == Or(asked[f], Or(FromVariable(f), Default[f]))

Asked == [backends : (SUBSET BackendNames) \cup {Unset}, throttle : Nat \cup {Unset}]

Garbage == {f \in DOMAIN ParsedDraft(draft) : ParsedDraft(draft)[f] = Garbled}

ConfigurationTypeOK ==
  /\ env \in Environments /\ builder \in Builders
  /\ config = Unset \/ config \in Settings
  /\ asked \in Asked
  /\ wiring \in {"draft", "applied", "refused", "running"}
  /\ fromEnv \in BOOLEAN

\* The draft is as it was read, and the deployment what apply made of it.
DraftApplied ==
  /\ draft # Unset => /\ draft.throttle \in Nat \cup {Unset}
                      /\ draft.fileFromEnv \in BOOLEAN \cup {Unset}
  /\ fromEnv => draft = DraftFrom(env)
  /\ wiring = "draft" => deployment = Unset /\ errors = {}
  /\ wiring # "draft" => draft # Unset
  /\ wiring = "refused" => deployment = Unset /\ errors = Garbage
  /\ wiring \in {"applied", "running"} =>
       deployment = Overlay(ParsedDraft(draft)) /\ errors = {} /\ Garbage = {}

\* The toggles are those of the source that takes precedence.
TogglesFollow ==
  \A f \in Toggled :
    Config[f] = IF wiring = "running" THEN Or(deployment[f], Unwired(f)) ELSE Unwired(f)

ConfigurationIInv == ConfigurationTypeOK /\ DraftApplied /\ TogglesFollow

-----------------------------------------------------------------------------
\* A list of names is a set of backends or does not parse.
LEMMA NamesParse ==
  ASSUME NEW names
  PROVE  FromEnvValue(names) \in (SUBSET BackendNames) \cup {Garbled}
BY DEF FromEnvValue

\* What config() starts from are values of the toggles, those of the variables
\* that mean something and the defaults.
LEMMA EnvironmentRead ==
  ASSUME env \in Environments
  PROVE  /\ FromEnvironment \in Settings
         /\ \A f \in Toggled : FromEnvironment[f] = Or(FromVariable(f), Default[f])
         /\ FromVariable("backends") \in (SUBSET BackendNames) \cup {Unset}
         /\ FromVariable("throttle") \in Nat \cup {Unset}
<1>1. env.throttle.value \in Nat \cup {Unset, Garbled}
  BY GivenAssumption
<1>2. FromEnvValue(env.profile) \in (SUBSET BackendNames) \cup {Garbled}
  BY NamesParse
<1>3. DefaultBackends \in SUBSET BackendNames
  BY DefaultsAssumption
<1>4. FromVariable("backends") \in (SUBSET BackendNames) \cup {Unset}
  BY <1>2 DEF FromVariable
<1>5. FromVariable("throttle") \in Nat \cup {Unset}
  BY <1>1 DEF FromVariable, Parsed
<1>6. FromEnvironment.backends = Or(FromVariable("backends"), DefaultBackends)
  BY <1>2, UnsetAssumption DEF FromEnvironment, FromVariable, Or
<1>7. FromEnvironment.throttle = Or(FromVariable("throttle"), 0)
  BY <1>1, UnsetAssumption DEF FromEnvironment, FromVariable, Parsed, Or
<1>8. FromEnvironment \in Settings
  <2>1. Or(FromVariable("backends"), DefaultBackends) \in SUBSET BackendNames
    BY <1>3, <1>4 DEF Or
  <2>2. Or(FromVariable("throttle"), 0) \in Nat
    BY <1>5 DEF Or
  <2>3. FromEnvironment = [backends |-> FromEnvironment.backends,
                           throttle |-> FromEnvironment.throttle]
    BY DEF FromEnvironment
  <2> QED BY <1>6, <1>7, <2>1, <2>2, <2>3 DEF Settings
<1> QED
  BY <1>4, <1>5, <1>6, <1>7, <1>8 DEF Toggled, Default

\* config() returns values of the toggles.
LEMMA ConfigIsSettings ==
  ASSUME env \in Environments, config = Unset \/ config \in Settings
  PROVE  Config \in Settings /\ Config # Unset
BY EnvironmentRead, UnsetAssumption DEF Config

\* The fields of a draft, and a deployment that was made of it, are values.
LEMMA DraftValues ==
  ASSUME ConfigurationTypeOK, DraftApplied, draft # Unset
  PROVE  LET given == ParsedDraft(draft) IN
         /\ given.backends \in (SUBSET BackendNames) \cup {Unset, Garbled}
         /\ given.throttle \in Nat \cup {Unset}
         /\ given.fileFromEnv \in BOOLEAN \cup {Unset}
         /\ Garbage = {} =>
              /\ Overlay(given).backends = Or(given.backends, builder.backends)
              /\ Overlay(given).throttle = Or(given.throttle, builder.throttle)
              /\ Overlay(given).fileFromEnv = Or(given.fileFromEnv, builder.fileFromEnv)
              /\ Overlay(given).level = Or(given.level, builder.level)
              /\ Overlay(given).backends \in (SUBSET BackendNames) \cup {Unset}
              /\ Overlay(given).throttle \in Nat \cup {Unset}
<1> DEFINE given == ParsedDraft(draft)
<1>1. /\ given.backends = IF draft.backends = Unset THEN Unset ELSE FromEnvValue(draft.backends)
      /\ given.throttle = draft.throttle
      /\ given.fileFromEnv = draft.fileFromEnv
      /\ "backends" \in DOMAIN given
  BY DEF ParsedDraft
<1>2. given.backends \in (SUBSET BackendNames) \cup {Unset, Garbled}
  BY <1>1, NamesParse
<1>3. given.throttle \in Nat \cup {Unset} /\ given.fileFromEnv \in BOOLEAN \cup {Unset}
  BY <1>1 DEF DraftApplied
<1>4. /\ DOMAIN builder = {"level", "layout", "backends", "throttle", "fileFromEnv"}
      /\ builder.backends \in (SUBSET BackendNames) \cup {Unset}
      /\ builder.throttle \in Nat \cup {Unset}
  BY GivenAssumption DEF ConfigurationTypeOK
<1>5. Garbage = {} => given.backends # Garbled
  BY <1>1 DEF Garbage
<1> HIDE DEF given
<1>6. \A f \in {"level", "layout", "backends", "throttle", "fileFromEnv"} :
        Overlay(given)[f] = Or(given[f], builder[f])
  BY <1>4 DEF Overlay
<1>7. Garbage = {} => Or(given.backends, builder.backends) \in (SUBSET BackendNames) \cup {Unset}
  BY <1>2, <1>4, <1>5 DEF Or
<1>8. Or(given.throttle, builder.throttle) \in Nat \cup {Unset}
  BY <1>3, <1>4 DEF Or
<1> QED BY <1>2, <1>3, <1>6, <1>7, <1>8 DEF given

-----------------------------------------------------------------------------
LEMMA InitConfiguration == ConfigurationInit => ConfigurationIInv
<1> SUFFICES ASSUME ConfigurationInit PROVE ConfigurationIInv
  OBVIOUS
<1> USE DEF ConfigurationInit
<1>1. ConfigurationTypeOK
  <2>1. asked \in Asked
    BY DEF NotAsked, Asked
  <2> QED BY <2>1 DEF ConfigurationTypeOK
<1>2. DraftApplied
  BY DEF DraftApplied
<1>3. TogglesFollow
  BY EnvironmentRead DEF TogglesFollow, Config, Unwired, NotAsked, Or, Toggled
<1> QED BY <1>1, <1>2, <1>3 DEF ConfigurationIInv

\* A step that leaves the environment, and what a toggle is told to be, alone.
LEMMA TogglesStay ==
  ASSUME ConfigurationIInv, UNCHANGED <<env, asked>>, Config' = Config,
         \/ wiring' # "running" /\ wiring # "running"
         \/ wiring' = wiring /\ UNCHANGED deployment
  PROVE  TogglesFollow'
<1>1. \A f \in Toggled : Unwired(f)' = Unwired(f)
  BY DEF Unwired, FromVariable
<1> QED BY <1>1 DEF TogglesFollow, ConfigurationIInv

LEMMA LookKeeps == ConfigurationIInv /\ LookAtConfig => ConfigurationIInv'
<1> SUFFICES ASSUME ConfigurationIInv, LookAtConfig PROVE ConfigurationIInv'
  OBVIOUS
<1> USE DEF LookAtConfig
<1>1. Config \in Settings /\ Config # Unset
  BY ConfigIsSettings DEF ConfigurationIInv, ConfigurationTypeOK
<1>2. ConfigurationTypeOK'
  BY <1>1 DEF ConfigurationIInv, ConfigurationTypeOK
<1>3. DraftApplied'
  BY DEF ConfigurationIInv, DraftApplied, DraftFrom, Garbage, Overlay
<1>4. Config' = Config
  BY <1>1 DEF Config
<1>5. TogglesFollow'
  BY <1>4, TogglesStay
<1> QED BY <1>2, <1>3, <1>5 DEF ConfigurationIInv

LEMMA SetToggleKeeps ==
  ASSUME ConfigurationIInv, NEW f \in DOMAIN Toggles, NEW v \in Toggles[f], SetToggle(f, v)
  PROVE  ConfigurationIInv'
<1> USE DEF SetToggle
<1>1. Config \in Settings /\ Config # Unset
  BY ConfigIsSettings DEF ConfigurationIInv, ConfigurationTypeOK
<1>2. \/ f = "backends" /\ v \in SUBSET BackendNames
      \/ f = "throttle" /\ v \in Nat
  BY TogglesAssumption
<1>3. asked \in Asked
  BY DEF ConfigurationIInv, ConfigurationTypeOK
<1>4. v # Unset
  BY <1>2, UnsetAssumption
<1>5. config' \in Settings /\ config' # Unset
  BY <1>1, <1>2, UnsetAssumption DEF Settings
<1>6. asked' \in Asked
  BY <1>2, <1>3 DEF Asked
<1>7. ConfigurationTypeOK'
  BY <1>5, <1>6 DEF ConfigurationIInv, ConfigurationTypeOK
<1>8. DraftApplied'
  BY DEF ConfigurationIInv, DraftApplied, DraftFrom, Garbage, Overlay
<1>9. TogglesFollow'
  <2> SUFFICES ASSUME NEW g \in Toggled PROVE Config'[g] = Unwired(g)'
    BY DEF TogglesFollow
  <2>1. Config'[g] = IF g = f THEN v ELSE Config[g]
    BY <1>1, <1>5 DEF Config, Settings, Toggled
  <2>2. asked'[g] = IF g = f THEN v ELSE asked[g]
    BY <1>3 DEF Asked, Toggled
  <2>3. Config[g] = Unwired(g)
    BY DEF ConfigurationIInv, TogglesFollow
  <2> QED BY <1>4, <2>1, <2>2, <2>3 DEF Unwired, FromVariable, Or
<1> QED BY <1>7, <1>8, <1>9 DEF ConfigurationIInv

\* What the other steps before wiring leave as it is.
LEMMA ConfigStays ==
  ASSUME ConfigurationIInv, UNCHANGED <<env, builder, config, asked>>,
         \/ wiring' \in {"draft", "applied", "refused"} /\ wiring # "running"
         \/ wiring' = wiring /\ UNCHANGED deployment,
         fromEnv' \in BOOLEAN
  PROVE  ConfigurationTypeOK' /\ TogglesFollow'
<1>1. ConfigurationTypeOK'
  BY DEF ConfigurationIInv, ConfigurationTypeOK
<1>2. Config' = Config
  BY DEF Config, FromEnvironment
<1>3. TogglesFollow'
  BY <1>2, TogglesStay
<1> QED BY <1>1, <1>3

LEMMA DraftKeeps ==
  ASSUME ConfigurationIInv, FromEnv \/ \E d \in Drafts : OwnDraft(d)
  PROVE  ConfigurationIInv'
<1>1. wiring = "draft"
  BY DEF ConfigurationIInv, DraftApplied, FromEnv, OwnDraft
<1>2. ASSUME FromEnv PROVE ConfigurationIInv'
  <2> USE <1>2 DEF FromEnv
  <2>1. ConfigurationTypeOK' /\ TogglesFollow'
    BY <1>1, ConfigStays
  <2>2. env.throttle.value \in Nat \cup {Unset, Garbled}
    BY GivenAssumption DEF ConfigurationIInv, ConfigurationTypeOK
  <2>3. draft' = DraftFrom(env) /\ DraftFrom(env') = DraftFrom(env)
    BY DEF DraftFrom
  <2>4. /\ DraftFrom(env).throttle \in Nat \cup {Unset}
        /\ DraftFrom(env).fileFromEnv \in BOOLEAN \cup {Unset}
    BY <2>2 DEF DraftFrom
  <2>5. DraftApplied'
    BY <1>1, <2>3, <2>4 DEF ConfigurationIInv, DraftApplied
  <2> QED BY <2>1, <2>5 DEF ConfigurationIInv
<1>3. ASSUME NEW d \in Drafts, OwnDraft(d) PROVE ConfigurationIInv'
  <2> USE <1>3 DEF OwnDraft
  <2>1. ConfigurationTypeOK' /\ TogglesFollow'
    BY <1>1, ConfigStays DEF ConfigurationIInv, ConfigurationTypeOK
  <2>2. ~fromEnv
    BY UnsetAssumption DEF ConfigurationIInv, ConfigurationTypeOK, DraftApplied
  <2>3. DraftApplied'
    BY <1>1, <2>2, GivenAssumption DEF ConfigurationIInv, DraftApplied
  <2> QED BY <2>1, <2>3 DEF ConfigurationIInv
<1> QED BY <1>2, <1>3

LEMMA ApplyKeeps == ConfigurationIInv /\ Apply => ConfigurationIInv'
<1> SUFFICES ASSUME ConfigurationIInv, Apply PROVE ConfigurationIInv'
  OBVIOUS
<1> USE DEF Apply
<1>1. ConfigurationTypeOK' /\ TogglesFollow'
  <2>1. wiring' \in {"refused", "applied"} /\ wiring # "running"
    OBVIOUS
  <2>2. UNCHANGED <<env, builder, config, asked>> /\ fromEnv' \in BOOLEAN
    BY DEF ConfigurationIInv, ConfigurationTypeOK
  <2> HIDE DEF Apply
  <2> QED BY <2>1, <2>2, ConfigStays
<1>2. Garbage' = Garbage /\ DraftFrom(env') = DraftFrom(env)
      /\ Overlay(ParsedDraft(draft))' = Overlay(ParsedDraft(draft))
  BY DEF Garbage, DraftFrom, Overlay
<1>3. errors' = Garbage
  BY DEF Garbage
<1>4. IF Garbage # {} THEN wiring' = "refused" /\ UNCHANGED deployment
      ELSE wiring' = "applied" /\ deployment' = Overlay(ParsedDraft(draft))
  BY DEF Garbage
<1>5. DraftApplied'
  BY <1>2, <1>3, <1>4 DEF ConfigurationIInv, DraftApplied
<1> QED BY <1>1, <1>5 DEF ConfigurationIInv

LEMMA WireKeeps == ConfigurationIInv /\ Wire => ConfigurationIInv'
<1> SUFFICES ASSUME ConfigurationIInv, Wire PROVE ConfigurationIInv'
  OBVIOUS
<1> USE DEF Wire
<1>1. Config \in Settings /\ Config # Unset
  BY ConfigIsSettings DEF ConfigurationIInv, ConfigurationTypeOK
<1>2. /\ deployment.backends \in (SUBSET BackendNames) \cup {Unset}
      /\ deployment.throttle \in Nat \cup {Unset}
  BY DraftValues DEF ConfigurationIInv, DraftApplied
<1> DEFINE wired == [f \in DOMAIN Config |-> Or(deployment[f], Config[f])]
<1>3. /\ \A f \in Toggled : wired[f] = Or(deployment[f], Config[f])
      /\ wired \in Settings
  <2>1. DOMAIN Config = Toggled
    BY <1>1 DEF Settings, Toggled
  <2>2. /\ Or(deployment.backends, Config.backends) \in SUBSET BackendNames
        /\ Or(deployment.throttle, Config.throttle) \in Nat
    BY <1>1, <1>2 DEF Settings, Or
  <2>3. wired = [backends |-> Or(deployment.backends, Config.backends),
                 throttle |-> Or(deployment.throttle, Config.throttle)]
    BY <2>1 DEF Toggled
  <2> QED BY <2>1, <2>2, <2>3 DEF Settings, Toggled
<1>4. wired # Unset
  BY <1>3, UnsetAssumption
<1> HIDE DEF wired
<1>5. \A f \in Toggled : Config'[f] = Or(deployment[f], Config[f])
  <2>1. CASE deployment.backends = Unset /\ deployment.throttle = Unset
    <3>1. Config' = Config
      BY <2>1 DEF Config, FromEnvironment
    <3> QED BY <2>1, <3>1 DEF Or, Toggled
  <2>2. CASE ~(deployment.backends = Unset /\ deployment.throttle = Unset)
    <3>1. config' = wired
      BY <2>2 DEF wired
    <3> QED BY <1>3, <1>4, <3>1 DEF Config
  <2> QED BY <2>1, <2>2
<1>6. ConfigurationTypeOK'
  <2>1. config' = wired \/ config' = config
    BY DEF wired
  <2> QED BY <1>3, <2>1 DEF ConfigurationIInv, ConfigurationTypeOK
<1>7. DraftApplied'
  BY DEF ConfigurationIInv, DraftApplied, DraftFrom, Garbage, Overlay
<1>8. TogglesFollow'
  <2>1. \A f \in Toggled : Unwired(f)' = Unwired(f)
    BY DEF Unwired, FromVariable
  <2>2. \A f \in Toggled : Config[f] = Unwired(f)
    BY DEF ConfigurationIInv, TogglesFollow
  <2> QED BY <1>5, <2>1, <2>2 DEF TogglesFollow
<1> QED BY <1>6, <1>7, <1>8 DEF ConfigurationIInv

LEMMA NextConfiguration ==
  ConfigurationIInv /\ [ConfigurationNext]_configurationVars => ConfigurationIInv'
<1> SUFFICES ASSUME ConfigurationIInv, [ConfigurationNext]_configurationVars
             PROVE  ConfigurationIInv'
  OBVIOUS
<1>1. CASE LookAtConfig
  BY <1>1, LookKeeps
<1>2. CASE \E f \in DOMAIN Toggles : \E v \in Toggles[f] : SetToggle(f, v)
  BY <1>2, SetToggleKeeps
<1>3. CASE FromEnv \/ \E d \in Drafts : OwnDraft(d)
  BY <1>3, DraftKeeps
<1>4. CASE Apply
  BY <1>4, ApplyKeeps
<1>5. CASE Wire
  BY <1>5, WireKeeps
<1>6. CASE ReadColorMode \/ UNCHANGED configurationVars
  <2>1. UNCHANGED <<env, builder, config, asked, draft, fromEnv, wiring, errors, deployment>>
    BY <1>6 DEF ReadColorMode, configurationVars
  <2>2. ConfigurationTypeOK' /\ TogglesFollow'
    BY <2>1, ConfigStays DEF ConfigurationIInv, ConfigurationTypeOK
  <2>3. DraftApplied'
    BY <2>1 DEF ConfigurationIInv, DraftApplied, DraftFrom, Garbage, Overlay
  <2> QED BY <2>2, <2>3 DEF ConfigurationIInv
<1> QED BY <1>1, <1>2, <1>3, <1>4, <1>5, <1>6 DEF ConfigurationNext

-----------------------------------------------------------------------------
LEMMA AsAsked == ConfigurationIInv => SettingsAsAsked
<1> SUFFICES ASSUME ConfigurationIInv PROVE SettingsAsAsked
  OBVIOUS
<1>1. \A f \in DOMAIN Default :
        Config[f] = IF wiring = "running" THEN Or(deployment[f], Unwired(f)) ELSE Unwired(f)
  BY DEF ConfigurationIInv, TogglesFollow, Default, Toggled
<1>2. ASSUME draft # Unset
      PROVE  Garbage = {f \in {"level", "layout"} : draft[f].value = Garbled}
                       \cup (IF draft.backends # Unset /\ FromEnvValue(draft.backends) = Garbled
                             THEN {"backends"} ELSE {})
  <2> DEFINE given == ParsedDraft(draft)
  <2>1. /\ given.throttle \in Nat \cup {Unset} /\ given.fileFromEnv \in BOOLEAN \cup {Unset}
    BY <1>2, DraftValues DEF ConfigurationIInv
  <2>2. given.throttle # Garbled /\ given.fileFromEnv # Garbled
    BY <2>1, UnsetAssumption
  <2>3. /\ DOMAIN given = {"level", "layout", "backends", "throttle", "fileFromEnv"}
        /\ given.level = draft.level.value /\ given.layout = draft.layout.value
        /\ given.backends = IF draft.backends = Unset THEN Unset ELSE FromEnvValue(draft.backends)
    BY DEF ParsedDraft
  <2>4. Garbage = {f \in DOMAIN given : given[f] = Garbled}
    BY DEF Garbage
  <2> HIDE DEF given
  <2> QED BY <2>2, <2>3, <2>4, UnsetAssumption
<1>3. wiring = "refused" =>
        /\ deployment = Unset
        /\ errors = {f \in {"level", "layout"} : draft[f].value = Garbled}
                    \cup (IF draft.backends # Unset /\ FromEnvValue(draft.backends) = Garbled
                          THEN {"backends"} ELSE {})
  BY <1>2 DEF ConfigurationIInv, DraftApplied
<1>4. wiring \in {"applied", "running"} =>
        /\ errors = {}
        /\ \A f \in {"throttle", "fileFromEnv"} : deployment[f] = Or(draft[f], builder[f])
        /\ deployment.level = Or(draft.level.value, builder.level)
  BY DraftValues DEF ConfigurationIInv, DraftApplied, ParsedDraft
<1> QED BY <1>1, <1>3, <1>4 DEF SettingsAsAsked, Unwired

LEMMA EnvironmentHolds == ConfigurationIInv => EnvironmentWins
<1> SUFFICES ASSUME ConfigurationIInv, wiring = "running", fromEnv,
                    NEW f \in Toggled, FromVariable(f) # Unset, config # Unset,
                    ~(f = "throttle" /\ env.throttle.padded
                      /\ Or(asked.throttle, builder.throttle) # Unset)
             PROVE  config[f] = FromVariable(f)
  BY DEF EnvironmentWins, Default, Toggled
<1>1. config[f] = Or(deployment[f], Unwired(f))
  BY DEF ConfigurationIInv, TogglesFollow, Config
<1>2. /\ draft = DraftFrom(env) /\ draft # Unset
      /\ deployment = Overlay(ParsedDraft(draft)) /\ Garbage = {}
  BY DEF ConfigurationIInv, DraftApplied
<1>3. /\ deployment.backends = Or(ParsedDraft(draft).backends, builder.backends)
      /\ deployment.throttle = Or(ParsedDraft(draft).throttle, builder.throttle)
  BY <1>2, DraftValues DEF ConfigurationIInv
<1>4. CASE f = "backends"
  <2>1. FromVariable(f) = FromEnvValue(env.profile) /\ env.profile # Unset
    BY <1>4 DEF FromVariable
  <2>2. ParsedDraft(draft).backends = FromEnvValue(env.profile)
    BY <1>2, <2>1 DEF ParsedDraft, DraftFrom
  <2> QED BY <1>1, <1>3, <1>4, <2>1, <2>2 DEF Or
<1>5. CASE f = "throttle"
  <2>1. FromVariable(f) = env.throttle.value /\ env.throttle.value \notin {Unset, Garbled}
    BY <1>5 DEF FromVariable, Parsed
  <2>2. ParsedDraft(draft).throttle = IF env.throttle.padded THEN Unset ELSE env.throttle.value
    BY <1>2, <2>1 DEF ParsedDraft, DraftFrom
  <2> QED BY <1>1, <1>3, <1>5, <2>1, <2>2 DEF Or, Unwired
<1> QED BY <1>4, <1>5 DEF Toggled

\* Whoever reads the environment first and wherever the program's own calls fall: a
\* toggle is what the deployment says, or what the program set, or what the
\* environment means, or the default; a deployment from the environment runs with
\* what the environment says; and a draft that does not parse changes nothing
\* (config() and its setters, Deployment::from_env, from_config and wire).
THEOREM SettingsTakePrecedence == ConfigurationSpec => []SettingsInv
<1>1. ConfigurationIInv => SettingsInv
  BY AsAsked, EnvironmentHolds DEF SettingsInv
<1> QED BY <1>1, InitConfiguration, NextConfiguration, PTL DEF ConfigurationSpec

-----------------------------------------------------------------------------
\* The reporters.

Span == [number : Nat, trace : TraceIds, error : BOOLEAN]

ReportersTypeOK ==
  /\ apart \in BOOLEAN
  /\ sampleRate \in Rates
  /\ targets \in Seq(Rates)
  /\ collected \in Seq(Span)
  /\ handed \in Seq(Span)
  /\ received \in [DOMAIN targets -> Seq(Span)]

\* Spans are numbered as they end, those that wait after those handed over.
InOrder ==
  /\ \A k \in DOMAIN handed : handed[k].number = k
  /\ \A k \in DOMAIN collected : collected[k].number = Len(handed) + k

\* A collector that keeps traces apart has one trace that waits, and handed over
\* nothing of it.
OneTraceWaits ==
  apart => \A k \in DOMAIN collected :
    /\ collected[k].trace = collected[1].trace
    /\ \A s \in ToSet(handed) : s.trace # collected[k].trace

\* What a target was given was handed over.
ReceivedWasHanded == \A i \in DOMAIN targets : ToSet(received[i]) \subseteq ToSet(handed)

ReportersIInv ==
  /\ ReportersTypeOK /\ InOrder /\ OneTraceWaits /\ ReceivedWasHanded
  /\ ErrorsReachEveryTarget

\* The spans of a batch come after those before it, in a sequence and as sets.
LEMMA Joined ==
  ASSUME NEW S, NEW s \in Seq(S), NEW t \in Seq(S)
  PROVE  /\ s \o t \in Seq(S)
         /\ Len(s \o t) = Len(s) + Len(t)
         /\ \A k \in 1..Len(s) : (s \o t)[k] = s[k]
         /\ \A k \in 1..Len(t) : (s \o t)[Len(s) + k] = t[k]
         /\ ToSet(s \o t) = ToSet(s) \cup ToSet(t)
<1> DEFINE j == s \o t
<1>1. j \in Seq(S) /\ Len(j) = Len(s) + Len(t) /\ DOMAIN j = 1..(Len(s) + Len(t))
  OBVIOUS
<1>2. \A k \in 1..Len(s) : j[k] = s[k]
  OBVIOUS
<1>3. \A k \in 1..Len(t) : j[Len(s) + k] = t[k]
  OBVIOUS
<1>4. Len(s) \in Nat /\ Len(t) \in Nat /\ DOMAIN s = 1..Len(s) /\ DOMAIN t = 1..Len(t)
  OBVIOUS
<1> HIDE DEF j
<1>5. ToSet(j) = ToSet(s) \cup ToSet(t)
  <2>1. ASSUME NEW x \in ToSet(j) PROVE x \in ToSet(s) \cup ToSet(t)
    <3>1. PICK k \in 1..(Len(s) + Len(t)) : x = j[k]
      BY <1>1, <2>1 DEF ToSet
    <3>2. CASE k <= Len(s)
      <4>1. k \in 1..Len(s)
        BY <1>4, <3>2
      <4> QED BY <1>2, <1>4, <3>1, <4>1 DEF ToSet
    <3>3. CASE ~(k <= Len(s))
      <4>1. k - Len(s) \in 1..Len(t) /\ k = Len(s) + (k - Len(s))
        BY <1>4, <3>3
      <4> QED BY <1>3, <1>4, <3>1, <4>1 DEF ToSet
    <3> QED BY <3>2, <3>3
  <2>2. ASSUME NEW x \in ToSet(s) PROVE x \in ToSet(j)
    <3>1. PICK k \in 1..Len(s) : x = s[k]
      BY <1>4, <2>2 DEF ToSet
    <3>2. k \in 1..(Len(s) + Len(t))
      BY <1>4
    <3> QED BY <1>1, <1>2, <3>1, <3>2 DEF ToSet
  <2>3. ASSUME NEW x \in ToSet(t) PROVE x \in ToSet(j)
    <3>1. PICK k \in 1..Len(t) : x = t[k]
      BY <1>4, <2>3 DEF ToSet
    <3>2. Len(s) + k \in 1..(Len(s) + Len(t))
      BY <1>4
    <3> QED BY <1>1, <1>3, <3>1, <3>2 DEF ToSet
  <2> QED BY <2>1, <2>2, <2>3
<1> QED BY <1>1, <1>2, <1>3, <1>5 DEF j

LEMMA InitReporters == ReportersInit => ReportersIInv
<1> SUFFICES ASSUME ReportersInit PROVE ReportersIInv
  OBVIOUS
<1> USE DEF ReportersInit
<1>1. PICK n \in 0..MaxTargets : targets \in [1..n -> Rates]
  OBVIOUS
<1>2. ReportersTypeOK
  BY <1>1, ReportersBoundAssumption DEF ReportersTypeOK
<1>3. InOrder /\ OneTraceWaits /\ ReceivedWasHanded
  BY DEF InOrder, OneTraceWaits, ReceivedWasHanded, ToSet
<1>4. ErrorsReachEveryTarget
  BY DEF ErrorsReachEveryTarget, ToSet
<1> QED BY <1>2, <1>3, <1>4 DEF ReportersIInv

LEMMA CollectKeeps ==
  ASSUME ReportersIInv, NEW t \in TraceIds, NEW error \in BOOLEAN, CollectSpan(t, error)
  PROVE  ReportersIInv'
<1> USE DEF CollectSpan, ReportersIInv
<1> DEFINE span == [number |-> Len(handed) + Len(collected) + 1, trace |-> t, error |-> error]
<1>1. span \in Span
  BY DEF ReportersTypeOK, Span
<1>2. /\ collected' \in Seq(Span)
      /\ Len(collected') = Len(collected) + 1
      /\ \A k \in 1..Len(collected) : collected'[k] = collected[k]
      /\ collected'[Len(collected) + 1] = span
  BY <1>1 DEF ReportersTypeOK
<1>3. ReportersTypeOK'
  BY <1>2 DEF ReportersTypeOK
<1>4. InOrder'
  <2>1. /\ Len(collected) \in Nat
        /\ DOMAIN collected = 1..Len(collected)
        /\ DOMAIN collected' = 1..(Len(collected) + 1)
    BY <1>2 DEF ReportersTypeOK
  <2>2. \A k \in DOMAIN handed' : handed'[k].number = k
    BY DEF InOrder
  <2>3. \A k \in 1..Len(collected) : collected'[k].number = Len(handed) + k
    BY <1>2, <2>1 DEF InOrder
  <2>4. collected'[Len(collected) + 1].number = Len(handed) + (Len(collected) + 1)
    <3>1. Len(handed) \in Nat
      BY DEF ReportersTypeOK
    <3> QED BY <1>2, <2>1, <3>1
  <2>5. \A k \in DOMAIN collected' : collected'[k].number = Len(handed) + k
    <3> SUFFICES ASSUME NEW k \in 1..(Len(collected) + 1)
                 PROVE  collected'[k].number = Len(handed) + k
      BY <2>1
    <3>1. k \in 1..Len(collected) \/ k = Len(collected) + 1
      BY <2>1
    <3> QED BY <2>3, <2>4, <3>1
  <2> QED BY <2>2, <2>5 DEF InOrder
<1>5. OneTraceWaits'
  <2> SUFFICES ASSUME apart, NEW k \in DOMAIN collected'
               PROVE  /\ collected'[k].trace = t
                      /\ \A s \in ToSet(handed) : s.trace # t
    BY <1>2 DEF OneTraceWaits, ReportersTypeOK
  <2>1. \A s \in ToSet(handed) : s.trace # t
    BY DEF ToSet
  <2>2. collected'[k].trace = t
    BY <1>2 DEF ReportersTypeOK
  <2> QED BY <2>1, <2>2
<1>6. ReceivedWasHanded' /\ ErrorsReachEveryTarget'
  BY DEF ReceivedWasHanded, ErrorsReachEveryTarget, Sampled
<1> QED BY <1>3, <1>4, <1>5, <1>6

\* A target's share of a batch: all or nothing.
LEMMA BatchGiven ==
  ASSUME ReportersIInv, ReportBatch, NEW i \in DOMAIN targets
  PROVE  LET kept == Keep(sampleRate, collected) /\ Keep(targets[i], collected) IN
         /\ kept => /\ received'[i] = received[i] \o collected
                    /\ ToSet(received'[i]) = ToSet(received[i]) \cup ToSet(collected)
         /\ ~kept => received'[i] = received[i]
         /\ received'[i] \in Seq(Span)
<1>1. received[i] \in Seq(Span) /\ collected \in Seq(Span)
  BY DEF ReportersIInv, ReportersTypeOK
<1>2. received'[i] = IF Keep(sampleRate, collected) /\ Keep(targets[i], collected)
                     THEN received[i] \o collected ELSE received[i]
  BY DEF ReportBatch
<1> QED BY <1>1, <1>2, Joined

LEMMA ReportKeeps ==
  ASSUME ReportersIInv, ReportBatch
  PROVE  ReportersIInv'
<1>1. ReportersTypeOK
  BY DEF ReportersIInv
<1>2. /\ handed' = handed \o collected /\ collected' = <<>> /\ collected # <<>>
      /\ UNCHANGED <<apart, sampleRate, targets>>
  BY DEF ReportBatch
<1>3. /\ handed' \in Seq(Span)
      /\ Len(handed') = Len(handed) + Len(collected)
      /\ \A k \in 1..Len(handed) : handed'[k] = handed[k]
      /\ \A k \in 1..Len(collected) : handed'[Len(handed) + k] = collected[k]
      /\ ToSet(handed') = ToSet(handed) \cup ToSet(collected)
  BY <1>1, <1>2, Joined DEF ReportersTypeOK
<1>4. ReportersTypeOK'
  <2>1. \A i \in DOMAIN targets : received'[i] \in Seq(Span)
    BY BatchGiven
  <2>2. received' \in [DOMAIN targets -> Seq(Span)]
    BY <2>1 DEF ReportBatch
  <2> QED BY <1>1, <1>2, <1>3, <2>2 DEF ReportersTypeOK
<1>5. InOrder'
  <2> SUFFICES ASSUME NEW k \in DOMAIN handed' PROVE handed'[k].number = k
    BY <1>2 DEF InOrder
  <2>1. k \in 1..(Len(handed) + Len(collected)) /\ Len(handed) \in Nat /\ Len(collected) \in Nat
    BY <1>1, <1>3 DEF ReportersTypeOK
  <2>2. CASE k <= Len(handed)
    <3>1. k \in 1..Len(handed) /\ k \in DOMAIN handed
      BY <1>1, <2>1, <2>2 DEF ReportersTypeOK
    <3>2. handed[k].number = k
      BY <3>1 DEF ReportersIInv, InOrder
    <3> QED BY <1>3, <3>1, <3>2
  <2>3. CASE ~(k <= Len(handed))
    <3>1. k - Len(handed) \in 1..Len(collected) /\ Len(handed) + (k - Len(handed)) = k
      BY <2>1, <2>3
    <3>2. handed'[k] = collected[k - Len(handed)]
      BY <1>3, <3>1
    <3>3. k - Len(handed) \in DOMAIN collected
      BY <1>1, <3>1 DEF ReportersTypeOK
    <3>4. collected[k - Len(handed)].number = k
      BY <3>1, <3>3 DEF ReportersIInv, InOrder
    <3> QED BY <3>2, <3>4
  <2> QED BY <2>2, <2>3
<1>6. OneTraceWaits'
  BY <1>2 DEF OneTraceWaits
<1>7. ReceivedWasHanded'
  BY <1>2, <1>3, BatchGiven DEF ReceivedWasHanded, ReportersIInv
<1>8. ErrorsReachEveryTarget'
  <2> SUFFICES ASSUME NEW i \in DOMAIN targets
               PROVE  LET got == ToSet(received'[i]) IN
                      /\ \A k \in 1..(Len(received'[i]) - 1) :
                           received'[i][k].number < received'[i][k + 1].number
                      /\ \A s \in ToSet(handed') : s.error => s \in got
                      /\ apart => \A s \in ToSet(handed') :
                           (s \in got) <=> \/ Sampled(s.trace, i)
                                           \/ \E r \in ToSet(handed') : r.trace = s.trace /\ r.error
    BY <1>2 DEF ErrorsReachEveryTarget, Sampled
  <2> DEFINE kept == Keep(sampleRate, collected) /\ Keep(targets[i], collected)
  <2>1. /\ kept => /\ received'[i] = received[i] \o collected
                   /\ ToSet(received'[i]) = ToSet(received[i]) \cup ToSet(collected)
        /\ ~kept => received'[i] = received[i]
        /\ ToSet(received[i]) \subseteq ToSet(handed)
    BY BatchGiven DEF ReportersIInv, ReceivedWasHanded
  <2>2. /\ \A k \in 1..(Len(received[i]) - 1) :
             received[i][k].number < received[i][k + 1].number
        /\ \A s \in ToSet(handed) : s.error => s \in ToSet(received[i])
        /\ apart => \A s \in ToSet(handed) :
             (s \in ToSet(received[i])) <=>
               \/ Sampled(s.trace, i)
               \/ \E r \in ToSet(handed) : r.trace = s.trace /\ r.error
    BY DEF ReportersIInv, ErrorsReachEveryTarget
  <2>3. HasErrorEvent(collected) <=> \E s \in ToSet(collected) : s.error
    BY DEF HasErrorEvent, ToSet
  <2>4. HasErrorEvent(collected) => kept
    BY DEF Keep
  <2>5. kept <=> HasErrorEvent(collected) \/ Sampled(collected[1].trace, i)
    BY DEF Keep, Sampled
  <2> HIDE DEF kept
  <2>6. \A k \in 1..(Len(received'[i]) - 1) :
          received'[i][k].number < received'[i][k + 1].number
    <3>1. CASE ~kept
      BY <2>1, <2>2, <3>1
    <3>2. CASE kept
      <4> DEFINE r == received[i]
      <4>1. r \in Seq(Span) /\ collected \in Seq(Span)
        BY <1>1 DEF ReportersTypeOK
      <4>2. /\ Len(received'[i]) = Len(r) + Len(collected)
            /\ \A k \in 1..Len(r) : received'[i][k] = r[k]
            /\ \A k \in 1..Len(collected) : received'[i][Len(r) + k] = collected[k]
        <5>1. received'[i] = r \o collected
          BY <2>1, <3>2
        <5> HIDE DEF r
        <5>2. /\ Len(r \o collected) = Len(r) + Len(collected)
              /\ \A k \in 1..Len(r) : (r \o collected)[k] = r[k]
              /\ \A k \in 1..Len(collected) : (r \o collected)[Len(r) + k] = collected[k]
          BY <4>1, Joined
        <5> QED BY <5>1, <5>2
      <4>3. \A k \in 1..Len(r) : r[k].number <= Len(handed)
        <5> SUFFICES ASSUME NEW k \in 1..Len(r) PROVE r[k].number <= Len(handed)
          OBVIOUS
        <5>1. r[k] \in ToSet(handed)
          <6>1. k \in DOMAIN r
            BY <4>1
          <6>2. r[k] \in ToSet(r)
            BY <6>1 DEF ToSet
          <6> QED BY <2>1, <6>2
        <5>2. PICK j \in DOMAIN handed : r[k] = handed[j]
          BY <5>1 DEF ToSet
        <5>3. handed[j].number = j
          BY DEF ReportersIInv, InOrder
        <5>4. j <= Len(handed)
          BY <1>1 DEF ReportersTypeOK
        <5> QED BY <5>2, <5>3, <5>4
      <4>4. \A k \in 1..Len(collected) : collected[k].number = Len(handed) + k
        BY <4>1 DEF ReportersIInv, InOrder
      <4>5. \A k \in 1..Len(r) : r[k].number \in Nat
        <5> SUFFICES ASSUME NEW k \in 1..Len(r) PROVE r[k].number \in Nat
          OBVIOUS
        <5>1. r[k] \in Span
          BY <4>1, ElementOfSeq
        <5> QED BY <5>1 DEF Span
      <4>6. Len(r) \in Nat /\ Len(collected) \in Nat /\ Len(handed) \in Nat
        BY <1>1, <4>1 DEF ReportersTypeOK
      <4>7. \A k \in 1..(Len(r) - 1) : r[k].number < r[k + 1].number
        BY <2>2
      <4> HIDE DEF r
      <4> SUFFICES ASSUME NEW k \in 1..(Len(r) + Len(collected) - 1)
                   PROVE  received'[i][k].number < received'[i][k + 1].number
        BY <4>2
      <4>8. CASE k < Len(r)
        <5>1. k \in 1..(Len(r) - 1) /\ k \in 1..Len(r) /\ k + 1 \in 1..Len(r)
          BY <4>6, <4>8
        <5> QED BY <4>2, <4>7, <5>1
      <4>9. CASE k = Len(r)
        <5>1. k \in 1..Len(r) /\ 1 \in 1..Len(collected) /\ k + 1 = Len(r) + 1
          BY <4>6, <4>9
        <5>2. received'[i][k] = r[k] /\ received'[i][k + 1] = collected[1]
          BY <4>2, <5>1
        <5>3. collected[1].number = Len(handed) + 1 /\ r[k].number <= Len(handed)
              /\ r[k].number \in Nat
          BY <4>3, <4>4, <4>5, <5>1
        <5> QED BY <4>6, <5>2, <5>3
      <4>10. CASE k > Len(r)
        <5>1. /\ k - Len(r) \in 1..Len(collected) /\ Len(r) + (k - Len(r)) = k
              /\ k - Len(r) + 1 \in 1..Len(collected) /\ Len(r) + (k - Len(r) + 1) = k + 1
          BY <4>6, <4>10
        <5>2. /\ received'[i][k] = collected[k - Len(r)]
              /\ received'[i][k + 1] = collected[k - Len(r) + 1]
          BY <4>2, <5>1
        <5>3. /\ collected[k - Len(r)].number = Len(handed) + (k - Len(r))
              /\ collected[k - Len(r) + 1].number = Len(handed) + (k - Len(r) + 1)
          BY <4>4, <5>1
        <5> QED BY <4>6, <5>2, <5>3
      <4> QED BY <4>6, <4>8, <4>9, <4>10
    <3> QED BY <3>1, <3>2
  <2>7. \A s \in ToSet(handed') : s.error => s \in ToSet(received'[i])
    BY <1>3, <2>1, <2>2, <2>3, <2>4
  <2>8. ASSUME apart, NEW s \in ToSet(handed')
        PROVE  (s \in ToSet(received'[i])) <=>
                 \/ Sampled(s.trace, i)
                 \/ \E r \in ToSet(handed') : r.trace = s.trace /\ r.error
    <3>1. /\ \A c \in ToSet(collected) : c.trace = collected[1].trace
          /\ \A c \in ToSet(collected) : \A h \in ToSet(handed) : h.trace # c.trace
      BY <2>8 DEF ReportersIInv, OneTraceWaits, ToSet
    <3>2. CASE s \in ToSet(handed)
      <4>1. s \in ToSet(received'[i]) <=> s \in ToSet(received[i])
        BY <2>1, <3>1, <3>2
      <4>2. (\E r \in ToSet(handed') : r.trace = s.trace /\ r.error)
              <=> \E r \in ToSet(handed) : r.trace = s.trace /\ r.error
        BY <1>3, <3>1, <3>2
      <4> QED BY <2>2, <2>8, <3>2, <4>1, <4>2
    <3>3. CASE s \in ToSet(collected)
      <4>1. s \in ToSet(received'[i]) <=> kept
        BY <2>1, <3>1, <3>3
      <4>2. s.trace = collected[1].trace
        BY <3>1, <3>3
      <4>3. (\E r \in ToSet(handed') : r.trace = s.trace /\ r.error)
              <=> \E r \in ToSet(collected) : r.error
        BY <1>3, <3>1, <3>3
      <4> QED BY <2>3, <2>5, <4>1, <4>2, <4>3
    <3> QED BY <1>3, <3>2, <3>3
  <2> QED BY <2>6, <2>7, <2>8
<1> QED BY <1>4, <1>5, <1>6, <1>7, <1>8 DEF ReportersIInv

LEMMA NextReporters == ReportersIInv /\ [ReportersNext]_reporterVars => ReportersIInv'
<1> SUFFICES ASSUME ReportersIInv, [ReportersNext]_reporterVars PROVE ReportersIInv'
  OBVIOUS
<1>1. CASE ReportersNext
  BY <1>1, CollectKeeps, ReportKeeps DEF ReportersNext
<1>2. CASE UNCHANGED reporterVars
  BY <1>2 DEF reporterVars, ReportersIInv, ReportersTypeOK, InOrder, OneTraceWaits,
              ReceivedWasHanded, ErrorsReachEveryTarget, Sampled
<1> QED BY <1>1, <1>2

\* Under every composition of reporters, and however the collector batches spans, a
\* span with an error event reaches every target, and no target gets a span twice or
\* out of order; if batches are traces, a trace is kept whole or not at all.
\* (SamplingReporter::report and MultiReporter::report of reporter.rs)
THEOREM ErrorsAreSampledIn == ReportersSpec => []ErrorsReachEveryTarget
<1>1. ReportersIInv => ErrorsReachEveryTarget
  BY DEF ReportersIInv
<1> QED BY <1>1, InitReporters, NextReporters, PTL DEF ReportersSpec

-----------------------------------------------------------------------------
\* Measured runs.

Places   == {"force", "clear", "closure", "restore"}
Swaps == [next : 0..(Len(Backends) + 1), backends : SUBSET ToSet(Backends),
             previous : SUBSET ToSet(Backends)]
Opened   == [timed : BOOLEAN, span : Nat]
RunType  == [at : Places, saved : SUBSET ToSet(Backends), open : Nat, entered : SUBSET Nat,
             nested : BOOLEAN]

ProfileRanges ==
  /\ mask \in SUBSET ToSet(Backends) /\ warned \in SUBSET ToSet(Backends)
  /\ wanted \in SUBSET ToSet(Backends) /\ requested \in SUBSET ToSet(Backends)
  /\ serialized \in BOOLEAN /\ scopesOn \in BOOLEAN
  /\ setting \in [Threads -> Swaps]
  /\ open \in [Threads -> Seq(Opened)]
  /\ finished \in [Threads -> SUBSET Nat]
  /\ runs \in [Threads -> Seq(RunType)]
  /\ warnings \in [ToSet(Backends) -> Nat]
  /\ spans \in Nat /\ calls \in Nat
  /\ reported.spans \subseteq 1..spans

\* Spans have the numbers given so far.
SpansNumbered ==
  \A t \in Threads : /\ finished[t] \subseteq 1..spans
                     /\ \A k \in 1..Len(open[t]) : open[t][k].span \in 1..spans

\* A swap in progress will look at backend b.
LooksAt(s, b) ==
  b \in s.backends /\ \E i \in 1..Len(Backends) : Backends[i] = b /\ 1 <= s.next /\ s.next <= i

\* A swap in progress will switch puffin on.
SwitchesOn(s) == 1 <= s.next /\ puffin \in s.backends /\ puffin \notin s.previous

\* Each warning was given once, and what was asked for in vain is warned about or will
\* be; what puffin needs is done or will be.
WarnedOnce == \A b \in ToSet(Backends) : warnings[b] = IF b \in warned THEN 1 ELSE 0
Pending ==
  /\ \A b \in requested \ Available : b \in warned \/ \E t \in Threads : LooksAt(setting[t], b)
  /\ puffin \in mask \cap Available => scopesOn \/ \E t \in Threads : SwitchesOn(setting[t])

\* Callers that serialize have one call at a time.
OneAtATime ==
  serialized => \A t, u \in Threads : Busy(t) /\ Busy(u) => t = u

\* The runs r on a stack, its open scopes o and its accumulator f: an outer run waits in
\* its closure, and what an inner one enters it has entered too; the scopes opened in
\* a closure are entered by its run, and the accumulator has nothing from outside.
Nests(r, o, f) ==
  /\ \A i \in 1..Len(r) :
       /\ r[i].open <= Len(o)
       /\ \A k \in 1..Len(o) : k > r[i].open => o[k].span \in r[i].entered
       /\ \A j \in 1..Len(r) :
            i < j => /\ r[i].at = "closure" /\ r[i].nested
                     /\ r[i].open <= r[j].open /\ r[j].entered \subseteq r[i].entered
  /\ r # <<>> => /\ r[Len(r)].at \in {"force", "clear"} => r[Len(r)].entered = {}
                 /\ r[Len(r)].at \in {"closure", "restore"} => f \subseteq r[Len(r)].entered

\* And if nobody else sets the mask m while they run: the outermost saved what the
\* program wants, w, the others a mask with the instant bit, which is up from "clear"
\* on, so that all scopes are timed and a run without runs in it lacks none.
Measured(r, o, f, m, w) ==
  /\ \A i \in 1..Len(r) :
       /\ i = 1 => r[i].saved = w
       /\ i > 1 => instant \in r[i].saved
       /\ \A k \in 1..Len(o) : k > r[i].open => o[k].timed
  /\ r # <<>> =>
       /\ r[Len(r)].at \in {"clear", "closure"} => instant \in m
       /\ r[Len(r)].at = "closure" /\ ~r[Len(r)].nested =>
            \A s \in r[Len(r)].entered :
              s \in f \/ \E k \in 1..Len(o) : k > r[Len(r)].open /\ o[k].span = s

RunsNest == \A t \in Threads : Nests(runs[t], open[t], finished[t])
RunsMeasure ==
  serialized => \A t \in Threads : Measured(runs[t], open[t], finished[t], mask, wanted)

ProfilesIInv ==
  /\ ProfileRanges /\ SpansNumbered /\ WarnedOnce /\ Pending /\ OneAtATime
  /\ RunsNest /\ RunsMeasure /\ MaskRestored /\ ReportsOwnSpans

-----------------------------------------------------------------------------
\* What the operations do to a stack of runs and its scopes.

\* r is s, but for the place of the innermost run.
Moved(s, r, place) ==
  /\ r \in Seq(RunType) /\ Len(r) = Len(s)
  /\ \A i \in 1..Len(s) :
       /\ r[i].at = IF i = Len(s) THEN place ELSE s[i].at
       /\ r[i].saved = s[i].saved /\ r[i].open = s[i].open
       /\ r[i].entered = s[i].entered /\ r[i].nested = s[i].nested

LEMMA MoveMoves ==
  ASSUME runs \in [Threads -> Seq(RunType)], NEW t \in Threads, runs[t] # <<>>,
         NEW place \in Places, runs' = Move(t, place)
  PROVE  /\ runs' \in [Threads -> Seq(RunType)]
         /\ \A u \in Threads \ {t} : runs'[u] = runs[u]
         /\ Moved(runs[t], runs'[t], place)
<1> DEFINE s == runs[t]
           n == Len(s)
           x == [s[n] EXCEPT !.at = place]
           r == [s EXCEPT ![n] = x]
<1>1. s \in Seq(RunType) /\ n \in 1..Len(s)
  OBVIOUS
<1>2. x \in RunType
  <2>1. s[n] \in RunType
    BY <1>1
  <2> QED BY <2>1, Zenon DEF RunType
<1>3. /\ x.at = place /\ x.saved = s[n].saved /\ x.open = s[n].open
      /\ x.entered = s[n].entered /\ x.nested = s[n].nested
  BY <1>1 DEF RunType
<1>4. runs' = [runs EXCEPT ![t] = r]
  BY DEF Move
<1> HIDE DEF x
<1>5. r \in Seq(RunType) /\ Len(r) = Len(s)
  BY <1>1, <1>2
<1>6. \A i \in 1..Len(s) : r[i] = IF i = n THEN x ELSE s[i]
  BY <1>1
<1> HIDE DEF r
<1>7. Moved(s, r, place)
  BY <1>3, <1>5, <1>6 DEF Moved
<1>8. runs'[t] = r
  BY <1>4
<1> QED BY <1>4, <1>5, <1>7, <1>8

\* A run goes on; the accumulator is g from then on.
LEMMA MoveNests ==
  ASSUME NEW s \in Seq(RunType), s # <<>>, NEW r, NEW place, Moved(s, r, place),
         NEW o \in Seq(Opened), NEW f, NEW g, Nests(s, o, f),
         \/ s[Len(s)].at = "force" /\ place = "clear"
         \/ s[Len(s)].at = "clear" /\ place = "closure" /\ g = {}
         \/ s[Len(s)].at = "closure" /\ place = "restore" /\ (g = f \/ g = {})
  PROVE  Nests(r, o, g)
<1>1. Len(s) \in Nat \ {0} /\ r # <<>> /\ Len(r) = Len(s)
  BY DEF Moved
<1>2. ASSUME NEW i \in 1..Len(r)
      PROVE  /\ r[i].open <= Len(o)
             /\ \A k \in 1..Len(o) : k > r[i].open => o[k].span \in r[i].entered
             /\ \A j \in 1..Len(r) :
                  i < j => /\ r[i].at = "closure" /\ r[i].nested
                           /\ r[i].open <= r[j].open /\ r[j].entered \subseteq r[i].entered
  BY <1>1 DEF Moved, Nests
<1>3. /\ r[Len(r)].at \in {"force", "clear"} => r[Len(r)].entered = {}
      /\ r[Len(r)].at \in {"closure", "restore"} => g \subseteq r[Len(r)].entered
  BY <1>1 DEF Moved, Nests
<1> QED BY <1>2, <1>3 DEF Nests

LEMMA MoveMeasures ==
  ASSUME NEW s \in Seq(RunType), s # <<>>, NEW r, NEW place, Moved(s, r, place),
         NEW o \in Seq(Opened), NEW f, NEW g, Nests(s, o, f),
         NEW m, NEW n, NEW w, Measured(s, o, f, m, w),
         \/ s[Len(s)].at = "force" /\ place = "clear" /\ instant \in n
         \/ s[Len(s)].at = "clear" /\ place = "closure" /\ n = m
         \/ place = "restore"
  PROVE  Measured(r, o, g, n, w)
<1>1. Len(s) \in Nat \ {0} /\ r # <<>> /\ Len(r) = Len(s)
  BY DEF Moved
<1>2. ASSUME NEW i \in 1..Len(r)
      PROVE  /\ i = 1 => r[i].saved = w
             /\ i > 1 => instant \in r[i].saved
             /\ \A k \in 1..Len(o) : k > r[i].open => o[k].timed
  BY <1>1 DEF Moved, Measured
<1>3. r[Len(r)].at \in {"clear", "closure"} => instant \in n
  BY <1>1 DEF Moved, Measured
<1>4. r[Len(r)].at = "closure" => r[Len(r)].entered = {}
  BY <1>1 DEF Moved, Nests
<1> QED BY <1>2, <1>3, <1>4 DEF Measured

LEMMA OpenCounts ==
  ASSUME NEW s \in Seq(RunType)
  PROVE  \A i \in 1..Len(s) : s[i].open \in Nat
<1> TAKE i \in 1..Len(s)
<1>1. s[i] \in RunType
  OBVIOUS
<1> QED BY <1>1 DEF RunType

\* A scope is entered by every run of the stack.
Marked(s, r, span) ==
  /\ r \in Seq(RunType) /\ Len(r) = Len(s)
  /\ \A i \in 1..Len(s) :
       /\ r[i].at = s[i].at /\ r[i].saved = s[i].saved /\ r[i].open = s[i].open
       /\ r[i].entered = s[i].entered \cup {span} /\ r[i].nested = s[i].nested

LEMMA EnteringMarks ==
  ASSUME NEW s \in Seq(RunType), NEW span \in Nat
  PROVE  Marked(s, [i \in DOMAIN s |-> [s[i] EXCEPT !.entered = @ \cup {span}]], span)
<1> DEFINE x(i) == [s[i] EXCEPT !.entered = @ \cup {span}]
           r == [i \in DOMAIN s |-> x(i)]
<1>1. ASSUME NEW i \in 1..Len(s)
      PROVE  /\ x(i) \in RunType
             /\ x(i).at = s[i].at /\ x(i).saved = s[i].saved /\ x(i).open = s[i].open
             /\ x(i).entered = s[i].entered \cup {span} /\ x(i).nested = s[i].nested
  <2>1. s[i] \in RunType
    OBVIOUS
  <2>2. s[i].entered \cup {span} \in SUBSET Nat
    BY <2>1 DEF RunType
  <2>3. x(i) \in RunType
    BY <2>1, <2>2, Zenon DEF RunType
  <2> QED BY <2>1, <2>3 DEF RunType
<1>2. DOMAIN s = 1..Len(s) /\ Len(s) \in Nat
  OBVIOUS
<1> HIDE DEF x
<1>3. r \in Seq(RunType) /\ Len(r) = Len(s) /\ \A i \in 1..Len(s) : r[i] = x(i)
  BY <1>1, <1>2
<1> HIDE DEF r
<1>4. Marked(s, r, span)
  BY <1>1, <1>3 DEF Marked
<1> QED BY <1>4 DEF r, x

\* One more entry on a stack.
LEMMA OneMore ==
  ASSUME NEW S, NEW s \in Seq(S), NEW x \in S
  PROVE  /\ Append(s, x) \in Seq(S) /\ Len(Append(s, x)) = Len(s) + 1
         /\ \A i \in 1..Len(s) : Append(s, x)[i] = s[i]
         /\ Append(s, x)[Len(s) + 1] = x
OBVIOUS

LEMMA EnterNests ==
  ASSUME NEW s \in Seq(RunType), NEW r, NEW span, Marked(s, r, span),
         NEW o \in Seq(Opened), NEW p \in Seq(Opened), Len(p) = Len(o) + 1,
         \A k \in 1..Len(o) : p[k] = o[k],
         p[Len(o) + 1].span = span,
         NEW f, Nests(s, o, f), s # <<>> => s[Len(s)].at = "closure"
  PROVE  Nests(r, p, f)
<1>1. Len(s) \in Nat /\ Len(o) \in Nat /\ Len(r) = Len(s)
  BY DEF Marked
<1>2. \A i \in 1..Len(s) : s[i].open \in Nat
  BY OpenCounts
<1>3. ASSUME NEW i \in 1..Len(r)
      PROVE  /\ r[i].open <= Len(p)
             /\ \A k \in 1..Len(p) : k > r[i].open => p[k].span \in r[i].entered
             /\ \A j \in 1..Len(r) :
                  i < j => /\ r[i].at = "closure" /\ r[i].nested
                           /\ r[i].open <= r[j].open /\ r[j].entered \subseteq r[i].entered
  <2>1. r[i].open <= Len(p)
    BY <1>1, <1>2, SMTT(30) DEF Marked, Nests
  <2>2. ASSUME NEW k \in 1..Len(p), k > r[i].open PROVE p[k].span \in r[i].entered
    <3>1. CASE k \in 1..Len(o)
      <4>1. i \in 1..Len(s) /\ p[k] = o[k] /\ k > s[i].open
        BY <1>1, <2>2, <3>1 DEF Marked
      <4>2. o[k].span \in s[i].entered
        BY <3>1, <4>1 DEF Nests
      <4> QED BY <4>1, <4>2 DEF Marked
    <3>2. CASE k = Len(o) + 1
      BY <1>1, <3>2 DEF Marked
    <3> QED BY <1>1, <3>1, <3>2
  <2>3. ASSUME NEW j \in 1..Len(r), i < j
        PROVE  /\ r[i].at = "closure" /\ r[i].nested
               /\ r[i].open <= r[j].open /\ r[j].entered \subseteq r[i].entered
    BY <1>1, <2>3 DEF Marked, Nests
  <2> QED BY <2>1, <2>2, <2>3
<1>4. ASSUME r # <<>>
      PROVE  /\ r[Len(r)].at \in {"force", "clear"} => r[Len(r)].entered = {}
             /\ r[Len(r)].at \in {"closure", "restore"} => f \subseteq r[Len(r)].entered
  <2>1. r \in Seq(RunType) /\ Len(r) \in 1..Len(s) /\ s # <<>>
    BY <1>1, <1>4 DEF Marked
  <2> QED BY <1>1, <2>1 DEF Marked, Nests
<1> QED BY <1>3, <1>4 DEF Nests

LEMMA EnterMeasures ==
  ASSUME NEW s \in Seq(RunType), NEW r, NEW span, Marked(s, r, span),
         NEW o \in Seq(Opened), NEW p \in Seq(Opened), Len(p) = Len(o) + 1,
         \A k \in 1..Len(o) : p[k] = o[k],
         NEW m, p[Len(o) + 1].span = span, instant \in m => p[Len(o) + 1].timed,
         NEW f, NEW w, Measured(s, o, f, m, w), Nests(s, o, f),
         s # <<>> => s[Len(s)].at = "closure"
  PROVE  Measured(r, p, f, m, w)
<1>1. Len(s) \in Nat /\ Len(o) \in Nat /\ Len(r) = Len(s)
  BY DEF Marked
<1>2. \A i \in 1..Len(s) : s[i].open \in Nat
  BY OpenCounts
<1>3. s # <<>> => Len(s) \in 1..Len(s) /\ instant \in m
  BY <1>1 DEF Measured
<1>4. ASSUME NEW i \in 1..Len(r)
      PROVE  /\ i = 1 => r[i].saved = w
             /\ i > 1 => instant \in r[i].saved
             /\ \A k \in 1..Len(p) : k > r[i].open => p[k].timed
  <2>1. i \in 1..Len(s) /\ s # <<>>
    BY <1>1
  <2>2. ASSUME NEW k \in 1..Len(p), k > r[i].open PROVE p[k].timed
    <3>1. CASE k \in 1..Len(o)
      BY <1>1, <2>1, <2>2, <3>1 DEF Marked, Measured
    <3>2. CASE k = Len(o) + 1
      BY <1>3, <2>1, <3>2
    <3> QED BY <1>1, <3>1, <3>2
  <2> QED BY <2>1, <2>2 DEF Marked, Measured
<1>5. ASSUME r # <<>>
      PROVE  /\ r[Len(r)].at \in {"clear", "closure"} => instant \in m
             /\ r[Len(r)].at = "closure" /\ ~r[Len(r)].nested =>
                  \A x \in r[Len(r)].entered :
                    x \in f \/ \E k \in 1..Len(p) : k > r[Len(r)].open /\ p[k].span = x
  <2>1. r \in Seq(RunType) /\ Len(r) \in 1..Len(s) /\ s # <<>>
    BY <1>1, <1>5 DEF Marked
  <2>2. ASSUME ~r[Len(r)].nested, NEW x \in r[Len(r)].entered, x \notin f
        PROVE  \E k \in 1..Len(p) : k > r[Len(r)].open /\ p[k].span = x
    <3>1. CASE x = span
      <4>1. s[Len(s)].open <= Len(o) /\ r[Len(r)].open = s[Len(s)].open
        BY <1>1, <2>1 DEF Nests, Marked
      <4> QED BY <1>1, <1>2, <2>1, <3>1, <4>1
    <3>2. CASE x # span
      <4>1. x \in s[Len(s)].entered /\ ~s[Len(s)].nested
        BY <1>1, <2>1, <2>2, <3>2 DEF Marked
      <4>2. PICK k \in 1..Len(o) : k > s[Len(s)].open /\ o[k].span = x
        BY <2>1, <2>2, <4>1 DEF Measured
      <4> QED BY <1>1, <2>1, <4>2 DEF Marked
    <3> QED BY <3>1, <3>2
  <2> QED BY <1>3, <2>1, <2>2
<1> QED BY <1>4, <1>5 DEF Measured

\* The innermost scope ends, in the accumulator if it is timed.
LEMMA LeaveNests ==
  ASSUME NEW s \in Seq(RunType),
         NEW o \in Seq(Opened), NEW p \in Seq(Opened), Len(p) + 1 = Len(o),
         \A k \in 1..Len(p) : p[k] = o[k],
         NEW f, NEW g, g \subseteq f \cup {o[Len(o)].span},
         Nests(s, o, f), s # <<>> => s[Len(s)].at = "closure" /\ Len(o) > s[Len(s)].open
  PROVE  Nests(s, p, g)
<1>1. Len(s) \in Nat /\ Len(o) \in Nat /\ Len(p) \in Nat
  OBVIOUS
<1>2. \A i \in 1..Len(s) : s[i].open \in Nat
  BY OpenCounts
<1>3. ASSUME NEW i \in 1..Len(s)
      PROVE  /\ s[i].open <= Len(p)
             /\ \A k \in 1..Len(p) : k > s[i].open => p[k].span \in s[i].entered
             /\ \A j \in 1..Len(s) :
                  i < j => /\ s[i].at = "closure" /\ s[i].nested
                           /\ s[i].open <= s[j].open /\ s[j].entered \subseteq s[i].entered
  <2>1. s[i].open <= s[Len(s)].open /\ s # <<>>
    <3>1. Len(s) \in 1..Len(s) /\ (i = Len(s) \/ i < Len(s))
      BY <1>1
    <3>2. CASE i < Len(s)
      BY <3>1, <3>2 DEF Nests
    <3> QED BY <1>2, <3>1, <3>2
  <2>2. s[i].open <= Len(p)
    BY <1>1, <1>2, <2>1
  <2>3. ASSUME NEW k \in 1..Len(p), k > s[i].open PROVE p[k].span \in s[i].entered
    <3>1. k \in 1..Len(o) /\ p[k] = o[k]
      BY <1>1
    <3> QED BY <2>3, <3>1 DEF Nests
  <2>4. \A j \in 1..Len(s) :
          i < j => /\ s[i].at = "closure" /\ s[i].nested
                   /\ s[i].open <= s[j].open /\ s[j].entered \subseteq s[i].entered
    BY DEF Nests
  <2> QED BY <2>2, <2>3, <2>4
<1>4. ASSUME s # <<>> PROVE g \subseteq s[Len(s)].entered
  <2>1. Len(s) \in 1..Len(s) /\ Len(o) \in 1..Len(o)
    BY <1>1, <1>2, <1>4
  <2> QED BY <1>4, <2>1 DEF Nests
<1> QED BY <1>3, <1>4 DEF Nests

LEMMA LeaveMeasures ==
  ASSUME NEW s \in Seq(RunType),
         NEW o \in Seq(Opened), NEW p \in Seq(Opened), Len(p) + 1 = Len(o),
         \A k \in 1..Len(p) : p[k] = o[k],
         NEW f, NEW g, f \subseteq g, o[Len(o)].timed => o[Len(o)].span \in g,
         NEW m, NEW w, Measured(s, o, f, m, w),
         s # <<>> => s[Len(s)].at = "closure" /\ Len(o) > s[Len(s)].open
  PROVE  Measured(s, p, g, m, w)
<1>1. Len(s) \in Nat /\ Len(o) \in Nat /\ Len(p) \in Nat
  OBVIOUS
<1>2. \A i \in 1..Len(s) : s[i].open \in Nat
  BY OpenCounts
<1>3. ASSUME NEW i \in 1..Len(s)
      PROVE  /\ i = 1 => s[i].saved = w
             /\ i > 1 => instant \in s[i].saved
             /\ \A k \in 1..Len(p) : k > s[i].open => p[k].timed
  BY <1>1 DEF Measured
<1>4. ASSUME s # <<>>, ~s[Len(s)].nested, NEW x \in s[Len(s)].entered, x \notin g
      PROVE  \E k \in 1..Len(p) : k > s[Len(s)].open /\ p[k].span = x
  <2>1. Len(s) \in 1..Len(s) /\ Len(o) \in 1..Len(o)
    BY <1>1, <1>2, <1>4
  <2>2. o[Len(o)].timed
    BY <1>4, <2>1 DEF Measured
  <2>3. PICK k \in 1..Len(o) : k > s[Len(s)].open /\ o[k].span = x
    BY <1>4, <2>2 DEF Measured
  <2>4. k # Len(o)
    BY <1>4, <2>2, <2>3
  <2> QED BY <1>1, <2>3, <2>4
<1> QED BY <1>3, <1>4 DEF Measured

\* A run begins inside those on the stack, with nothing entered.
Begun(s, r, m, depth) ==
  /\ r \in Seq(RunType) /\ Len(r) = Len(s) + 1
  /\ \A i \in 1..Len(s) :
       /\ r[i].at = s[i].at /\ r[i].saved = s[i].saved /\ r[i].open = s[i].open
       /\ r[i].entered = s[i].entered /\ r[i].nested
  /\ r[Len(s) + 1] =
       [at |-> "force", saved |-> m, open |-> depth, entered |-> {}, nested |-> FALSE]

LEMMA MeasurePushes ==
  ASSUME NEW s \in Seq(RunType), NEW m \in SUBSET ToSet(Backends), NEW depth \in Nat
  PROVE  Begun(s, Append([i \in DOMAIN s |-> [s[i] EXCEPT !.nested = TRUE]],
                          [at |-> "force", saved |-> m, open |-> depth, entered |-> {},
                           nested |-> FALSE]), m, depth)
<1> DEFINE x(i) == [s[i] EXCEPT !.nested = TRUE]
           q == [i \in DOMAIN s |-> x(i)]
           new == [at |-> "force", saved |-> m, open |-> depth, entered |-> {},
                   nested |-> FALSE]
<1>1. ASSUME NEW i \in 1..Len(s)
      PROVE  /\ x(i) \in RunType
             /\ x(i).at = s[i].at /\ x(i).saved = s[i].saved /\ x(i).open = s[i].open
             /\ x(i).entered = s[i].entered /\ x(i).nested
  <2>1. s[i] \in RunType
    OBVIOUS
  <2>2. x(i) \in RunType
    BY <2>1, Zenon DEF RunType
  <2> QED BY <2>1, <2>2 DEF RunType
<1>2. DOMAIN s = 1..Len(s) /\ Len(s) \in Nat
  OBVIOUS
<1>3. new \in RunType
  BY DEF RunType, Places
<1> HIDE DEF x
<1>4. q \in Seq(RunType) /\ Len(q) = Len(s) /\ \A i \in 1..Len(s) : q[i] = x(i)
  BY <1>1, <1>2
<1> HIDE DEF q, new
<1> DEFINE r == Append(q, new)
<1>5. /\ r \in Seq(RunType) /\ Len(r) = Len(s) + 1
      /\ \A i \in 1..Len(s) : r[i] = x(i)
      /\ r[Len(s) + 1] = new
  BY <1>3, <1>4, OneMore
<1> HIDE DEF r
<1>6. Begun(s, r, m, depth)
  BY <1>1, <1>5 DEF Begun, new
<1> QED BY <1>6 DEF r, q, x, new

LEMMA PushNests ==
  ASSUME NEW s \in Seq(RunType), NEW r, NEW m, NEW o \in Seq(Opened),
         Begun(s, r, m, Len(o)), NEW f, Nests(s, o, f),
         s # <<>> => s[Len(s)].at = "closure"
  PROVE  Nests(r, o, f)
<1>1. Len(s) \in Nat /\ Len(o) \in Nat /\ Len(r) = Len(s) + 1
  BY DEF Begun
<1>2. \A i \in 1..Len(s) : s[i].open \in Nat
  BY OpenCounts
<1>3. r[Len(r)].at = "force" /\ r[Len(r)].entered = {} /\ r[Len(r)].open = Len(o)
  BY <1>1 DEF Begun
<1>4. ASSUME NEW i \in 1..Len(r)
      PROVE  /\ r[i].open <= Len(o)
             /\ \A k \in 1..Len(o) : k > r[i].open => o[k].span \in r[i].entered
             /\ \A j \in 1..Len(r) :
                  i < j => /\ r[i].at = "closure" /\ r[i].nested
                           /\ r[i].open <= r[j].open /\ r[j].entered \subseteq r[i].entered
  <2>1. CASE i = Len(r)
    BY <1>1, <1>3, <2>1
  <2>2. CASE i \in 1..Len(s)
    <3>1. s[i].at = "closure"
      BY <1>1, <2>2 DEF Nests
    <3>2. ASSUME NEW j \in 1..Len(r), i < j
          PROVE  r[i].open <= r[j].open /\ r[j].entered \subseteq r[i].entered
      <4>1. CASE j = Len(r)
        BY <1>1, <1>3, <2>2, <4>1 DEF Begun, Nests
      <4>2. CASE j \in 1..Len(s)
        BY <1>1, <2>2, <3>2, <4>2 DEF Begun, Nests
      <4> QED BY <1>1, <4>1, <4>2
    <3>3. r[i].at = "closure" /\ r[i].nested
      BY <2>2, <3>1 DEF Begun
    <3>4. r[i].open <= Len(o) /\ \A k \in 1..Len(o) : k > r[i].open => o[k].span \in r[i].entered
      BY <2>2 DEF Begun, Nests
    <3> QED BY <3>2, <3>3, <3>4
  <2> QED BY <1>1, <2>1, <2>2
<1> QED BY <1>3, <1>4 DEF Nests

LEMMA PushMeasures ==
  ASSUME NEW s \in Seq(RunType), NEW r, NEW m, NEW o \in Seq(Opened),
         Begun(s, r, m, Len(o)), NEW f, NEW w, Measured(s, o, f, m, w),
         s # <<>> => s[Len(s)].at = "closure", s = <<>> => m = w
  PROVE  Measured(r, o, f, m, w)
<1>1. Len(s) \in Nat /\ Len(o) \in Nat /\ Len(r) = Len(s) + 1
  BY DEF Begun
<1>2. r[Len(r)].at = "force" /\ r[Len(r)].open = Len(o) /\ r[Len(r)].saved = m
  BY <1>1 DEF Begun
<1>3. ASSUME NEW i \in 1..Len(r)
      PROVE  /\ i = 1 => r[i].saved = w
             /\ i > 1 => instant \in r[i].saved
             /\ \A k \in 1..Len(o) : k > r[i].open => o[k].timed
  <2>1. CASE i = Len(r)
    <3>1. s = <<>> <=> i = 1
      BY <1>1, <2>1, EmptySeq
    <3>2. i > 1 => instant \in m
      BY <3>1 DEF Measured
    <3> QED BY <1>1, <1>2, <2>1, <3>1, <3>2
  <2>2. CASE i \in 1..Len(s)
    BY <2>2 DEF Begun, Measured
  <2> QED BY <1>1, <2>1, <2>2
<1> QED BY <1>2, <1>3 DEF Measured

\* The innermost run is over.
LEMMA PopNests ==
  ASSUME NEW s \in Seq(RunType), s # <<>>, s[Len(s)].at = "restore",
         NEW o, NEW f, Nests(s, o, f)
  PROVE  Front(s) \in Seq(RunType) /\ Nests(Front(s), o, f)
<1> DEFINE r == Front(s)
<1>1. Len(s) \in Nat \ {0} /\ Len(s) \in 1..Len(s)
  OBVIOUS
<1>2. /\ r \in Seq(RunType) /\ Len(r) = Len(s) - 1
      /\ \A i \in 1..(Len(s) - 1) : r[i] = s[i]
  BY FrontIsPrefix
<1> HIDE DEF r
<1>3. ASSUME NEW i \in 1..Len(r)
      PROVE  /\ r[i].open <= Len(o)
             /\ \A k \in 1..Len(o) : k > r[i].open => o[k].span \in r[i].entered
             /\ \A j \in 1..Len(r) :
                  i < j => /\ r[i].at = "closure" /\ r[i].nested
                           /\ r[i].open <= r[j].open /\ r[j].entered \subseteq r[i].entered
  <2>1. i \in 1..Len(s) /\ r[i] = s[i]
    BY <1>1, <1>2
  <2>2. ASSUME NEW j \in 1..Len(r), i < j
        PROVE  /\ r[i].at = "closure" /\ r[i].nested
               /\ r[i].open <= r[j].open /\ r[j].entered \subseteq r[i].entered
    <3>1. j \in 1..Len(s) /\ r[j] = s[j]
      BY <1>1, <1>2
    <3> QED BY <2>1, <2>2, <3>1 DEF Nests
  <2> QED BY <2>1, <2>2 DEF Nests
<1>4. ASSUME r # <<>>
      PROVE  r[Len(r)].at = "closure" /\ f \subseteq r[Len(r)].entered
  <2>1. Len(r) \in 1..Len(s) /\ Len(r) < Len(s) /\ r[Len(r)] = s[Len(r)]
    BY <1>1, <1>2, <1>4
  <2>2. s[Len(r)].at = "closure" /\ s[Len(s)].entered \subseteq s[Len(r)].entered
    BY <1>1, <2>1 DEF Nests
  <2>3. f \subseteq s[Len(s)].entered
    BY <1>1 DEF Nests
  <2> QED BY <2>1, <2>2, <2>3
<1>5. Nests(r, o, f)
  BY <1>3, <1>4 DEF Nests
<1> QED BY <1>2, <1>5 DEF r

LEMMA PopMeasures ==
  ASSUME NEW s \in Seq(RunType), s # <<>>,
         NEW o, NEW f, Nests(s, o, f), NEW m, NEW w, Measured(s, o, f, m, w)
  PROVE  /\ Measured(Front(s), o, f, s[Len(s)].saved, w)
         /\ Front(s) = <<>> => s[Len(s)].saved = w
<1> DEFINE r == Front(s)
<1>1. Len(s) \in Nat \ {0} /\ Len(s) \in 1..Len(s)
  OBVIOUS
<1>2. /\ r \in Seq(RunType) /\ Len(r) = Len(s) - 1
      /\ \A i \in 1..(Len(s) - 1) : r[i] = s[i]
  BY FrontIsPrefix
<1> HIDE DEF r
<1>3. ASSUME NEW i \in 1..Len(r)
      PROVE  /\ i = 1 => r[i].saved = w
             /\ i > 1 => instant \in r[i].saved
             /\ \A k \in 1..Len(o) : k > r[i].open => o[k].timed
  BY <1>1, <1>2 DEF Measured
<1>4. ASSUME r # <<>> PROVE instant \in s[Len(s)].saved /\ r[Len(r)].nested
  <2>1. Len(r) \in 1..Len(s) /\ Len(r) < Len(s) /\ r[Len(r)] = s[Len(r)] /\ Len(s) > 1
    BY <1>1, <1>2, <1>4
  <2> QED BY <1>1, <2>1 DEF Nests, Measured
<1>5. Measured(r, o, f, s[Len(s)].saved, w)
  BY <1>3, <1>4 DEF Measured
<1>6. r = <<>> => s[Len(s)].saved = w
  <2>1. r = <<>> => Len(s) = 1
    BY <1>1, <1>2
  <2> QED BY <1>1, <2>1 DEF Measured
<1> QED BY <1>5, <1>6 DEF r

-----------------------------------------------------------------------------
\* The steps.

LEMMA InitProfiles == ProfilesInit => ProfilesIInv
<1> SUFFICES ASSUME ProfilesInit PROVE ProfilesIInv
  OBVIOUS
<1> USE DEF ProfilesInit
<1>1. fastrace \in ToSet(Backends) /\ Len(Backends) \in Nat
  BY BackendsAssumption
<1>2. ProfileRanges
  <2>1. Idle \in Swaps
    BY <1>1 DEF Idle, Swaps
  <2>2. setting \in [Threads -> Swaps]
    BY <2>1
  <2>3. open \in [Threads -> Seq(Opened)] /\ runs \in [Threads -> Seq(RunType)]
    OBVIOUS
  <2>4. finished \in [Threads -> SUBSET Nat] /\ warnings \in [ToSet(Backends) -> Nat]
    OBVIOUS
  <2>5. reported.spans \subseteq 1..spans
    OBVIOUS
  <2> QED BY <1>1, <2>2, <2>3, <2>4, <2>5 DEF ProfileRanges
<1>3. SpansNumbered /\ WarnedOnce /\ OneAtATime /\ MaskRestored /\ ReportsOwnSpans
  BY DEF SpansNumbered, WarnedOnce, OneAtATime, Busy, MaskRestored, ReportsOwnSpans
<1>4. Pending
  BY BackendsAssumption DEF Pending
<1>5. RunsNest /\ RunsMeasure
  BY DEF RunsNest, RunsMeasure, Nests, Measured
<1> QED BY <1>2, <1>3, <1>4, <1>5 DEF ProfilesIInv

\* The mask is swapped by a thread that was not in the middle of a swap.
LEMMA SwapKeeps ==
  ASSUME ProfileRanges, Pending, NEW t \in Threads, setting[t] = Idle,
         NEW backends \in SUBSET ToSet(Backends), Swap(t, backends),
         UNCHANGED <<warned, scopesOn>>
  PROVE  /\ Pending'
         /\ mask' = backends /\ requested' \in SUBSET ToSet(Backends)
         /\ setting' \in [Threads -> Swaps] /\ setting'[t] # Idle
         /\ \A u \in Threads \ {t} : setting'[u] = setting[u]
<1> DEFINE s == [next |-> 1, backends |-> backends, previous |-> mask]
<1>1. Len(Backends) \in Nat /\ DOMAIN Backends = 1..Len(Backends)
  BY BackendsAssumption
<1>2. s \in Swaps /\ s # Idle
  BY <1>1 DEF Swaps, Idle, ProfileRanges
<1>3. setting' = [setting EXCEPT ![t] = s] /\ mask' = backends
      /\ requested' = requested \cup backends
  BY DEF Swap
<1>4. s.next = 1 /\ s.backends = backends /\ s.previous = mask
  OBVIOUS
<1> HIDE DEF s
<1>5. /\ setting' \in [Threads -> Swaps] /\ setting'[t] = s
      /\ \A u \in Threads \ {t} : setting'[u] = setting[u]
  BY <1>2, <1>3 DEF ProfileRanges
<1>6. ~SwitchesOn(setting[t]) /\ \A b : ~LooksAt(setting[t], b)
  BY DEF SwitchesOn, LooksAt, Idle
<1>7. ASSUME NEW b \in requested' \ Available
      PROVE  b \in warned' \/ \E u \in Threads : LooksAt(setting'[u], b)
  <2>1. CASE b \in backends
    <3>1. PICK i \in 1..Len(Backends) : Backends[i] = b
      BY <1>1, <2>1 DEF ToSet
    <3>2. LooksAt(s, b)
      BY <1>1, <1>4, <2>1, <3>1 DEF LooksAt
    <3> QED BY <1>5, <3>2
  <2>2. CASE b \in requested
    <3>1. b \in warned \/ \E u \in Threads : LooksAt(setting[u], b)
      BY <1>7, <2>2 DEF Pending
    <3> QED BY <1>5, <1>6, <3>1
  <2> QED BY <1>3, <1>7, <2>1, <2>2
<1>8. ASSUME puffin \in mask' \cap Available
      PROVE  scopesOn' \/ \E u \in Threads : SwitchesOn(setting'[u])
  <2>1. CASE puffin \in mask
    <3>1. scopesOn \/ \E u \in Threads : SwitchesOn(setting[u])
      BY <1>8, <2>1 DEF Pending
    <3> QED BY <1>5, <1>6, <3>1
  <2>2. CASE puffin \notin mask
    <3>1. SwitchesOn(s)
      BY <1>3, <1>4, <1>8, <2>2 DEF SwitchesOn
    <3> QED BY <1>5, <3>1
  <2> QED BY <2>1, <2>2
<1>9. Pending'
  BY <1>7, <1>8 DEF Pending
<1> QED BY <1>2, <1>3, <1>5, <1>9 DEF ProfileRanges

LEMMA SetBackendsKeeps ==
  ASSUME ProfilesIInv, NEW t \in Threads, NEW m \in Masks, SetBackends(t, m)
  PROVE  ProfilesIInv'
<1> USE DEF SetBackends, MayCall
<1>1. m \in SUBSET ToSet(Backends)
  BY MasksAssumption
<1>2. UNCHANGED <<warned, warnings, open, finished, spans, runs, reported, serialized, scopesOn>>
  BY DEF warnVars, spanVars, runVars
<1>3. /\ Pending'
      /\ mask' = m /\ requested' \in SUBSET ToSet(Backends)
      /\ setting' \in [Threads -> Swaps]
      /\ \A u \in Threads \ {t} : setting'[u] = setting[u]
  BY <1>1, <1>2, SwapKeeps DEF ProfilesIInv
<1>4. ProfileRanges'
  BY <1>1, <1>2, <1>3 DEF ProfilesIInv, ProfileRanges
<1>5. SpansNumbered' /\ WarnedOnce' /\ RunsNest' /\ ReportsOwnSpans'
  BY <1>2 DEF ProfilesIInv, SpansNumbered, WarnedOnce, RunsNest, ReportsOwnSpans
<1>6. OneAtATime'
  BY <1>2, <1>3 DEF OneAtATime, Busy
<1>7. RunsMeasure' /\ MaskRestored'
  <2>1. MaskRestored'
    BY <1>3 DEF MaskRestored
  <2>2. ASSUME serialized PROVE \A u \in Threads : runs[u] = <<>>
    BY <2>2 DEF Busy
  <2>3. RunsMeasure'
    BY <1>2, <2>2 DEF RunsMeasure, Measured
  <2> QED BY <2>1, <2>3
<1> QED BY <1>3, <1>4, <1>5, <1>6, <1>7 DEF ProfilesIInv

LEMMA WarnUnavailableKeeps ==
  ASSUME ProfilesIInv, NEW t \in Threads, WarnUnavailable(t)
  PROVE  ProfilesIInv'
<1> DEFINE n == setting[t].next
           b == Backends[n]
<1>1. Len(Backends) \in Nat /\ DOMAIN Backends = 1..Len(Backends)
  BY BackendsAssumption
<1>2. n \in 1..Len(Backends) /\ setting[t] \in Swaps
  BY <1>1 DEF WarnUnavailable, ProfilesIInv, ProfileRanges
<1>3. b \in ToSet(Backends)
  BY <1>1, <1>2 DEF ToSet
<1>4. UNCHANGED <<open, finished, spans, runs, reported, serialized, wanted, calls, mask,
                  scopesOn, requested>>
  BY DEF WarnUnavailable, spanVars, runVars, programVars
<1>5. /\ setting' \in [Threads -> Swaps]
      /\ \A u \in Threads \ {t} : setting'[u] = setting[u]
      /\ setting'[t].next = n + 1 /\ setting'[t].backends = setting[t].backends
      /\ setting'[t].previous = setting[t].previous
  <2>1. setting' = [setting EXCEPT ![t] = [setting[t] EXCEPT !.next = n + 1]]
    BY DEF WarnUnavailable
  <2>2. n + 1 \in 0..(Len(Backends) + 1)
    BY <1>1, <1>2
  <2>3. [setting[t] EXCEPT !.next = n + 1] \in Swaps
    BY <1>2, <2>2, Zenon DEF Swaps
  <2>4. setting' \in [Threads -> Swaps] /\ setting'[t] = [setting[t] EXCEPT !.next = n + 1]
        /\ \A u \in Threads \ {t} : setting'[u] = setting[u]
    BY <2>1, <2>3 DEF ProfilesIInv, ProfileRanges
  <2> QED BY <1>2, <2>4 DEF Swaps
<1>6. \/ UNCHANGED <<warned, warnings>> /\ (b \in Available \/ b \notin setting[t].backends)
      \/ /\ warned' = warned \cup {b}
         /\ warnings' = IF b \in warned THEN warnings ELSE [warnings EXCEPT ![b] = @ + 1]
  BY DEF WarnUnavailable, warnVars
<1>7. Busy(t) /\ setting[t] # Idle
  BY <1>2 DEF Busy, Idle
<1> HIDE DEF n, b
<1>8. warned' \in SUBSET ToSet(Backends) /\ warnings' \in [ToSet(Backends) -> Nat] /\ WarnedOnce'
  <2>1. /\ warned \in SUBSET ToSet(Backends) /\ warnings \in [ToSet(Backends) -> Nat]
        /\ \A c \in ToSet(Backends) : warnings[c] = IF c \in warned THEN 1 ELSE 0
    BY DEF ProfilesIInv, ProfileRanges, WarnedOnce
  <2>2. warned' \in SUBSET ToSet(Backends)
    BY <1>3, <1>6, <2>1
  <2>3. CASE UNCHANGED <<warned, warnings>> \/ b \in warned
    <3>1. warned' = warned /\ warnings' = warnings
      BY <1>6, <2>3
    <3> QED BY <2>1, <3>1 DEF WarnedOnce
  <2>4. CASE ~UNCHANGED <<warned, warnings>> /\ b \notin warned
    <3>1. warned' = warned \cup {b} /\ warnings' = [warnings EXCEPT ![b] = @ + 1]
      BY <1>6, <2>4
    <3>2. warnings' \in [ToSet(Backends) -> Nat]
      BY <1>3, <2>1, <3>1
    <3>3. WarnedOnce'
      BY <1>3, <2>1, <2>4, <3>1 DEF WarnedOnce
    <3> QED BY <2>2, <3>2, <3>3
  <2> QED BY <2>2, <2>3, <2>4
<1>9. ProfileRanges' /\ SpansNumbered' /\ RunsNest' /\ RunsMeasure' /\ ReportsOwnSpans'
      /\ MaskRestored'
  BY <1>4, <1>5, <1>8 DEF ProfilesIInv, ProfileRanges, SpansNumbered, RunsNest, RunsMeasure,
                          ReportsOwnSpans, MaskRestored
<1>10. OneAtATime'
  BY <1>4, <1>5, <1>7 DEF ProfilesIInv, OneAtATime, Busy
<1>11. ASSUME NEW c \in requested' \ Available
       PROVE  c \in warned' \/ \E u \in Threads : LooksAt(setting'[u], c)
  <2>1. c \in warned \/ \E u \in Threads : LooksAt(setting[u], c)
    BY <1>4, <1>11 DEF ProfilesIInv, Pending
  <2>2. warned \subseteq warned'
    BY <1>6
  <2>3. CASE LooksAt(setting[t], c)
    <3>1. PICK i \in 1..Len(Backends) : Backends[i] = c /\ 1 <= n /\ n <= i
      BY <2>3 DEF LooksAt, n
    <3>2. c \in setting[t].backends
      BY <2>3 DEF LooksAt
    <3>3. CASE i = n
      <4>1. c = b
        BY <3>1, <3>3 DEF b
      <4> QED BY <1>6, <1>11, <3>2, <4>1
    <3>4. CASE i # n
      <4>1. n + 1 <= i /\ 1 <= n + 1
        BY <1>2, <3>1, <3>4 DEF n
      <4>2. LooksAt(setting'[t], c)
        BY <1>5, <3>1, <3>2, <4>1 DEF LooksAt
      <4> QED BY <4>2
    <3> QED BY <3>3, <3>4
  <2> QED BY <1>5, <2>1, <2>2, <2>3
<1>12. ASSUME puffin \in mask' \cap Available
       PROVE  scopesOn' \/ \E u \in Threads : SwitchesOn(setting'[u])
  <2>1. scopesOn \/ \E u \in Threads : SwitchesOn(setting[u])
    BY <1>4, <1>12 DEF ProfilesIInv, Pending
  <2>2. SwitchesOn(setting[t]) => SwitchesOn(setting'[t])
    BY <1>2, <1>5 DEF SwitchesOn, n
  <2> QED BY <1>4, <1>5, <2>1, <2>2
<1>13. Pending'
  BY <1>11, <1>12 DEF Pending
<1> QED BY <1>8, <1>9, <1>10, <1>13 DEF ProfilesIInv

LEMMA OnEnableKeeps ==
  ASSUME ProfilesIInv, NEW t \in Threads, OnEnable(t)
  PROVE  ProfilesIInv'
<1>1. Len(Backends) \in Nat
  BY BackendsAssumption
<1>2. UNCHANGED <<warned, warnings, open, finished, spans, runs, reported, serialized, wanted,
                  calls, mask, requested>>
  BY DEF OnEnable, warnVars, spanVars, runVars, programVars
<1>3. setting' \in [Threads -> Swaps] /\ setting'[t] = Idle
      /\ \A u \in Threads \ {t} : setting'[u] = setting[u]
  <2>1. Idle \in Swaps
    BY <1>1 DEF Idle, Swaps
  <2> QED BY <2>1 DEF OnEnable, ProfilesIInv, ProfileRanges
<1>4. scopesOn' \in BOOLEAN /\ (scopesOn => scopesOn')
  BY DEF OnEnable, ProfilesIInv, ProfileRanges
<1>5. ProfileRanges' /\ SpansNumbered' /\ RunsNest' /\ RunsMeasure' /\ ReportsOwnSpans'
      /\ MaskRestored' /\ WarnedOnce'
  BY <1>2, <1>3, <1>4 DEF ProfilesIInv, ProfileRanges, SpansNumbered, RunsNest, RunsMeasure,
                          ReportsOwnSpans, MaskRestored, WarnedOnce
<1>6. OneAtATime'
  BY <1>2, <1>3 DEF ProfilesIInv, OneAtATime, Busy
<1>7. ASSUME NEW c \in requested' \ Available
      PROVE  c \in warned' \/ \E u \in Threads : LooksAt(setting'[u], c)
  <2>1. c \in warned \/ \E u \in Threads : LooksAt(setting[u], c)
    BY <1>2, <1>7 DEF ProfilesIInv, Pending
  <2>2. ~LooksAt(setting[t], c)
    BY <1>1 DEF OnEnable, LooksAt
  <2> QED BY <1>2, <1>3, <2>1, <2>2
<1>8. ASSUME puffin \in mask' \cap Available
      PROVE  scopesOn' \/ \E u \in Threads : SwitchesOn(setting'[u])
  <2>1. scopesOn \/ \E u \in Threads : SwitchesOn(setting[u])
    BY <1>2, <1>8 DEF ProfilesIInv, Pending
  <2>2. SwitchesOn(setting[t]) => scopesOn'
    BY <1>8 DEF SwitchesOn, OnEnable
  <2> QED BY <1>3, <1>4, <2>1, <2>2
<1>9. Pending'
  BY <1>7, <1>8 DEF Pending
<1> QED BY <1>5, <1>6, <1>9 DEF ProfilesIInv

\* What a thread without runs owes.
LEMMA NoRuns ==
  ASSUME NEW o, NEW f, NEW m, NEW w
  PROVE  Nests(<<>>, o, f) /\ Measured(<<>>, o, f, m, w)
BY DEF Nests, Measured

\* A step that swaps nothing disturbs neither masks nor warnings.
LEMMA NoSwap ==
  ASSUME ProfilesIInv,
         UNCHANGED <<mask, setting, requested, warned, warnings, scopesOn>>
  PROVE  Pending' /\ WarnedOnce'
BY DEF ProfilesIInv, Pending, WarnedOnce

LEMMA EnterScopeKeeps ==
  ASSUME ProfilesIInv, NEW t \in Threads, EnterScope(t)
  PROVE  ProfilesIInv'
<1> DEFINE s == runs[t]
           o == open[t]
           new == [timed |-> Times, span |-> spans']
           p == Append(o, new)
           r == [i \in DOMAIN s |-> [s[i] EXCEPT !.entered = @ \cup {spans'}]]
<1>1. /\ UNCHANGED <<mask, setting, requested, warned, warnings, serialized, wanted, calls,
                     scopesOn, finished, reported>>
      /\ spans' = spans + 1 /\ InProgram(t)
      /\ open' = [open EXCEPT ![t] = p] /\ runs' = [runs EXCEPT ![t] = r]
  <2>1. /\ UNCHANGED <<mask, setting, requested, warned, warnings, serialized, wanted, calls,
                       scopesOn, finished, reported>>
        /\ spans' = spans + 1 /\ InProgram(t)
    BY DEF EnterScope, maskVars, warnVars, programVars
  <2>2. open' = [open EXCEPT ![t] = p]
    BY DEF EnterScope
  <2>3. runs' = [runs EXCEPT ![t] = r]
    BY Zenon DEF EnterScope
  <2> QED BY <2>1, <2>2, <2>3
<1>2. s \in Seq(RunType) /\ o \in Seq(Opened) /\ spans \in Nat /\ spans' \in Nat
  BY <1>1 DEF ProfilesIInv, ProfileRanges
<1>3. new \in Opened /\ new.span = spans' /\ (instant \in mask => new.timed)
  BY <1>2 DEF Opened, Times
<1>4. Marked(s, r, spans')
  BY <1>2, EnteringMarks
<1> HIDE DEF new, r
<1>5. /\ p \in Seq(Opened) /\ Len(p) = Len(o) + 1
      /\ \A k \in 1..Len(o) : p[k] = o[k]
      /\ p[Len(o) + 1] = new
  BY <1>2, <1>3, OneMore
<1>6. s # <<>> => s[Len(s)].at = "closure"
  BY <1>1 DEF InProgram, Last
<1> HIDE DEF p
<1>7. /\ r \in Seq(RunType)
      /\ runs' \in [Threads -> Seq(RunType)] /\ runs'[t] = r
      /\ open' \in [Threads -> Seq(Opened)] /\ open'[t] = p
      /\ \A u \in Threads \ {t} : runs'[u] = runs[u] /\ open'[u] = open[u]
  BY <1>1, <1>4, <1>5 DEF ProfilesIInv, ProfileRanges, Marked
<1>8. ProfileRanges'
  <2>1. reported'.spans \subseteq 1..spans'
    BY <1>1, <1>2 DEF ProfilesIInv, ProfileRanges
  <2> QED BY <1>1, <1>2, <1>7, <2>1 DEF ProfilesIInv, ProfileRanges
<1>9. SpansNumbered'
  <2>1. \A u \in Threads : finished'[u] \subseteq 1..spans'
    BY <1>1, <1>2 DEF ProfilesIInv, SpansNumbered
  <2>2. ASSUME NEW u \in Threads, NEW k \in 1..Len(open'[u])
        PROVE  open'[u][k].span \in 1..spans'
    <3>1. CASE u = t
      <4>1. CASE k \in 1..Len(o)
        BY <1>1, <1>2, <1>5, <1>7, <3>1, <4>1 DEF ProfilesIInv, SpansNumbered
      <4>2. CASE k = Len(o) + 1
        BY <1>1, <1>2, <1>3, <1>5, <1>7, <3>1, <4>2
      <4> QED BY <1>2, <1>5, <1>7, <2>2, <3>1, <4>1, <4>2
    <3>2. CASE u # t
      BY <1>1, <1>2, <1>7, <2>2, <3>2 DEF ProfilesIInv, SpansNumbered
    <3> QED BY <3>1, <3>2
  <2> QED BY <2>1, <2>2 DEF SpansNumbered
<1>10. r = <<>> <=> s = <<>>
  BY <1>2, <1>4, <1>7, EmptySeq DEF Marked
<1>11. OneAtATime' /\ MaskRestored'
  BY <1>1, <1>7, <1>10 DEF ProfilesIInv, OneAtATime, Busy, MaskRestored
<1>12. RunsNest'
  <2>1. Nests(r, p, finished[t])
    BY <1>2, <1>3, <1>4, <1>5, <1>6, EnterNests DEF ProfilesIInv, RunsNest
  <2> QED BY <1>1, <1>7, <2>1 DEF ProfilesIInv, RunsNest
<1>13. RunsMeasure'
  <2> SUFFICES ASSUME serialized'
               PROVE  \A u \in Threads : Measured(runs'[u], open'[u], finished'[u], mask', wanted')
    BY DEF RunsMeasure
  <2>1. Measured(s, o, finished[t], mask, wanted) /\ Nests(s, o, finished[t])
    BY <1>1 DEF ProfilesIInv, RunsMeasure, RunsNest
  <2>2. Measured(r, p, finished[t], mask, wanted)
    BY <1>2, <1>3, <1>4, <1>5, <1>6, <2>1, EnterMeasures
  <2> QED BY <1>1, <1>7, <2>2 DEF ProfilesIInv, RunsMeasure
<1>14. ReportsOwnSpans'
  BY <1>1 DEF ProfilesIInv, ReportsOwnSpans
<1> QED BY <1>1, <1>8, <1>9, <1>11, <1>12, <1>13, <1>14, NoSwap DEF ProfilesIInv

LEMMA LeaveScopeKeeps ==
  ASSUME ProfilesIInv, NEW t \in Threads, LeaveScope(t)
  PROVE  ProfilesIInv'
<1> DEFINE s == runs[t]
           o == open[t]
           p == Front(o)
           f == finished[t]
           g == IF o[Len(o)].timed THEN f \cup {o[Len(o)].span} ELSE f
<1>1. /\ UNCHANGED <<mask, setting, requested, warned, warnings, serialized, wanted, calls,
                     scopesOn, spans, runs, reported>>
      /\ InProgram(t) /\ Len(o) > Outside(t)
      /\ open' = [open EXCEPT ![t] = p]
      /\ finished' = IF o[Len(o)].timed THEN [finished EXCEPT ![t] = @ \cup {o[Len(o)].span}]
                     ELSE finished
  BY DEF LeaveScope, maskVars, warnVars, programVars, runVars, Last
<1>2. s \in Seq(RunType) /\ o \in Seq(Opened) /\ f \in SUBSET Nat /\ spans \in Nat
  BY DEF ProfilesIInv, ProfileRanges
<1>3. s # <<>> => s[Len(s)].at = "closure" /\ Len(o) > s[Len(s)].open
  BY <1>1 DEF InProgram, Outside, Last
<1>4. Len(o) \in 1..Len(o) /\ o # <<>>
  <2>1. Outside(t) \in Nat
    <3>1. s # <<>> => Len(s) \in 1..Len(s)
      BY <1>2
    <3> QED BY <1>2, <3>1, OpenCounts DEF Outside, Last
  <2> QED BY <1>1, <1>2, <2>1
<1>5. p \in Seq(Opened) /\ Len(p) + 1 = Len(o) /\ \A k \in 1..Len(p) : p[k] = o[k]
  BY <1>2, <1>4, FrontIsPrefix
<1>6. o[Len(o)].span \in 1..spans
  BY <1>4 DEF ProfilesIInv, SpansNumbered
<1>7. f \subseteq 1..spans
  BY DEF ProfilesIInv, SpansNumbered
<1> HIDE DEF p
<1>8. /\ open' \in [Threads -> Seq(Opened)] /\ open'[t] = p
      /\ \A u \in Threads \ {t} : open'[u] = open[u]
  BY <1>1, <1>5 DEF ProfilesIInv, ProfileRanges
<1>9. /\ g \subseteq 1..spans
      /\ finished' \in [Threads -> SUBSET Nat] /\ finished'[t] = g
      /\ \A u \in Threads \ {t} : finished'[u] = finished[u]
  <2>1. g \subseteq 1..spans /\ 1..spans \subseteq Nat
    BY <1>2, <1>6, <1>7
  <2>2. finished' = [finished EXCEPT ![t] = g]
    BY <1>1 DEF ProfilesIInv, ProfileRanges
  <2> HIDE DEF g
  <2> QED BY <2>1, <2>2 DEF ProfilesIInv, ProfileRanges
<1>10. g = IF o[Len(o)].timed THEN f \cup {o[Len(o)].span} ELSE f
  OBVIOUS
<1> HIDE DEF g
<1>10a. g \subseteq f \cup {o[Len(o)].span}
  BY <1>10
<1>10b. f \subseteq g /\ (o[Len(o)].timed => o[Len(o)].span \in g)
  BY <1>10
<1>11. ProfileRanges'
  BY <1>1, <1>8, <1>9 DEF ProfilesIInv, ProfileRanges
<1>12. SpansNumbered'
  <2>1. ASSUME NEW u \in Threads, NEW k \in 1..Len(open'[u])
        PROVE  open'[u][k].span \in 1..spans'
    <3>1. CASE u = t
      <4>1. k \in 1..Len(o) /\ open'[u][k] = o[k]
        BY <1>2, <1>5, <1>8, <2>1, <3>1
      <4> QED BY <1>1, <4>1 DEF ProfilesIInv, SpansNumbered
    <3>2. CASE u # t
      BY <1>1, <1>8, <2>1, <3>2 DEF ProfilesIInv, SpansNumbered
    <3> QED BY <3>1, <3>2
  <2>2. \A u \in Threads : finished'[u] \subseteq 1..spans'
    BY <1>1, <1>9 DEF ProfilesIInv, SpansNumbered
  <2> QED BY <2>1, <2>2 DEF SpansNumbered
<1>13. OneAtATime' /\ MaskRestored' /\ ReportsOwnSpans'
  BY <1>1 DEF ProfilesIInv, OneAtATime, Busy, MaskRestored, ReportsOwnSpans
<1>14. RunsNest'
  <2>1. Nests(s, p, g)
    BY <1>2, <1>3, <1>5, <1>10a, LeaveNests DEF ProfilesIInv, RunsNest
  <2> QED BY <1>1, <1>8, <1>9, <2>1 DEF ProfilesIInv, RunsNest
<1>15. RunsMeasure'
  <2> SUFFICES ASSUME serialized'
               PROVE  \A u \in Threads : Measured(runs'[u], open'[u], finished'[u], mask', wanted')
    BY DEF RunsMeasure
  <2>1. Measured(s, o, f, mask, wanted)
    BY <1>1 DEF ProfilesIInv, RunsMeasure
  <2>2. Measured(s, p, g, mask, wanted)
    BY <1>2, <1>3, <1>5, <1>10b, <2>1, LeaveMeasures
  <2> QED BY <1>1, <1>8, <1>9, <2>2 DEF ProfilesIInv, RunsMeasure
<1> QED BY <1>1, <1>11, <1>12, <1>13, <1>14, <1>15, NoSwap DEF ProfilesIInv

LEMMA MeasureKeeps ==
  ASSUME ProfilesIInv, NEW t \in Threads, Measure(t)
  PROVE  ProfilesIInv'
<1> DEFINE s == runs[t]
           o == open[t]
           r == Append([i \in DOMAIN s |-> [s[i] EXCEPT !.nested = TRUE]],
                       [at |-> "force", saved |-> mask, open |-> Len(o), entered |-> {},
                        nested |-> FALSE])
<1>1. /\ UNCHANGED <<mask, setting, requested, warned, warnings, serialized, wanted,
                     scopesOn, open, finished, spans, reported>>
      /\ InProgram(t) /\ MayCall(t)
      /\ calls' = calls + 1 /\ runs' = [runs EXCEPT ![t] = r]
  BY DEF Measure, maskVars, warnVars, spanVars
<1>2. s \in Seq(RunType) /\ o \in Seq(Opened) /\ mask \in SUBSET ToSet(Backends)
      /\ Len(o) \in Nat /\ calls' \in Nat
  BY <1>1 DEF ProfilesIInv, ProfileRanges
<1>3. Begun(s, r, mask, Len(o))
  BY <1>2, MeasurePushes
<1> HIDE DEF r
<1>4. s # <<>> => s[Len(s)].at = "closure"
  BY <1>1 DEF InProgram, Last
<1>5. /\ runs' \in [Threads -> Seq(RunType)] /\ runs'[t] = r
      /\ \A u \in Threads \ {t} : runs'[u] = runs[u]
  BY <1>1, <1>3 DEF ProfilesIInv, ProfileRanges, Begun
<1>6. ProfileRanges' /\ SpansNumbered' /\ ReportsOwnSpans'
  BY <1>1, <1>2, <1>5 DEF ProfilesIInv, ProfileRanges, SpansNumbered, ReportsOwnSpans
<1>7. r # <<>>
  BY <1>2, <1>3 DEF Begun
<1>8. OneAtATime'
  BY <1>1, <1>5 DEF MayCall, OneAtATime, Busy
<1>9. MaskRestored'
  BY <1>5, <1>7 DEF MaskRestored
<1>10. RunsNest'
  <2>1. Nests(r, o, finished[t])
    BY <1>2, <1>3, <1>4, PushNests DEF ProfilesIInv, RunsNest
  <2> QED BY <1>1, <1>5, <2>1 DEF ProfilesIInv, RunsNest
<1>11. RunsMeasure'
  <2> SUFFICES ASSUME serialized'
               PROVE  \A u \in Threads : Measured(runs'[u], open'[u], finished'[u], mask', wanted')
    BY DEF RunsMeasure
  <2>1. Measured(s, o, finished[t], mask, wanted)
    BY <1>1 DEF ProfilesIInv, RunsMeasure
  <2>2. s = <<>> => mask = wanted
    BY <1>1 DEF MayCall, Busy, ProfilesIInv, MaskRestored
  <2>3. Measured(r, o, finished[t], mask, wanted)
    BY <1>2, <1>3, <1>4, <2>1, <2>2, PushMeasures
  <2> QED BY <1>1, <1>5, <2>3 DEF ProfilesIInv, RunsMeasure
<1> QED BY <1>1, <1>6, <1>8, <1>9, <1>10, <1>11, NoSwap DEF ProfilesIInv

\* The innermost run of a thread.
LEMMA InnermostRun ==
  ASSUME ProfilesIInv, NEW t \in Threads, NEW place, At(t, place)
  PROVE  /\ runs[t] \in Seq(RunType) /\ runs[t] # <<>> /\ open[t] \in Seq(Opened)
         /\ Len(runs[t]) \in 1..Len(runs[t])
         /\ runs[t][Len(runs[t])].at = place
         /\ runs[t][Len(runs[t])].saved \in SUBSET ToSet(Backends)
         /\ runs[t][Len(runs[t])].entered \in SUBSET Nat
         /\ runs[t][Len(runs[t])].nested \in BOOLEAN
         /\ Last(runs[t]) = runs[t][Len(runs[t])]
         /\ setting[t] = Idle /\ Busy(t)
         /\ Nests(runs[t], open[t], finished[t])
<1>1. runs[t] \in Seq(RunType) /\ runs[t] # <<>> /\ open[t] \in Seq(Opened)
  BY DEF At, ProfilesIInv, ProfileRanges
<1>2. Len(runs[t]) \in 1..Len(runs[t])
  BY <1>1
<1>3. runs[t][Len(runs[t])] \in RunType
  BY <1>1, <1>2
<1>4. Nests(runs[t], open[t], finished[t])
  BY DEF ProfilesIInv, RunsNest
<1> QED BY <1>1, <1>2, <1>3, <1>4 DEF At, Last, Busy, RunType

\* A run swaps the mask: nobody else has one, if callers serialize.
LEMMA OthersHaveNone ==
  ASSUME ProfilesIInv, serialized, NEW t \in Threads, Busy(t)
  PROVE  \A u \in Threads \ {t} : runs[u] = <<>>
BY DEF ProfilesIInv, OneAtATime, Busy

LEMMA ForceInstantKeeps ==
  ASSUME ProfilesIInv, NEW t \in Threads, ForceInstant(t)
  PROVE  ProfilesIInv'
<1> DEFINE s == runs[t]
           r == runs'[t]
           backends == s[Len(s)].saved \cup {instant}
<1>1. /\ UNCHANGED <<warned, warnings, open, finished, spans, serialized, wanted, calls,
                     scopesOn, reported>>
      /\ At(t, "force") /\ runs' = Move(t, "clear")
  BY DEF ForceInstant, warnVars, spanVars, programVars
<1>2. /\ s \in Seq(RunType) /\ s # <<>> /\ open[t] \in Seq(Opened)
      /\ s[Len(s)].at = "force" /\ s[Len(s)].saved \in SUBSET ToSet(Backends)
      /\ Last(s) = s[Len(s)] /\ setting[t] = Idle /\ Busy(t)
      /\ Nests(s, open[t], finished[t])
  BY <1>1, InnermostRun
<1>3. instant \in ToSet(Backends) /\ backends \in SUBSET ToSet(Backends) /\ instant \in backends
  BY <1>2, BackendsAssumption
<1>4. Swap(t, backends)
  BY <1>2 DEF ForceInstant
<1> HIDE DEF backends
<1>5. /\ Pending'
      /\ mask' = backends /\ requested' \in SUBSET ToSet(Backends)
      /\ setting' \in [Threads -> Swaps] /\ setting'[t] # Idle
      /\ \A u \in Threads \ {t} : setting'[u] = setting[u]
  BY <1>1, <1>2, <1>3, <1>4, SwapKeeps DEF ProfilesIInv
<1>6. /\ runs' \in [Threads -> Seq(RunType)]
      /\ \A u \in Threads \ {t} : runs'[u] = runs[u]
      /\ Moved(s, r, "clear")
  BY <1>1, <1>2, MoveMoves DEF ProfilesIInv, ProfileRanges, Places
<1>7. ProfileRanges' /\ SpansNumbered' /\ ReportsOwnSpans' /\ WarnedOnce'
  BY <1>1, <1>3, <1>5, <1>6
     DEF ProfilesIInv, ProfileRanges, SpansNumbered, ReportsOwnSpans, WarnedOnce
<1>8. r # <<>>
  BY <1>2, <1>6 DEF Moved
<1>9. OneAtATime'
  BY <1>1, <1>2, <1>5, <1>6 DEF ProfilesIInv, OneAtATime, Busy
<1>10. MaskRestored'
  BY <1>8 DEF MaskRestored
<1>11. RunsNest'
  <2>1. Nests(r, open[t], finished[t])
    BY <1>2, <1>6, MoveNests
  <2> QED BY <1>1, <1>6, <2>1 DEF ProfilesIInv, RunsNest
<1>12. RunsMeasure'
  <2> SUFFICES ASSUME serialized'
               PROVE  \A u \in Threads : Measured(runs'[u], open'[u], finished'[u], mask', wanted')
    BY DEF RunsMeasure
  <2>1. Measured(s, open[t], finished[t], mask, wanted)
    BY <1>1 DEF ProfilesIInv, RunsMeasure
  <2>2. Measured(r, open[t], finished[t], mask', wanted)
    BY <1>2, <1>3, <1>5, <1>6, <2>1, MoveMeasures
  <2>3. \A u \in Threads \ {t} : runs'[u] = <<>>
    BY <1>1, <1>2, <1>6, OthersHaveNone
  <2> QED BY <1>1, <2>2, <2>3, NoRuns
<1> QED BY <1>5, <1>7, <1>9, <1>10, <1>11, <1>12 DEF ProfilesIInv

\* A run goes on without a swap, and its accumulator may be emptied.
LEMMA PlaceKeeps ==
  ASSUME ProfilesIInv, NEW t \in Threads, NEW from, NEW to, At(t, from), runs' = Move(t, to),
         UNCHANGED <<mask, setting, requested, warned, warnings, serialized, wanted, calls,
                     scopesOn, open, spans>>,
         \/ from = "clear" /\ to = "closure" /\ finished' = [finished EXCEPT ![t] = {}]
         \/ from = "closure" /\ to = "restore" /\ finished' = [finished EXCEPT ![t] = {}]
         \/ from = "closure" /\ to = "restore" /\ finished' = finished,
         reported'.spans \subseteq 1..spans', ReportsOwnSpans'
  PROVE  ProfilesIInv'
<1> DEFINE s == runs[t]
           r == runs'[t]
           f == finished[t]
           g == finished'[t]
<1>1. /\ s \in Seq(RunType) /\ s # <<>> /\ open[t] \in Seq(Opened)
      /\ s[Len(s)].at = from /\ Busy(t) /\ Nests(s, open[t], f)
  BY InnermostRun
<1>2. /\ runs' \in [Threads -> Seq(RunType)]
      /\ \A u \in Threads \ {t} : runs'[u] = runs[u]
      /\ Moved(s, r, to)
  BY <1>1, MoveMoves DEF ProfilesIInv, ProfileRanges, Places
<1>3. /\ finished' \in [Threads -> SUBSET Nat]
      /\ \A u \in Threads \ {t} : finished'[u] = finished[u]
      /\ g = f \/ g = {}
      /\ from = "clear" => g = {}
  BY DEF ProfilesIInv, ProfileRanges
<1>4. ProfileRanges'
  BY <1>2, <1>3 DEF ProfilesIInv, ProfileRanges
<1>5. SpansNumbered'
  BY <1>3 DEF ProfilesIInv, SpansNumbered
<1>6. r # <<>>
  BY <1>1, <1>2 DEF Moved
<1>7. OneAtATime' /\ MaskRestored'
  BY <1>1, <1>2, <1>6 DEF ProfilesIInv, OneAtATime, Busy, MaskRestored
<1>8. RunsNest'
  <2>1. Nests(r, open[t], g)
    BY <1>1, <1>2, <1>3, MoveNests
  <2> QED BY <1>2, <1>3, <2>1 DEF ProfilesIInv, RunsNest
<1>9. RunsMeasure'
  <2> SUFFICES ASSUME serialized'
               PROVE  \A u \in Threads : Measured(runs'[u], open'[u], finished'[u], mask', wanted')
    BY DEF RunsMeasure
  <2>1. Measured(s, open[t], f, mask, wanted)
    BY DEF ProfilesIInv, RunsMeasure
  <2>2. Measured(r, open[t], g, mask, wanted)
    BY <1>1, <1>2, <2>1, MoveMeasures
  <2> QED BY <1>2, <1>3, <2>2 DEF ProfilesIInv, RunsMeasure
<1> QED BY <1>4, <1>5, <1>7, <1>8, <1>9, NoSwap DEF ProfilesIInv

LEMMA ClearFinishedKeeps ==
  ASSUME ProfilesIInv, NEW t \in Threads, ClearFinished(t)
  PROVE  ProfilesIInv'
<1>1. /\ UNCHANGED <<mask, setting, requested, warned, warnings, serialized, wanted, calls,
                     scopesOn, open, spans, reported>>
      /\ At(t, "clear") /\ runs' = Move(t, "closure")
      /\ finished' = [finished EXCEPT ![t] = {}]
  BY DEF ClearFinished, maskVars, warnVars, programVars
<1>2. reported'.spans \subseteq 1..spans' /\ ReportsOwnSpans'
  BY <1>1 DEF ProfilesIInv, ProfileRanges, ReportsOwnSpans
<1> QED BY <1>1, <1>2, PlaceKeeps

LEMMA MeasuredReportKeeps ==
  ASSUME ProfilesIInv, NEW t \in Threads, Report(t)
  PROVE  ProfilesIInv'
<1> DEFINE s == runs[t]
           l == s[Len(s)]
           f == finished[t]
<1>1. /\ UNCHANGED <<mask, setting, requested, warned, warnings, serialized, wanted, calls,
                     scopesOn, open, spans>>
      /\ At(t, "closure") /\ runs' = Move(t, "restore") /\ Len(open[t]) = Outside(t)
      /\ finished' = [finished EXCEPT ![t] = {}]
  BY DEF Report, maskVars, warnVars, programVars
<1>2. /\ s \in Seq(RunType) /\ s # <<>> /\ open[t] \in Seq(Opened) /\ l.at = "closure"
      /\ Last(s) = l /\ Nests(s, open[t], f)
  BY <1>1, InnermostRun
<1>3. reported'.spans = f /\ reported'.entered = l.entered /\ reported'.nested = l.nested
  BY <1>2 DEF Report
<1>4. reported'.spans \subseteq 1..spans'
  BY <1>1, <1>3 DEF ProfilesIInv, SpansNumbered
<1>5. f \subseteq l.entered
  BY <1>2 DEF Nests
<1>6. l.open = Len(open[t])
  BY <1>1, <1>2 DEF Outside
<1>7. ASSUME serialized, ~l.nested PROVE l.entered \subseteq f
  <2>1. Measured(s, open[t], f, mask, wanted)
    BY <1>7 DEF ProfilesIInv, RunsMeasure
  <2>2. \A x \in l.entered : x \in f \/ \E k \in 1..Len(open[t]) : k > l.open
    BY <1>2, <1>7, <2>1 DEF Measured
  <2> QED BY <1>2, <1>6, <2>2
<1>8. ReportsOwnSpans'
  BY <1>1, <1>3, <1>5, <1>7 DEF ReportsOwnSpans
<1> QED BY <1>1, <1>4, <1>8, PlaceKeeps

LEMMA ClosurePanicsKeeps ==
  ASSUME ProfilesIInv, NEW t \in Threads, ClosurePanics(t)
  PROVE  ProfilesIInv'
<1>1. /\ UNCHANGED <<mask, setting, requested, warned, warnings, serialized, wanted, calls,
                     scopesOn, open, spans, finished, reported>>
      /\ At(t, "closure") /\ runs' = Move(t, "restore")
  BY DEF ClosurePanics, maskVars, warnVars, spanVars, programVars
<1>2. reported'.spans \subseteq 1..spans' /\ ReportsOwnSpans'
  BY <1>1 DEF ProfilesIInv, ProfileRanges, ReportsOwnSpans
<1> QED BY <1>1, <1>2, PlaceKeeps

LEMMA RestoreKeeps ==
  ASSUME ProfilesIInv, NEW t \in Threads, Restore(t)
  PROVE  ProfilesIInv'
<1> DEFINE s == runs[t]
           r == Front(s)
           backends == s[Len(s)].saved
<1>1. /\ UNCHANGED <<warned, warnings, open, finished, spans, serialized, wanted, calls,
                     scopesOn, reported>>
      /\ At(t, "restore") /\ runs' = [runs EXCEPT ![t] = r]
  BY DEF Restore, warnVars, spanVars, programVars
<1>2. /\ s \in Seq(RunType) /\ s # <<>> /\ open[t] \in Seq(Opened)
      /\ s[Len(s)].at = "restore" /\ backends \in SUBSET ToSet(Backends)
      /\ Last(s) = s[Len(s)] /\ setting[t] = Idle /\ Busy(t)
      /\ Nests(s, open[t], finished[t])
  BY <1>1, InnermostRun
<1>3. Swap(t, backends)
  BY <1>2 DEF Restore
<1>4. r \in Seq(RunType) /\ Nests(r, open[t], finished[t])
  BY <1>2, PopNests
<1>5. serialized => /\ Measured(r, open[t], finished[t], backends, wanted)
                    /\ r = <<>> => backends = wanted
  <2> SUFFICES ASSUME serialized
               PROVE  /\ Measured(r, open[t], finished[t], backends, wanted)
                      /\ r = <<>> => backends = wanted
    OBVIOUS
  <2>1. Measured(s, open[t], finished[t], mask, wanted)
    BY DEF ProfilesIInv, RunsMeasure
  <2> QED BY <1>2, <2>1, PopMeasures
<1> HIDE DEF backends, r
<1>6. /\ Pending'
      /\ mask' = backends /\ requested' \in SUBSET ToSet(Backends)
      /\ setting' \in [Threads -> Swaps] /\ setting'[t] # Idle
      /\ \A u \in Threads \ {t} : setting'[u] = setting[u]
  BY <1>1, <1>2, <1>3, SwapKeeps DEF ProfilesIInv
<1>7. /\ runs' \in [Threads -> Seq(RunType)] /\ runs'[t] = r
      /\ \A u \in Threads \ {t} : runs'[u] = runs[u]
  BY <1>1, <1>4 DEF ProfilesIInv, ProfileRanges
<1>8. ProfileRanges' /\ SpansNumbered' /\ ReportsOwnSpans' /\ WarnedOnce'
  BY <1>1, <1>2, <1>6, <1>7
     DEF ProfilesIInv, ProfileRanges, SpansNumbered, ReportsOwnSpans, WarnedOnce
<1>9. OneAtATime'
  BY <1>1, <1>2, <1>6, <1>7 DEF ProfilesIInv, OneAtATime, Busy
<1>10. MaskRestored'
  BY <1>1, <1>5, <1>6, <1>7 DEF MaskRestored
<1>11. RunsNest'
  BY <1>1, <1>4, <1>7 DEF ProfilesIInv, RunsNest
<1>12. RunsMeasure'
  <2> SUFFICES ASSUME serialized'
               PROVE  \A u \in Threads : Measured(runs'[u], open'[u], finished'[u], mask', wanted')
    BY DEF RunsMeasure
  <2>1. \A u \in Threads \ {t} : runs'[u] = <<>>
    BY <1>1, <1>2, <1>7, OthersHaveNone
  <2> QED BY <1>1, <1>5, <1>6, <1>7, <2>1, NoRuns
<1> QED BY <1>6, <1>8, <1>9, <1>10, <1>11, <1>12 DEF ProfilesIInv

LEMMA NextProfiles == ProfilesIInv /\ [ProfilesNext]_profileVars => ProfilesIInv'
<1> SUFFICES ASSUME ProfilesIInv, [ProfilesNext]_profileVars PROVE ProfilesIInv'
  OBVIOUS
<1>1. CASE UNCHANGED profileVars
  BY <1>1 DEF profileVars, maskVars, warnVars, spanVars, runVars, programVars, ProfilesIInv,
              ProfileRanges, SpansNumbered, WarnedOnce, Pending, OneAtATime, Busy, RunsNest,
              RunsMeasure, MaskRestored, ReportsOwnSpans
<1>2. CASE ProfilesNext
  BY <1>2, SetBackendsKeeps, WarnUnavailableKeeps, OnEnableKeeps, EnterScopeKeeps,
     LeaveScopeKeeps, MeasureKeeps, ForceInstantKeeps, ClearFinishedKeeps, MeasuredReportKeeps,
     ClosurePanicsKeeps, RestoreKeeps DEF ProfilesNext
<1> QED BY <1>1, <1>2

\* A mask that nobody is setting works: every backend in it that is missing has had its
\* one warning, puffin is on; and a run that is over has left the mask and the spans of
\* others as they were, panics and runs in it included (set_backends, run_profiled).
THEOREM MeasuringLeavesNothing == ProfilesSpec => []ProfilesInv
<1>1. ProfilesIInv => ProfilesInv
  <2> SUFFICES ASSUME ProfilesIInv PROVE ProfilesInv
    OBVIOUS
  <2>1. ProfilesTypeOK
    <3>1. {mask, warned, wanted, requested} \subseteq SUBSET ToSet(Backends)
          /\ scopesOn \in BOOLEAN /\ reported.spans \subseteq 1..spans
      BY DEF ProfilesIInv, ProfileRanges
    <3>2. ASSUME NEW t \in Threads
          PROVE  /\ setting[t].next \in 0..(Len(Backends) + 1)
                 /\ finished[t] \subseteq 1..spans
                 /\ \A i \in DOMAIN open[t] : open[t][i].span \in 1..spans
                 /\ \A i \in DOMAIN runs[t] : runs[t][i].at \in Places
      <4>1. setting[t] \in Swaps /\ open[t] \in Seq(Opened) /\ runs[t] \in Seq(RunType)
        BY DEF ProfilesIInv, ProfileRanges
      <4>2. setting[t].next \in 0..(Len(Backends) + 1)
        BY <4>1 DEF Swaps
      <4>3. DOMAIN open[t] = 1..Len(open[t]) /\ DOMAIN runs[t] = 1..Len(runs[t])
        BY <4>1
      <4>4. ASSUME NEW i \in DOMAIN runs[t] PROVE runs[t][i].at \in Places
        <5>1. runs[t][i] \in RunType
          BY <4>1
        <5> QED BY <5>1 DEF RunType
      <4> QED BY <4>2, <4>3, <4>4 DEF ProfilesIInv, SpansNumbered
    <3> QED BY <3>1, <3>2 DEF ProfilesTypeOK, Places
  <2>2. SettledMaskWorks
    <3>1. \A b \in ToSet(Backends) : warnings[b] <= 1
      BY DEF ProfilesIInv, WarnedOnce
    <3>2. ASSUME Settled
          PROVE  \A t \in Threads : ~SwitchesOn(setting[t]) /\ \A b : ~LooksAt(setting[t], b)
      BY <3>2 DEF Settled, Idle, SwitchesOn, LooksAt
    <3>3. ASSUME Settled, NEW b \in Missing PROVE warnings[b] = 1
      <4>1. b \in warned /\ b \in ToSet(Backends)
        BY <3>2, <3>3 DEF ProfilesIInv, ProfileRanges, Pending, Missing
      <4> QED BY <4>1 DEF ProfilesIInv, WarnedOnce
    <3>4. ASSUME Settled, puffin \in mask \cap Available PROVE scopesOn
      BY <3>2, <3>4 DEF ProfilesIInv, Pending
    <3> QED BY <3>1, <3>3, <3>4 DEF SettledMaskWorks
  <2> QED BY <2>1, <2>2 DEF ProfilesIInv, ProfilesInv
<1> QED BY <1>1, InitProfiles, NextProfiles, PTL DEF ProfilesSpec

-----------------------------------------------------------------------------
\* The instant backend.

Record == [span : Spans, frame : 0..MaxFrames]
Mark   == [at : 0..MaxOpened, frame : 0..MaxFrames]

\* The boundaries are the ends of the last frames before now, and none of them is
\* beyond the end of the buffer.
MarksOK(marks, current, last) ==
  /\ marks \in Seq(Mark)
  /\ Len(marks) <= current
  /\ \A i \in 1..Len(marks) :
       marks[i].frame = current - Len(marks) + i - 1 /\ marks[i].at <= last

\* A boundary is the place of the buffer where its frame ended.
Cuts(marks, buffer, from) ==
  \A i \in 1..Len(marks) : \A k \in 1..Len(buffer) :
    from + k <= marks[i].at <=> buffer[k].frame <= marks[i].frame

\* As many boundaries as the frames since they were last taken, up to the limit; with
\* more frames than that, the first one is where the buffer begins.
Retained ==
  /\ Len(boundaries) = IF undrained <= RETAINED_FRAMES THEN undrained ELSE RETAINED_FRAMES
  /\ undrained > RETAINED_FRAMES => boundaries[1].at <= base

Increasing(s) == \A i, j \in 1..Len(s) : i < j => s[i] < s[j]

SpansInv ==
  /\ TypeOK /\ EachSpanOnce
  /\ \A k \in 1..Len(FINISHED) : FINISHED[k].frame <= frame
  /\ MarksOK(boundaries, frame, base + Len(FINISHED))
  /\ Cuts(boundaries, FINISHED, base)
  /\ Retained
  /\ Increasing(stack)
  /\ GuardsOwnTheirSpans

-----------------------------------------------------------------------------
LEMMA InitSpans == Init => SpansInv
<1> SUFFICES ASSUME Init PROVE SpansInv
  OBVIOUS
<1>1. TypeOK
  BY SpanBounds DEF Init, TypeOK
<1>2. EachSpanOnce
  BY DEF Init, EachSpanOnce, ToSet
<1>3. MarksOK(boundaries, frame, base + Len(FINISHED)) /\ Cuts(boundaries, FINISHED, base)
  BY DEF Init, MarksOK, Cuts
<1>4. Retained
  BY FrameAssumption DEF Init, Retained
<1>5. Increasing(stack) /\ GuardsOwnTheirSpans
  BY DEF Init, Increasing, GuardsOwnTheirSpans
<1> QED BY <1>1, <1>2, <1>3, <1>4, <1>5 DEF SpansInv, Init

\* The variables have their types, taken apart.
LEMMA Types ==
  ASSUME SpansInv
  PROVE  /\ stack \in Seq(Spans) /\ ended \in Seq(Spans) /\ FINISHED \in Seq(Record)
         /\ base \in Nat /\ opened \in 0..MaxOpened /\ frame \in 0..MaxFrames
         /\ undrained \in 0..frame /\ Len(stack) \in Nat /\ Len(ended) \in Nat
         /\ Len(FINISHED) \in Nat /\ base + Len(FINISHED) <= Len(ended)
         /\ Len(stack) + Len(ended) = opened /\ MaxOpened \in Nat /\ MaxFrames \in Nat
<1>1. /\ stack \in Seq(Spans) /\ ended \in Seq(Spans) /\ FINISHED \in Seq(Record)
  BY DEF SpansInv, TypeOK, Record
<1>2. /\ base \in Nat /\ opened \in 0..MaxOpened /\ frame \in 0..MaxFrames
      /\ undrained \in 0..frame /\ base + Len(FINISHED) <= Len(ended)
      /\ Len(stack) + Len(ended) = opened
  BY SpanBounds DEF SpansInv, TypeOK, EachSpanOnce
<1> QED BY <1>1, <1>2, SpanBounds

LEMMA Sizes ==
  ASSUME SpansInv
  PROVE  /\ Len(stack) \in Nat /\ Len(ended) \in Nat /\ Len(FINISHED) \in Nat
         /\ base \in Nat /\ opened \in Nat /\ frame \in Nat /\ undrained \in Nat
         /\ base + Len(FINISHED) <= Len(ended) /\ undrained <= frame
BY Types

LEMMA MarkTypes ==
  ASSUME NEW marks \in Seq(Mark), NEW i \in 1..Len(marks)
  PROVE  marks[i].at \in Nat /\ marks[i].frame \in Nat
<1>1. marks[i] \in Mark
  OBVIOUS
<1> QED BY <1>1, SpanBounds DEF Mark

LEMMA EnterInv ==
  ASSUME SpansInv, Enter
  PROVE  SpansInv'
<1> DEFINE new == opened + 1
<1>1. /\ new \in Spans /\ opened < MaxOpened /\ opened' = new /\ new \in 0..MaxOpened
      /\ stack' = Append(stack, new) /\ stack' \in Seq(Spans) /\ Len(stack') = Len(stack) + 1
      /\ stack'[Len(stack) + 1] = new /\ \A i \in 1..Len(stack) : stack'[i] = stack[i]
      /\ UNCHANGED <<lexical, FINISHED, boundaries, base, frame, undrained, ended>>
  BY Types DEF Enter, Spans
<1>2. spanGuards' = spanGuards \cup {[span |-> new, depth |-> Len(stack)]}
  BY DEF Enter
<1>3. Len(stack) \in 0..MaxOpened
  BY Types
<1>4. TypeOK'
  <2>1. spanGuards' \in SUBSET [span : Spans, depth : 0..MaxOpened]
    BY <1>1, <1>2, <1>3 DEF SpansInv, TypeOK
  <2> QED BY <1>1, <2>1 DEF SpansInv, TypeOK
<1>5. \A i \in 1..Len(stack) : stack[i] \in 1..opened
  <2>1. \A i \in 1..Len(stack) : stack[i] \in ToSet(stack)
    BY Types DEF ToSet
  <2> QED BY <2>1 DEF SpansInv, EachSpanOnce
<1>6. EachSpanOnce'
  <2>1. ToSet(stack') = ToSet(stack) \cup {new}
    <3>1. DOMAIN stack' = 1..(Len(stack) + 1) /\ DOMAIN stack = 1..Len(stack)
      BY <1>1, Types
    <3>2. \A i \in 1..(Len(stack) + 1) : i \in 1..Len(stack) \/ i = Len(stack) + 1
      BY Types
    <3>3. \A i \in 1..Len(stack) : i \in 1..(Len(stack) + 1)
      BY Types
    <3>4. Len(stack) + 1 \in 1..(Len(stack) + 1)
      BY Types
    <3>5. ASSUME NEW x \in ToSet(stack') PROVE x \in ToSet(stack) \cup {new}
      BY <1>1, <3>1, <3>2 DEF ToSet
    <3>6. ASSUME NEW x \in ToSet(stack) \cup {new} PROVE x \in ToSet(stack')
      BY <1>1, <3>1, <3>3, <3>4 DEF ToSet
    <3> QED BY <3>5, <3>6
  <2>2. 1..new = 1..opened \cup {new}
    <3>1. opened \in Nat
      BY Types
    <3> QED BY ONLY <3>1
  <2>3. ToSet(stack) \cup ToSet(ended) = 1..opened
    BY DEF SpansInv, EachSpanOnce
  <2>4. ToSet(ended') = ToSet(ended)
    BY <1>1
  <2>5. ToSet(stack') \cup ToSet(ended') = 1..opened'
    BY <1>1, <2>1, <2>2, <2>3, <2>4
  <2>6. Len(stack') + Len(ended') = opened'
    BY <1>1, Types
  <2> QED BY <2>5, <2>6 DEF EachSpanOnce
<1>7. Increasing(stack')
  <2> SUFFICES ASSUME NEW i \in 1..(Len(stack) + 1), NEW j \in 1..(Len(stack) + 1), i < j
               PROVE  stack'[i] < stack'[j]
    BY <1>1 DEF Increasing
  <2>1. i \in 1..Len(stack)
    BY Types
  <2>2. CASE j = Len(stack) + 1
    <3>1. stack'[i] = stack[i] /\ stack'[j] = new
      BY <1>1, <2>1, <2>2
    <3>2. stack[i] \in 1..opened /\ opened \in Nat
      BY <1>5, <2>1, Types
    <3> QED BY <3>1, <3>2
  <2>3. CASE j # Len(stack) + 1
    <3>1. j \in 1..Len(stack)
      <4>1. Len(stack) \in Nat
        BY Types
      <4> QED BY ONLY <2>3, <4>1, j \in 1..(Len(stack) + 1)
    <3> QED BY <1>1, <2>1, <3>1 DEF SpansInv, Increasing
  <2> QED BY <2>2, <2>3
<1>8. GuardsOwnTheirSpans'
  <2> SUFFICES ASSUME lexical, NEW g \in spanGuards'
               PROVE  g.depth < Len(stack') /\ stack'[g.depth + 1] = g.span
    BY <1>1 DEF GuardsOwnTheirSpans
  <2>1. CASE g \in spanGuards
    <3>1. g.depth < Len(stack) /\ stack[g.depth + 1] = g.span /\ g.depth \in Nat
      BY <2>1 DEF SpansInv, TypeOK, GuardsOwnTheirSpans
    <3>2. g.depth + 1 \in 1..Len(stack)
      BY <3>1, Types
    <3> QED BY <1>1, <3>1, <3>2, Types
  <2>2. CASE g = [span |-> new, depth |-> Len(stack)]
    BY <1>1, <2>2, Types
  <2> QED BY <1>2, <2>1, <2>2
<1> QED BY <1>1, <1>4, <1>6, <1>7, <1>8 DEF SpansInv, Retained

-----------------------------------------------------------------------------
\* Parts of a sequence, and two sequences joined.
LEMMA Part ==
  ASSUME NEW S, NEW s \in Seq(S), NEW k \in Nat, k <= Len(s)
  PROVE  /\ SubSeq(s, 1, k) \in Seq(S) /\ Len(SubSeq(s, 1, k)) = k
         /\ \A i \in 1..k : SubSeq(s, 1, k)[i] = s[i]
         /\ SubSeq(s, k + 1, Len(s)) \in Seq(S) /\ Len(SubSeq(s, k + 1, Len(s))) = Len(s) - k
         /\ \A i \in 1..(Len(s) - k) : SubSeq(s, k + 1, Len(s))[i] = s[k + i]
OBVIOUS

LEMMA SpansJoined ==
  ASSUME NEW S, NEW r \in Seq(S), NEW q \in Seq(S)
  PROVE  /\ r \o q \in Seq(S) /\ Len(r \o q) = Len(r) + Len(q)
         /\ \A i \in 1..Len(r) : (r \o q)[i] = r[i]
         /\ \A j \in 1..Len(q) : (r \o q)[Len(r) + j] = q[j]
OBVIOUS

\* The spans that a guard's drop takes off the stack, and those that it leaves.
LEMMA AboveOK ==
  ASSUME NEW depth \in Nat, stack \in Seq(Spans), NEW done, done = Above(depth),
         NEW rest, rest = SubSeq(stack, 1, Len(stack) - Len(done))
  PROVE  /\ done \in Seq(Spans) /\ rest \in Seq(Spans)
         /\ Len(done) = IF depth < Len(stack) THEN Len(stack) - depth ELSE 0
         /\ Len(rest) + Len(done) = Len(stack)
         /\ \A i \in 1..Len(rest) : rest[i] = stack[i]
         /\ ToSet(stack) = ToSet(rest) \cup ToSet(done)
<1> DEFINE top == SubSeq(stack, depth + 1, Len(stack))
           n   == Len(top)
<1>1. /\ Len(stack) \in Nat /\ top \in Seq(Spans)
      /\ n = IF depth < Len(stack) THEN Len(stack) - depth ELSE 0
  OBVIOUS
<1>2. \A j \in 1..n : top[j] = stack[depth + j]
  OBVIOUS
<1> HIDE DEF top
<1>3. done = [j \in 1..n |-> top[(n - j) + 1]]
  BY DEF Above, Reverse, top
<1>4. n \in Nat /\ \A j \in 1..n : (n - j) + 1 \in 1..n
  BY <1>1
<1>5. done \in Seq(Spans) /\ Len(done) = n /\ DOMAIN done = 1..n
  BY <1>1, <1>3, <1>4
<1>6. /\ rest \in Seq(Spans) /\ Len(rest) = Len(stack) - n
      /\ \A i \in 1..Len(rest) : rest[i] = stack[i]
  <2>1. Len(stack) - n \in Nat /\ Len(stack) - n <= Len(stack)
    BY <1>1
  <2>2. rest = SubSeq(stack, 1, Len(stack) - n)
    BY <1>5
  <2>3. /\ SubSeq(stack, 1, Len(stack) - n) \in Seq(Spans)
        /\ Len(SubSeq(stack, 1, Len(stack) - n)) = Len(stack) - n
        /\ \A i \in 1..(Len(stack) - n) : SubSeq(stack, 1, Len(stack) - n)[i] = stack[i]
    BY <2>1, Part
  <2> QED BY <2>2, <2>3
<1>7. ToSet(stack) \subseteq ToSet(rest) \cup ToSet(done)
  <2> SUFFICES ASSUME NEW i \in 1..Len(stack) PROVE stack[i] \in ToSet(rest) \cup ToSet(done)
    BY DEF ToSet
  <2>1. CASE i <= Len(stack) - n
    <3>1. i \in 1..Len(rest)
      <4>1. i \in 1..(Len(stack) - n)
        BY <1>1, <1>4, <2>1
      <4> QED BY <1>6, <4>1
    <3>2. DOMAIN rest = 1..Len(rest)
      BY <1>6
    <3> QED BY <1>6, <3>1, <3>2 DEF ToSet
  <2>2. CASE i > Len(stack) - n
    <3> DEFINE j == n - (i - depth) + 1
    <3>1. i - depth \in 1..n /\ depth + (i - depth) = i /\ j \in 1..n /\ (n - j) + 1 = i - depth
      BY <1>1, <2>2
    <3>2. done[j] = stack[i]
      BY <1>2, <1>3, <3>1
    <3> QED BY <1>5, <3>1, <3>2 DEF ToSet
  <2> QED BY <1>1, <2>1, <2>2
<1>8. ToSet(rest) \subseteq ToSet(stack)
  <2>1. \A i \in 1..Len(rest) : i \in 1..Len(stack)
    BY <1>1, <1>4, <1>6
  <2>2. DOMAIN rest = 1..Len(rest) /\ DOMAIN stack = 1..Len(stack)
    BY <1>6
  <2> QED BY <1>6, <2>1, <2>2 DEF ToSet
<1>9. ToSet(done) \subseteq ToSet(stack)
  <2> SUFFICES ASSUME NEW j \in 1..n PROVE done[j] \in ToSet(stack)
    BY <1>5 DEF ToSet
  <2> DEFINE k == (n - j) + 1
  <2>1. k \in 1..n
    BY <1>4
  <2>2. done[j] = top[k]
    BY <1>3
  <2> HIDE DEF k
  <2>3. depth + k \in 1..Len(stack)
    <3>1. n = Len(stack) - depth
      BY <1>1, <2>1
    <3> QED BY <1>1, <2>1, <3>1
  <2> QED BY <1>2, <2>1, <2>2, <2>3, SMTT(30) DEF ToSet
<1>10. Len(rest) + Len(done) = Len(stack)
  <2>1. Len(stack) \in Nat /\ n \in Nat
    BY <1>1, <1>4
  <2>2. (Len(stack) - n) + n = Len(stack)
    BY <2>1
  <2> QED BY <1>5, <1>6, <2>2
<1> QED BY <1>1, <1>5, <1>6, <1>7, <1>8, <1>9, <1>10

\* The elements of two sequences joined.
LEMMA ToSetJoined ==
  ASSUME NEW S, NEW r \in Seq(S), NEW q \in Seq(S)
  PROVE  ToSet(r \o q) = ToSet(r) \cup ToSet(q)
<1> DEFINE u == r \o q
<1>1. /\ DOMAIN r = 1..Len(r) /\ DOMAIN q = 1..Len(q) /\ DOMAIN u = 1..(Len(r) + Len(q))
      /\ Len(r) \in Nat /\ Len(q) \in Nat
  OBVIOUS
<1>2. /\ \A i \in 1..Len(r) : u[i] = r[i]
      /\ \A j \in 1..Len(q) : u[Len(r) + j] = q[j]
  OBVIOUS
<1> HIDE DEF u
<1>3. /\ \A i \in 1..Len(r) : i \in 1..(Len(r) + Len(q))
      /\ \A j \in 1..Len(q) : Len(r) + j \in 1..(Len(r) + Len(q))
      /\ \A i \in 1..(Len(r) + Len(q)) :
           i \in 1..Len(r) \/ (i - Len(r) \in 1..Len(q) /\ Len(r) + (i - Len(r)) = i)
  BY <1>1
<1>4. ToSet(u) \subseteq ToSet(r) \cup ToSet(q)
  <2> SUFFICES ASSUME NEW i \in 1..(Len(r) + Len(q)) PROVE u[i] \in ToSet(r) \cup ToSet(q)
    BY <1>1 DEF ToSet
  <2>1. CASE i \in 1..Len(r)
    BY <1>1, <1>2, <2>1 DEF ToSet
  <2>2. CASE i - Len(r) \in 1..Len(q) /\ Len(r) + (i - Len(r)) = i
    <3>1. u[i] = q[i - Len(r)]
      BY <1>2, <2>2
    <3> QED BY <1>1, <2>2, <3>1 DEF ToSet
  <2> QED BY <1>3, <2>1, <2>2
<1>5. ToSet(r) \subseteq ToSet(u) /\ ToSet(q) \subseteq ToSet(u)
  BY <1>1, <1>2, <1>3 DEF ToSet
<1> QED BY <1>4, <1>5 DEF u

LEMMA DropGuardInv ==
  ASSUME SpansInv, NEW g \in spanGuards, DropGuard(g)
  PROVE  SpansInv'
<1> DEFINE done == Above(g.depth)
           rest == SubSeq(stack, 1, Len(stack) - Len(done))
           new  == [i \in DOMAIN done |-> [span |-> done[i], frame |-> frame]]
<1>1. /\ g \in Droppable /\ spanGuards' = spanGuards \ {g} /\ stack' = rest
      /\ FINISHED' = FINISHED \o new /\ ended' = ended \o done
      /\ UNCHANGED <<lexical, boundaries, base, opened, frame, undrained>>
  BY DEF DropGuard
<1>2. g.depth \in Nat /\ g.span \in Spans
  BY DEF SpansInv, TypeOK
<1>3. /\ done \in Seq(Spans) /\ rest \in Seq(Spans)
      /\ Len(done) = IF g.depth < Len(stack) THEN Len(stack) - g.depth ELSE 0
      /\ Len(rest) + Len(done) = Len(stack)
      /\ \A i \in 1..Len(rest) : rest[i] = stack[i]
      /\ ToSet(stack) = ToSet(rest) \cup ToSet(done)
  BY <1>2, Types, AboveOK
<1> HIDE DEF done, rest
<1>4. Len(done) \in Nat /\ DOMAIN done = 1..Len(done) /\ Len(rest) \in Nat
  BY <1>3
<1>5. /\ new \in Seq(Record) /\ Len(new) = Len(done)
      /\ \A k \in 1..Len(new) : new[k].frame = frame
  <2>1. \A k \in 1..Len(done) : [span |-> done[k], frame |-> frame] \in Record
    BY <1>3, Types, SMTT(30) DEF Record
  <2> QED BY <1>4, <2>1
<1> HIDE DEF new
<1>6. /\ FINISHED' \in Seq(Record) /\ Len(FINISHED') = Len(FINISHED) + Len(done)
      /\ \A k \in 1..Len(FINISHED) : FINISHED'[k] = FINISHED[k]
      /\ \A k \in 1..Len(FINISHED') : k \in 1..Len(FINISHED) \/ FINISHED'[k].frame = frame
  <2>1. /\ FINISHED' \in Seq(Record) /\ Len(FINISHED') = Len(FINISHED) + Len(done)
        /\ \A k \in 1..Len(FINISHED) : FINISHED'[k] = FINISHED[k]
    <3>1. FINISHED \in Seq(Record) /\ new \in Seq(Record)
      BY <1>5, Types
    <3>2. /\ FINISHED \o new \in Seq(Record)
          /\ Len(FINISHED \o new) = Len(FINISHED) + Len(new)
          /\ \A k \in 1..Len(FINISHED) : (FINISHED \o new)[k] = FINISHED[k]
      BY <3>1, SpansJoined
    <3> QED BY <1>1, <1>5, <3>2
  <2>2. ASSUME NEW k \in 1..Len(FINISHED'), k \notin 1..Len(FINISHED)
        PROVE  FINISHED'[k].frame = frame
    <3>1. k - Len(FINISHED) \in 1..Len(new)
      BY <1>4, <1>5, <2>1, <2>2, Types
    <3>2. FINISHED'[k] = new[k - Len(FINISHED)]
      <4>1. k = Len(FINISHED) + (k - Len(FINISHED))
        BY <2>1, <2>2, Types
      <4> QED BY <1>1, <1>5, <3>1, <4>1, Types, SpansJoined
    <3> QED BY <1>5, <3>1, <3>2
  <2> QED BY <2>1, <2>2
<1>7. ended' \in Seq(Spans) /\ Len(ended') = Len(ended) + Len(done)
  BY <1>1, <1>3, Types, SpansJoined
<1>8. TypeOK'
  <2>1. base' + Len(FINISHED') <= Len(ended')
    BY <1>1, <1>4, <1>6, <1>7, Types
  <2>2. spanGuards' \in SUBSET [span : Spans, depth : 0..MaxOpened]
    BY <1>1 DEF SpansInv, TypeOK
  <2> QED BY <1>1, <1>3, <1>6, <1>7, <2>1, <2>2 DEF SpansInv, TypeOK, Record
<1>9. EachSpanOnce'
  <2>1. ToSet(ended') = ToSet(ended) \cup ToSet(done)
    BY <1>1, <1>3, Types, ToSetJoined
  <2>2. ToSet(stack') \cup ToSet(ended') = ToSet(stack) \cup ToSet(ended)
    BY <1>1, <1>3, <2>1
  <2>3. Len(stack') + Len(ended') = Len(stack) + Len(ended)
    <3>1. Len(stack') = Len(rest)
      BY <1>1
    <3>2. Len(rest) + Len(done) = Len(stack) /\ Len(ended') = Len(ended) + Len(done)
      BY <1>3, <1>7
    <3> QED BY <1>4, <3>1, <3>2, Sizes
  <2> QED BY <1>1, <2>2, <2>3 DEF SpansInv, EachSpanOnce
<1>10. \A k \in 1..Len(FINISHED') : FINISHED'[k].frame <= frame'
  <2>1. frame <= frame
    BY Types
  <2> QED BY <1>1, <1>6, <2>1 DEF SpansInv
<1>11. /\ MarksOK(boundaries, frame, base + Len(FINISHED))
       /\ Cuts(boundaries, FINISHED, base)
  BY DEF SpansInv
<1>12. \A i \in 1..Len(boundaries) :
         /\ boundaries[i].at \in Nat /\ boundaries[i].frame \in Nat
         /\ boundaries[i].at <= base + Len(FINISHED) /\ boundaries[i].frame < frame
  <2>1. \A i \in 1..Len(boundaries) : boundaries[i] \in Mark
    BY <1>11 DEF MarksOK
  <2>2. \A i \in 1..Len(boundaries) : boundaries[i].at \in Nat /\ boundaries[i].frame \in Nat
    BY <2>1, Types DEF Mark
  <2>3. \A i \in 1..Len(boundaries) : boundaries[i].frame < frame
    BY <1>11, Types DEF MarksOK
  <2> QED BY <1>11, <2>2, <2>3 DEF MarksOK
<1>13. MarksOK(boundaries', frame', base' + Len(FINISHED'))
  <2>1. \A i \in 1..Len(boundaries) : boundaries[i].at <= base' + Len(FINISHED')
    <3>1. base' + Len(FINISHED') = base + Len(FINISHED) + Len(done)
      BY <1>1, <1>6, <1>4, Sizes
    <3>2. \A x \in Nat : x <= base + Len(FINISHED) => x <= base + Len(FINISHED) + Len(done)
      BY <1>4, Sizes
    <3> QED BY <1>12, <3>1, <3>2
  <2> QED BY <1>1, <1>11, <2>1 DEF MarksOK
<1>14. Cuts(boundaries', FINISHED', base')
  <2> SUFFICES ASSUME NEW i \in 1..Len(boundaries), NEW k \in 1..Len(FINISHED')
               PROVE  base + k <= boundaries[i].at <=> FINISHED'[k].frame <= boundaries[i].frame
    BY <1>1 DEF Cuts
  <2>1. CASE k \in 1..Len(FINISHED)
    BY <1>6, <1>11, <2>1 DEF Cuts
  <2>2. CASE k \notin 1..Len(FINISHED)
    <3>1. FINISHED'[k].frame = frame /\ k > Len(FINISHED)
      BY <1>4, <1>6, <2>2, Types
    <3>2. ~(base + k <= boundaries[i].at) /\ ~(frame <= boundaries[i].frame)
      <4>1. /\ boundaries[i].at \in Nat /\ boundaries[i].frame \in Nat
            /\ boundaries[i].at <= base + Len(FINISHED) /\ boundaries[i].frame < frame
        BY <1>12
      <4>2. k \in Nat /\ base \in Nat /\ frame \in Nat /\ Len(FINISHED) \in Nat
        BY Sizes
      <4> QED BY <3>1, <4>1, <4>2
    <3> QED BY <3>1, <3>2
  <2> QED BY <2>1, <2>2
<1>15. Retained'
  BY <1>1 DEF SpansInv, Retained
<1>16. \A i \in 1..Len(rest) : i \in 1..Len(stack)
  BY <1>3, <1>4, Types
<1>17. Increasing(stack')
  BY <1>1, <1>3, <1>16 DEF SpansInv, Increasing
<1>18. GuardsOwnTheirSpans'
  <2> SUFFICES ASSUME lexical, NEW h \in spanGuards, h # g
               PROVE  h.depth < Len(rest) /\ rest[h.depth + 1] = h.span
    BY <1>1 DEF GuardsOwnTheirSpans
  <2>1. /\ h.span <= g.span /\ h.depth \in Nat /\ h.span \in Spans
        /\ h = [span |-> h.span, depth |-> h.depth] /\ g = [span |-> g.span, depth |-> g.depth]
    BY <1>1 DEF SpansInv, TypeOK, Droppable
  <2>2. /\ g.depth < Len(stack) /\ stack[g.depth + 1] = g.span
        /\ h.depth < Len(stack) /\ stack[h.depth + 1] = h.span
    BY DEF SpansInv, GuardsOwnTheirSpans
  <2>3. Len(rest) = g.depth
    <3>1. Len(done) = Len(stack) - g.depth /\ Len(rest) + Len(done) = Len(stack)
      BY <1>3, <2>2
    <3>2. Len(stack) \in Nat
      BY Sizes
    <3> QED BY <1>2, <1>4, <3>1, <3>2
  <2>4. h.depth <= g.depth
    <3> SUFFICES ASSUME h.depth > g.depth PROVE FALSE
      BY <1>2, <2>1
    <3>1. /\ g.depth + 1 \in 1..Len(stack) /\ h.depth + 1 \in 1..Len(stack)
          /\ g.depth + 1 < h.depth + 1
      BY <1>2, <2>1, <2>2, Types, SMTT(30)
    <3>2. g.span < h.span
      BY <2>2, <3>1 DEF SpansInv, Increasing
    <3> QED BY <1>2, <2>1, <3>2 DEF Spans
  <2>5. h.depth # g.depth
    <3> SUFFICES ASSUME h.depth = g.depth PROVE FALSE
      OBVIOUS
    <3>1. h.span = g.span
      BY <2>2
    <3> QED BY <2>1, <3>1
  <2>6. h.depth < Len(rest) /\ h.depth + 1 \in 1..Len(rest)
    BY <1>2, <2>1, <2>3, <2>4, <2>5
  <2> QED BY <1>3, <2>2, <2>6
<1> QED BY <1>8, <1>9, <1>10, <1>13, <1>14, <1>15, <1>17, <1>18 DEF SpansInv

LEMMA ForgetInv ==
  ASSUME SpansInv, NEW g \in spanGuards, Forget(g)
  PROVE  SpansInv'
<1>1. /\ spanGuards' \subseteq spanGuards
      /\ UNCHANGED <<lexical, stack, FINISHED, boundaries, base, opened, frame, undrained, ended>>
  BY DEF Forget
<1>2. TypeOK' /\ EachSpanOnce'
  BY <1>1 DEF SpansInv, TypeOK, EachSpanOnce
<1>3. GuardsOwnTheirSpans'
  BY <1>1 DEF SpansInv, GuardsOwnTheirSpans
<1> QED BY <1>1, <1>2, <1>3 DEF SpansInv, Retained

\* The boundaries with that of the frame that ends.
LEMMA NewMark ==
  ASSUME SpansInv, frame < MaxFrames,
         NEW marks, marks = Append(boundaries, [at |-> base + Len(FINISHED), frame |-> frame])
  PROVE  /\ Len(boundaries) \in Nat /\ Len(marks) = Len(boundaries) + 1
         /\ MarksOK(marks, frame + 1, base + Len(FINISHED))
         /\ Cuts(marks, FINISHED, base)
<1> DEFINE n   == Len(boundaries)
           new == [at |-> base + Len(FINISHED), frame |-> frame]
<1>1. /\ boundaries \in Seq(Mark) /\ n \in Nat /\ n <= frame
      /\ \A i \in 1..n : /\ boundaries[i].frame = frame - n + i - 1
                        /\ boundaries[i].at <= base + Len(FINISHED)
  BY DEF SpansInv, MarksOK
<1>2. base + Len(FINISHED) \in 0..MaxOpened /\ frame \in 0..MaxFrames
  BY Types
<1>3. new \in Mark /\ new.at = base + Len(FINISHED) /\ new.frame = frame
  BY <1>2 DEF Mark
<1> HIDE DEF new
<1>4. /\ marks \in Seq(Mark) /\ Len(marks) = n + 1 /\ marks[n + 1] = new
      /\ \A i \in 1..n : marks[i] = boundaries[i]
  BY <1>1, <1>3 DEF new
<1>5. \A i \in 1..(n + 1) : i \in 1..n \/ i = n + 1
  BY <1>1
<1>6. \A i \in 1..(n + 1) : /\ marks[i].frame = (frame + 1) - (n + 1) + i - 1
                           /\ marks[i].at <= base + Len(FINISHED)
  <2> SUFFICES ASSUME NEW i \in 1..(n + 1)
               PROVE  /\ marks[i].frame = (frame + 1) - (n + 1) + i - 1
                      /\ marks[i].at <= base + Len(FINISHED)
    OBVIOUS
  <2>1. CASE i \in 1..n
    <3>1. frame - n + i - 1 = (frame + 1) - (n + 1) + i - 1
      BY <1>1, <1>2
    <3> QED BY <1>1, <1>4, <2>1, <3>1
  <2>2. CASE i = n + 1
    <3>1. frame = (frame + 1) - (n + 1) + (n + 1) - 1
      BY <1>1, <1>2
    <3> QED BY <1>2, <1>3, <1>4, <2>2, <3>1
  <2> QED BY <1>5, <2>1, <2>2
<1>7. MarksOK(marks, frame + 1, base + Len(FINISHED))
  <2>1. n + 1 <= frame + 1
    BY <1>1, <1>2
  <2> QED BY <1>4, <1>6, <2>1 DEF MarksOK
<1>8. Cuts(marks, FINISHED, base)
  <2> SUFFICES ASSUME NEW i \in 1..(n + 1), NEW k \in 1..Len(FINISHED)
               PROVE  base + k <= marks[i].at <=> FINISHED[k].frame <= marks[i].frame
    BY <1>4 DEF Cuts
  <2>1. CASE i \in 1..n
    BY <1>4, <2>1 DEF SpansInv, Cuts
  <2>2. CASE i = n + 1
    <3>1. base + k <= base + Len(FINISHED)
      BY Sizes
    <3>2. FINISHED[k].frame <= frame
      BY DEF SpansInv
    <3> QED BY <1>3, <1>4, <2>2, <3>1, <3>2
  <2> QED BY <1>5, <2>1, <2>2
<1> QED BY <1>1, <1>4, <1>7, <1>8

LEMMA FinishFrameInv ==
  ASSUME SpansInv, FinishFrame
  PROVE  SpansInv'
<1> DEFINE marks == Append(boundaries, [at |-> base + Len(FINISHED), frame |-> frame])
           m     == Len(marks)
           R     == RETAINED_FRAMES
<1>1. /\ frame < MaxFrames /\ frame' = frame + 1 /\ undrained' = undrained + 1
      /\ UNCHANGED <<lexical, stack, spanGuards, opened, ended>>
  BY DEF FinishFrame
<1>2. /\ Len(boundaries) \in Nat /\ m = Len(boundaries) + 1
      /\ MarksOK(marks, frame', base + Len(FINISHED)) /\ Cuts(marks, FINISHED, base)
  BY <1>1, NewMark
<1>3. \/ m <= R /\ boundaries' = marks /\ UNCHANGED <<FINISHED, base>>
      \/ /\ m > R
         /\ boundaries' = SubSeq(marks, m - R + 1, m)
         /\ FINISHED'   = SubSeq(FINISHED, Old(marks) + 1, Len(FINISHED))
         /\ base'       = base + Old(marks)
  BY DEF FinishFrame
<1> HIDE DEF marks
<1>4. /\ R \in Nat /\ R >= 1 /\ undrained \in Nat
      /\ Len(boundaries) = IF undrained <= R THEN undrained ELSE R
  BY FrameAssumption, Sizes DEF SpansInv, Retained
<1>5. frame' \in 0..MaxFrames /\ undrained' \in 0..frame'
  BY <1>1, Types
<1>6. GuardsOwnTheirSpans' /\ EachSpanOnce' /\ Increasing(stack')
  BY <1>1 DEF SpansInv, GuardsOwnTheirSpans, EachSpanOnce
\* What the buffer and the boundaries must satisfy.
<1>7. SUFFICES /\ FINISHED' \in Seq(Record) /\ base' \in 0..MaxOpened
               /\ base' + Len(FINISHED') <= Len(ended)
               /\ \A k \in 1..Len(FINISHED') : FINISHED'[k].frame <= frame'
               /\ MarksOK(boundaries', frame', base' + Len(FINISHED'))
               /\ Cuts(boundaries', FINISHED', base')
               /\ Retained'
  <2>1. TypeOK'
    <3>1. boundaries' \in Seq(Mark)
      BY <1>7 DEF MarksOK
    <3> QED BY <1>1, <1>5, <1>7, <3>1 DEF SpansInv, TypeOK, Record, Mark
  <2> QED BY <1>6, <1>7, <2>1 DEF SpansInv
<1>8. /\ FINISHED \in Seq(Record) /\ base \in 0..MaxOpened /\ base + Len(FINISHED) <= Len(ended)
      /\ \A k \in 1..Len(FINISHED) : FINISHED[k].frame <= frame'
  <2>1. ASSUME NEW k \in 1..Len(FINISHED) PROVE FINISHED[k].frame <= frame'
    <3>1. FINISHED[k] \in Record /\ FINISHED[k].frame <= frame
      BY Types DEF SpansInv
    <3>2. FINISHED[k].frame \in Nat
      BY <3>1, SpanBounds DEF Record
    <3> QED BY <1>1, <3>1, <3>2, Sizes
  <2> QED BY <2>1, Types DEF SpansInv, TypeOK
<1>9. CASE m <= R /\ boundaries' = marks /\ UNCHANGED <<FINISHED, base>>
  <2>1. undrained <= R /\ Len(marks) = undrained' /\ undrained' <= R
    BY <1>1, <1>2, <1>4, <1>9
  <2>2. Retained'
    BY <1>4, <1>9, <2>1, Sizes DEF Retained
  <2> QED BY <1>2, <1>8, <1>9, <2>2
<1>10. CASE /\ m > R
            /\ boundaries' = SubSeq(marks, m - R + 1, m)
            /\ FINISHED'   = SubSeq(FINISHED, Old(marks) + 1, Len(FINISHED))
            /\ base'       = base + Old(marks)
  <2>1. m = R + 1 /\ m - R + 1 = 2 /\ undrained >= R /\ 2 \in 1..m
    BY <1>2, <1>4, <1>10
  <2>2. /\ marks \in Seq(Mark) /\ m \in Nat /\ m <= frame'
        /\ \A i \in 1..m : /\ marks[i].frame = frame' - m + i - 1
                          /\ marks[i].at <= base + Len(FINISHED)
    BY <1>2, <1>4, <2>1 DEF MarksOK
  <2> DEFINE cut == marks[2].at
             o   == Old(marks)
  <2>3. cut \in Nat /\ cut <= base + Len(FINISHED)
    <3>1. marks[2] \in Mark
      BY <2>1, <2>2
    <3> QED BY <2>1, <2>2, <3>1, SpanBounds DEF Mark
  <2>4. o = IF cut > base THEN cut - base ELSE 0
    BY <2>1 DEF Old, Cutoff
  <2>5. o \in Nat /\ o <= Len(FINISHED) /\ cut <= base + o
    BY <2>3, <2>4, Sizes
  <2> HIDE DEF cut, o
  <2>6. /\ boundaries' \in Seq(Mark) /\ Len(boundaries') = R
        /\ \A i \in 1..R : boundaries'[i] = marks[1 + i]
    <3>1. 1 \in Nat /\ 1 <= m /\ m - 1 = R
      BY <1>4, <2>1
    <3>2. /\ SubSeq(marks, 1 + 1, m) \in Seq(Mark) /\ Len(SubSeq(marks, 1 + 1, m)) = m - 1
          /\ \A i \in 1..(m - 1) : SubSeq(marks, 1 + 1, m)[i] = marks[1 + i]
      BY <2>2, <3>1, Part
    <3>3. boundaries' = SubSeq(marks, 1 + 1, m)
      BY <1>10, <2>1
    <3> QED BY <3>1, <3>2, <3>3
  <2>7. /\ FINISHED' \in Seq(Record) /\ Len(FINISHED') = Len(FINISHED) - o
        /\ \A k \in 1..(Len(FINISHED) - o) : FINISHED'[k] = FINISHED[o + k]
    <3>1. FINISHED' = SubSeq(FINISHED, o + 1, Len(FINISHED))
      BY <1>10 DEF o
    <3>2. /\ SubSeq(FINISHED, o + 1, Len(FINISHED)) \in Seq(Record)
          /\ Len(SubSeq(FINISHED, o + 1, Len(FINISHED))) = Len(FINISHED) - o
          /\ \A k \in 1..(Len(FINISHED) - o) :
               SubSeq(FINISHED, o + 1, Len(FINISHED))[k] = FINISHED[o + k]
      BY <1>8, <2>5, Part
    <3> QED BY <3>1, <3>2
  <2>8. /\ base' = base + o /\ base' + Len(FINISHED') = base + Len(FINISHED)
    BY <1>10, <2>5, <2>7, Sizes DEF o
  <2>9. base' \in 0..MaxOpened /\ base' + Len(FINISHED') <= Len(ended)
    <3>1. Len(ended) <= MaxOpened /\ base + o <= Len(ended)
      BY <2>5, Types
    <3> QED BY <2>5, <2>8, <3>1, Types
  <2>10. \A k \in 1..Len(FINISHED') : o + k \in 1..Len(FINISHED) /\ FINISHED'[k] = FINISHED[o + k]
    BY <2>5, <2>7, Sizes
  <2>11. \A k \in 1..Len(FINISHED') : FINISHED'[k].frame <= frame'
    BY <1>8, <2>10
  <2>12. \A i \in 1..R : 1 + i \in 1..m
    BY <1>4, <2>1
  <2>13. MarksOK(boundaries', frame', base' + Len(FINISHED'))
    <3>1. R <= frame' /\ frame' \in Nat
      <4>1. frame' \in Nat
        BY <1>1, Sizes
      <4>2. R + 1 <= frame'
        BY <2>1, <2>2
      <4> QED BY <1>4, <4>1, <4>2
    <3>2. ASSUME NEW i \in 1..R
          PROVE  /\ boundaries'[i].frame = frame' - R + i - 1
                 /\ boundaries'[i].at <= base + Len(FINISHED)
      <4>1. boundaries'[i] = marks[1 + i] /\ 1 + i \in 1..m
        BY <2>6, <2>12
      <4>2. frame' - m + (1 + i) - 1 = frame' - R + i - 1
        BY <1>4, <2>1, <3>1
      <4> QED BY <2>2, <4>1, <4>2
    <3> QED BY <2>6, <2>8, <3>1, <3>2 DEF MarksOK
  <2>14. Cuts(boundaries', FINISHED', base')
    <3> SUFFICES ASSUME NEW i \in 1..R, NEW k \in 1..Len(FINISHED')
                 PROVE  base' + k <= boundaries'[i].at
                        <=> FINISHED'[k].frame <= boundaries'[i].frame
      BY <2>6 DEF Cuts
    <3>1. base' + k = base + (o + k)
      BY <2>5, <2>8, <2>10, Sizes
    <3>2. base + (o + k) <= marks[1 + i].at <=> FINISHED[o + k].frame <= marks[1 + i].frame
      BY <1>2, <2>10, <2>12 DEF Cuts
    <3> QED BY <2>6, <2>10, <3>1, <3>2
  <2>15. Retained'
    <3>1. undrained' > R /\ ~(undrained' <= R)
      BY <1>1, <1>4, <2>1
    <3>2. boundaries'[1].at <= base'
      BY <1>4, <2>5, <2>6, <2>8 DEF cut
    <3> QED BY <2>6, <3>1, <3>2 DEF Retained
  <2> QED BY <2>7, <2>9, <2>11, <2>13, <2>14, <2>15
<1> QED BY <1>3, <1>9, <1>10

LEMMA DrainInv ==
  ASSUME SpansInv, Drain
  PROVE  SpansInv'
<1>1. /\ FINISHED' = <<>> /\ base' = base + Len(FINISHED)
      /\ UNCHANGED <<lexical, stack, boundaries, spanGuards, opened, frame, undrained, ended>>
  BY DEF Drain
<1>2. /\ base' + Len(FINISHED') = base + Len(FINISHED) /\ base' \in 0..MaxOpened
      /\ Len(FINISHED') = 0
  BY <1>1, Types
<1>3. TypeOK'
  BY <1>1, <1>2 DEF SpansInv, TypeOK
<1>4. Retained'
  <2>1. ASSUME undrained > RETAINED_FRAMES
        PROVE  boundaries[1].at <= base'
    <3>1. boundaries[1].at <= base
      BY <2>1 DEF SpansInv, Retained
    <3>2. 1 \in 1..Len(boundaries) /\ boundaries \in Seq(Mark)
      BY <2>1, FrameAssumption, Sizes DEF SpansInv, Retained, MarksOK
    <3>3. boundaries[1].at \in Nat
      BY <3>2, MarkTypes
    <3> QED BY <1>1, <3>1, <3>3, Sizes
  <2> QED BY <1>1, <2>1 DEF SpansInv, Retained
<1>5. EachSpanOnce' /\ GuardsOwnTheirSpans' /\ Increasing(stack')
  BY <1>1 DEF SpansInv, EachSpanOnce, GuardsOwnTheirSpans
<1>6. MarksOK(boundaries', frame', base' + Len(FINISHED')) /\ Cuts(boundaries', FINISHED', base')
  BY <1>1, <1>2 DEF SpansInv, Cuts
<1> QED BY <1>2, <1>3, <1>4, <1>5, <1>6 DEF SpansInv

LEMMA ForgetMarksInv ==
  ASSUME SpansInv, DrainFrames \/ Clear
  PROVE  SpansInv'
<1>1. /\ boundaries' = <<>> /\ undrained' = 0
      /\ \/ FINISHED' = FINISHED /\ base' = base
         \/ FINISHED' = <<>> /\ base' = 0
      /\ UNCHANGED <<lexical, stack, spanGuards, opened, frame, ended>>
  BY DEF DrainFrames, Clear
<1>2. TypeOK'
  <2>1. undrained' \in 0..frame' /\ boundaries' \in Seq(Mark)
    BY <1>1, Sizes
  <2>2. FINISHED' \in Seq(Record) /\ base' \in 0..MaxOpened /\ base' + Len(FINISHED') <= Len(ended)
    <3>1. CASE FINISHED' = FINISHED /\ base' = base
      BY <3>1 DEF SpansInv, TypeOK, Record
    <3>2. CASE FINISHED' = <<>> /\ base' = 0
      BY <3>2, Sizes, SpanBounds
    <3> QED BY <1>1, <3>1, <3>2
  <2> QED BY <1>1, <2>1, <2>2 DEF SpansInv, TypeOK, Record, Mark
<1>3. EachSpanOnce' /\ GuardsOwnTheirSpans' /\ Increasing(stack')
  BY <1>1 DEF SpansInv, EachSpanOnce, GuardsOwnTheirSpans
<1>4. \A k \in 1..Len(FINISHED') : FINISHED'[k].frame <= frame'
  BY <1>1 DEF SpansInv
<1>5. MarksOK(boundaries', frame', base' + Len(FINISHED')) /\ Cuts(boundaries', FINISHED', base')
  BY <1>1, Sizes DEF MarksOK, Cuts
<1>6. Retained'
  BY <1>1, FrameAssumption DEF Retained
<1> QED BY <1>2, <1>3, <1>4, <1>5, <1>6 DEF SpansInv

LEMMA NextSpans == SpansInv /\ [Next]_vars => SpansInv'
<1> SUFFICES ASSUME SpansInv, [Next]_vars PROVE SpansInv'
  OBVIOUS
<1>1. CASE UNCHANGED vars
  BY <1>1 DEF vars, SpansInv, TypeOK, EachSpanOnce, Retained, GuardsOwnTheirSpans
<1> QED BY <1>1, EnterInv, DropGuardInv, ForgetInv, FinishFrameInv, DrainInv, ForgetMarksInv
        DEF Next

-----------------------------------------------------------------------------
\* The state of the instant backend (src/src/profiling/instant.rs) is sound after
\* any calls.
THEOREM SpansInvariant == Spec => []SpansInv
BY InitSpans, NextSpans, PTL DEF Spec

\* Guards dropped in any order or forgotten lose no span and record none twice, and
\* finish_frame bounds the buffer as long as nobody takes the boundaries.
THEOREM SpansAreKept == Spec => []Inv
<1>1. SpansInv => UndrainedBounded
  <2> SUFFICES ASSUME SpansInv, undrained > RETAINED_FRAMES, NEW k \in 1..Len(FINISHED)
               PROVE  frame < FINISHED[k].frame + RETAINED_FRAMES
    BY Types DEF UndrainedBounded
  <2>1. Len(boundaries) = RETAINED_FRAMES /\ boundaries[1].at <= base
    BY FrameAssumption, Sizes DEF SpansInv, Retained
  <2>2. 1 \in 1..Len(boundaries) /\ boundaries \in Seq(Mark) /\ RETAINED_FRAMES \in Nat
    BY <2>1, FrameAssumption DEF SpansInv, MarksOK
  <2>3. boundaries[1].at \in Nat /\ boundaries[1].frame = frame - RETAINED_FRAMES
    <3>1. boundaries[1].frame = frame - RETAINED_FRAMES + 1 - 1
      BY <2>1, <2>2 DEF SpansInv, MarksOK
    <3>2. boundaries[1].at \in Nat
      BY <2>2, MarkTypes
    <3> QED BY <2>2, <3>1, <3>2, Sizes
  <2>4. ~(base + k <= boundaries[1].at)
    BY <2>1, <2>3, Sizes
  <2>5. ~(FINISHED[k].frame <= frame - RETAINED_FRAMES)
    BY <2>2, <2>3, <2>4 DEF SpansInv, Cuts
  <2>6. FINISHED[k].frame \in Nat
    <3>1. FINISHED[k] \in Record
      BY Types
    <3> QED BY <3>1, SpanBounds DEF Record
  <2> QED BY <2>2, <2>5, <2>6, Sizes
<1>2. SpansInv => Inv
  BY <1>1 DEF SpansInv, Inv
<1> QED BY <1>2, SpansInvariant, PTL

\* What drain, clear and the eviction take out of the buffer does not move the
\* boundaries that drain_frames returns.
THEOREM BoundariesHold == Spec => []FramesCutRight
<1>1. SpansInv => FramesCutRight
  <2> SUFFICES ASSUME SpansInv, NEW i \in 1..Len(boundaries), boundaries[i].at >= base,
                      NEW k \in 1..Len(FINISHED)
               PROVE  k <= boundaries[i].at - base <=> FINISHED[k].frame <= boundaries[i].frame
    <3>1. DOMAIN FINISHED = 1..Len(FINISHED) /\ DOMAIN boundaries = 1..Len(boundaries)
      BY Types DEF SpansInv, MarksOK
    <3> QED BY <3>1 DEF FramesCutRight, Rebased, ToSet
  <2>1. boundaries[i] \in Mark
    BY DEF SpansInv, MarksOK
  <2>2. boundaries[i].at \in Nat
    BY <2>1, SpanBounds DEF Mark
  <2>3. k <= boundaries[i].at - base <=> base + k <= boundaries[i].at
    BY <2>2, Sizes
  <2> QED BY <2>3 DEF SpansInv, Cuts
<1> QED BY <1>1, SpansInvariant, PTL

\* A program whose scopes nest drops every guard on its own span, whatever guards it
\* forgets and whenever the buffer is cleared.
THEOREM GuardsKeepTheirSpans == Spec => []GuardsOwnTheirSpans
<1>1. SpansInv => GuardsOwnTheirSpans
  BY DEF SpansInv
<1> QED BY <1>1, SpansInvariant, PTL
=============================================================================
