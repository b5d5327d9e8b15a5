--------------------------- MODULE FunctionScopes ---------------------------
(***************************************************************************)
(* The stack of function scopes of one thread (src/src/profiling.rs), the  *)
(* logforth diagnostic that names its leaf, and what the built-in capture  *)
(* hook (hook.rs) reads from it into a fault.                              *)
(*                                                                         *)
(* Scopes are entered by tasks.  A function that returns before anything   *)
(* else runs on the thread is one; so is a future that holds its guard     *)
(* across an await while the executor polls another future on the thread.  *)
(* A guard does not know its entry: dropping it pops the top of the stack. *)
(***************************************************************************)
EXTENDS Naturals, Sequences, SequencesExt

CONSTANTS
  Tasks,
  Names,      \* the names of scopes, with their tags
  None,       \* no scope: a key that is not in the diagnostics
  MaxScopes,  \* bound: scopes entered
  MaxTime     \* bound: milliseconds

ASSUME NamesAssumption == None \notin Names
ASSUME ScopesBoundAssumption == MaxScopes \in Nat /\ MaxTime \in Nat

VARIABLES
  nested,         \* the program's tasks run to completion inside each other and
                  \* forget no guard; it does not change
  foreign,        \* the program writes the key "scope" too; it does not change
  currentScope,   \* CURRENT_SCOPE: entries [name, since], the leaf last
  lastDiagnostic, \* LAST_SCOPE_DIAGNOSTIC
  diagnostic,     \* what logforth has for "scope" on this thread
  guards,         \* the live guards, as they were made: [task, name, since]
  now,            \* the clock, in milliseconds
  entered,        \* history: scopes entered
  captured        \* the attachments of the last fault: its path and elapsed time;
                  \* history: the live guards then, and the age of the last

program == <<nested, foreign>>
scopeVars ==
  <<program, currentScope, lastDiagnostic, diagnostic, guards, now, entered, captured>>

Scope == [name : Names, since : Nat]
Guard == [task : Tasks, name : Names, since : Nat]

\* What scope_path_capture_hook attaches: nothing outside any scope.
Nothing == [path |-> <<>>, elapsed |-> 0, live |-> <<>>, age |-> 0]
Capture == [path : Seq(Names), elapsed : Nat, live : Seq(Guard), age : Nat]

ScopesTypeOK ==
  /\ nested \in BOOLEAN /\ foreign \in BOOLEAN
  /\ currentScope   \in Seq(Scope)
  /\ lastDiagnostic \in Names \cup {None}
  /\ diagnostic     \in Names \cup {None}
  /\ guards         \in Seq(Guard)
  /\ now            \in Nat
  /\ entered        \in Nat
  /\ captured       \in Capture

ScopesInit ==
  /\ nested \in BOOLEAN /\ foreign \in BOOLEAN
  /\ currentScope = <<>> /\ guards = <<>>
  /\ lastDiagnostic = None /\ diagnostic = None
  /\ now = 0 /\ entered = 0 /\ captured = Nothing

\* current_scope_name of a stack.
LeafName(stack) == IF stack = <<>> THEN None ELSE stack[Len(stack)].name

\* Faulty: the cache is not told that the key was removed.
SetScopeDiagnosticForgetful(name) ==
  IF lastDiagnostic = name THEN UNCHANGED <<lastDiagnostic, diagnostic>>
  ELSE /\ lastDiagnostic' = IF name = None THEN lastDiagnostic ELSE name
       /\ diagnostic' = name

\* set_scope_diagnostic: nothing to do when the cache has the value already.
SetScopeDiagnostic(name) ==
  IF lastDiagnostic = name THEN UNCHANGED <<lastDiagnostic, diagnostic>>
  ELSE lastDiagnostic' = name /\ diagnostic' = name

\* enter_function_scope
EnterFunctionScope(task, name) ==
  /\ entered < MaxScopes
  /\ entered' = entered + 1
  /\ currentScope' = Append(currentScope, [name |-> name, since |-> now])
  /\ SetScopeDiagnostic(name)
  /\ guards' = Append(guards, [task |-> task, name |-> name, since |-> now])
  /\ UNCHANGED <<program, now, captured>>

\* The guards of one task end in reverse order; of all the tasks, if they nest.
Ends(g) ==
  /\ \A h \in (g + 1)..Len(guards) : guards[h].task # guards[g].task
  /\ nested => g = Len(guards)

\* FunctionScopeGuard::drop
DropFunctionScope(g) ==
  LET rest == IF currentScope = <<>> THEN <<>> ELSE Front(currentScope) IN
  /\ g \in DOMAIN guards /\ Ends(g)
  /\ guards' = RemoveAt(guards, g)
  /\ currentScope' = rest
  /\ SetScopeDiagnostic(LeafName(rest))
  /\ UNCHANGED <<program, now, entered, captured>>

\* mem::forget of a guard: its entry stays.
ForgetGuard(g) ==
  /\ ~nested
  /\ g \in DOMAIN guards
  /\ guards' = RemoveAt(guards, g)
  /\ UNCHANGED <<program, currentScope, lastDiagnostic, diagnostic, now, entered, captured>>

\* scope_path and current_scope_elapsed_ms, as a fault is constructed.
CaptureScope ==
  /\ captured' = [path    |-> [i \in DOMAIN currentScope |-> currentScope[i].name],
                  elapsed |-> IF currentScope = <<>> THEN 0
                              ELSE now - currentScope[Len(currentScope)].since,
                  live    |-> guards,
                  age     |-> IF guards = <<>> THEN 0 ELSE now - guards[Len(guards)].since]
  /\ UNCHANGED <<program, currentScope, lastDiagnostic, diagnostic, guards, now, entered>>

PassTime ==
  /\ now < MaxTime
  /\ now' = now + 1
  /\ UNCHANGED <<program, currentScope, lastDiagnostic, diagnostic, guards, entered, captured>>

\* A program that uses the key for itself.
WriteDiagnostic(value) ==
  /\ foreign
  /\ diagnostic' = value
  /\ UNCHANGED <<program, currentScope, lastDiagnostic, guards, now, entered, captured>>

ScopesNext ==
  \/ \E t \in Tasks, n \in Names : EnterFunctionScope(t, n)
  \/ \E g \in DOMAIN guards : DropFunctionScope(g) \/ ForgetGuard(g)
  \/ CaptureScope
  \/ PassTime
  \/ \E v \in Names \cup {None} : WriteDiagnostic(v)

ScopesSpec == ScopesInit /\ [][ScopesNext]_scopeVars

-----------------------------------------------------------------------------
\* Properties.

\* Log records carry the right scope: the diagnostic, which is written only when
\* the cache says that it changed, is the leaf of the stack, whatever the order in
\* which guards end and whether names repeat.  (profiling.rs 436-470)
DiagnosticIsLeaf ==
  ~foreign => /\ lastDiagnostic = LeafName(currentScope)
              /\ diagnostic = lastDiagnostic

\* With guards that end as they nest, the stack is that of the guards: each pops
\* its own entry, so a fault's path is the calls it is in and its elapsed time that
\* of the innermost.
EntriesAreGuards ==
  nested => /\ Len(currentScope) = Len(guards)
            /\ \A i \in DOMAIN guards :
                 /\ currentScope[i].name = guards[i].name
                 /\ currentScope[i].since = guards[i].since

\* A fault says where it happened: the path attached to it is that of the guards that
\* were live, and its elapsed time that of the innermost of them.
FaultsTellTheirScope ==
  nested => /\ captured.path = [i \in DOMAIN captured.live |-> captured.live[i].name]
            /\ captured.elapsed = captured.age

\* Log records and faults on a thread tell the scope they were made in.
ScopesInv ==
  ScopesTypeOK /\ DiagnosticIsLeaf /\ EntriesAreGuards /\ FaultsTellTheirScope

\* What the comment on FunctionScopeGuard says of well-formed code (profiling.rs
\* 507-511).  A future that keeps its guard across an await pops another's entry.
GuardsPopTheirOwn == 
  [][\A g \in DOMAIN guards :
       (guards' = RemoveAt(guards, g) /\ currentScope' # currentScope) =>
         /\ currentScope # <<>>
         /\ currentScope[Len(currentScope)].name = guards[g].name]_scopeVars
=============================================================================
