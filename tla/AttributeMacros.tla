-------------------------- MODULE AttributeMacros --------------------------
(***************************************************************************)
(* The attribute macros (fast-observe-macros/src/lib.rs): #[instrument],   *)
(* #[instrument_async], #[main], #[all_functions] and #[skip].             *)
(*                                                                         *)
(* An invocation has arguments and an item; its expansion is the item,     *)
(* rewritten or as it was, followed by compile_error! tokens. A complaint  *)
(* is also emitted as a native diagnostic: `diagnosed` counts these,       *)
(* `carried` the tokens.                                                   *)
(***************************************************************************)
EXTENDS Naturals, Sequences, FiniteSets

CONSTANTS
    MaxMembers  \* bound on the members of an impl block

VARIABLES
    invocation,     \* the macro, its arguments and its item
    expansion,      \* what has been expanded of it
    stage           \* "idle" -> "members" (impl blocks) -> "expanded"

attributeVars == <<invocation, expansion, stage>>

Arguments == {"empty", "name", "malformed"}

\* Functions: `body` is absent in a trait's declaration, `mark` is the
\* attribute that may be a skip marker; a body is wrapped at most once.
Function == [is : {"function"}, async : BOOLEAN, body : BOOLEAN,
             returns : {"nothing", "Result", "other"}, mark : {"none", "skip", "fast_observe::skip",
                                                              "other::skip"}]
Members == [is : {"constant"}] \cup {f \in Function : f.returns = "nothing"}
Items == {f \in Function : f.mark = "none"} \cup [is : {"impl", "struct", "unparsable"}]

Output(item, wrap, complaints) ==
    [item |-> item, wrap |-> wrap, diagnosed |-> complaints, carried |-> complaints]

\* The item is re-emitted as it was.
Refused(item, complaints) == Output(item, "none", complaints)

\* parse_name_attr: nothing, or exactly `name = "..."`.
NameErrors(args) == IF args = "malformed" THEN 1 ELSE 0

\* wrap_body: a declaration without a body is left alone.
WrapBody(f, wrap) == IF f.body THEN wrap ELSE "none"

\* Faulty: the qualified markers are not known.
IsBareSkip(mark) == mark = "skip"

\* is_skip_attr: bare, or qualified with the name of one of the two crates.
IsSkip(mark) == mark \in {"skip", "fast_observe::skip"}

---------------------------------------------------------------------------

\* The complaint about an item that does not parse is emitted by map_err
\* and not pushed.
Instrument(args, item) ==
    LET n == NameErrors(args)
    IN  CASE item.is = "unparsable" -> [Refused(item, n) EXCEPT !.diagnosed = n + 1]
          [] item.is \in {"impl", "struct"} -> Refused(item, n + 1)
          [] item.is = "function" /\ item.async -> Refused(item, n + 1)
          [] OTHER -> Output(item, WrapBody(item, "scope"), n)

InstrumentAsync(args, item) ==
    LET n == NameErrors(args)
    IN  IF item.is = "function" /\ item.async
        THEN Output(item, "trace on poll", n)
        ELSE Refused(item, n + 1)

\* function_returns_result: the identifier before the first `<` is Result.
ReturnsResult(item) == item.returns = "Result"

Main(args, item) ==
    LET n == IF args = "empty" THEN 0 ELSE 1
    IN  IF item.is = "function" /\ ~item.async /\ ReturnsResult(item) /\ item.body
        THEN Output(item, "exit with report", n)
        ELSE Refused(item, n + 1)

\* The identity: the marker is gone, the item is as it was.
Skip(args, item) == Output(item, "none", 0)

ExpansionOf(macro, args, item) ==
    CASE macro = "instrument" -> Instrument(args, item)
      [] macro = "instrument_async" -> InstrumentAsync(args, item)
      [] macro = "main" -> Main(args, item)
      [] macro = "skip" -> Skip(args, item)

\* One member of the impl block: markers are consumed, then it is passed over,
\* refused or wrapped.
ExpandMember(m) ==
    IF m.is # "function" THEN Refused(m, 0)
    ELSE LET f == IF IsSkip(m.mark) THEN [m EXCEPT !.mark = "none"] ELSE m
         IN  CASE IsSkip(m.mark) -> Refused(f, 0)
               [] ~IsSkip(m.mark) /\ f.async -> Refused(f, 1)
               [] OTHER -> Output(f, WrapBody(f, "scope"), 0)

---------------------------------------------------------------------------

NoInvocation == [macro |-> "none", args |-> "empty", item |-> <<>>]
Nothing == [item |-> <<>>, wrap |-> <<>>, diagnosed |-> 0, carried |-> 0]

AttributeInit ==
    /\ invocation = NoInvocation
    /\ expansion = Nothing
    /\ stage = "idle"

Invoke(macro, args, item) ==
    /\ stage = "idle"
    /\ invocation' = [macro |-> macro, args |-> args, item |-> <<item>>]
    /\ LET e == ExpansionOf(macro, args, item)
       IN  expansion' = [e EXCEPT !.item = <<@>>, !.wrap = <<@>>]
    /\ stage' = "expanded"

\* #[all_functions]: bad arguments are complained of and the block is done
\* all the same; another item than an impl block is refused.
InvokeAllFunctions(args, item) ==
    /\ stage = "idle"
    /\ LET n == IF args = "empty" THEN 0 ELSE 1
       IN  IF item.is = "impl"
           THEN /\ invocation' = [macro |-> "all_functions", args |-> args, item |-> <<>>]
                /\ expansion' = [Nothing EXCEPT !.diagnosed = n, !.carried = n]
                /\ stage' = "members"
           ELSE /\ invocation' = [macro |-> "all_functions", args |-> args, item |-> <<item>>]
                /\ expansion' = [item |-> <<item>>, wrap |-> <<"none">>,
                                 diagnosed |-> n + 1, carried |-> n + 1]
                /\ stage' = "expanded"

Member(m) ==
    /\ stage = "members"
    /\ Len(invocation.item) < MaxMembers
    /\ invocation' = [invocation EXCEPT !.item = Append(@, m)]
    /\ LET e == ExpandMember(m)
       IN  expansion' = [item |-> Append(expansion.item, e.item),
                         wrap |-> Append(expansion.wrap, e.wrap),
                         diagnosed |-> expansion.diagnosed + e.diagnosed,
                         carried |-> expansion.carried + e.carried]
    /\ UNCHANGED stage

EndImpl ==
    /\ stage = "members"
    /\ stage' = "expanded"
    /\ UNCHANGED <<invocation, expansion>>

AttributeNext ==
    \/ \E macro \in {"instrument", "instrument_async", "main", "skip"}, args \in Arguments,
          item \in Items : Invoke(macro, args, item)
    \/ \E args \in Arguments, item \in Items : InvokeAllFunctions(args, item)
    \/ \E m \in Members : Member(m)
    \/ EndImpl

AttributeSpec == AttributeInit /\ [][AttributeNext]_attributeVars

---------------------------------------------------------------------------

Unmarked(m) ==
    IF m.is = "function" /\ m.mark \in {"skip", "fast_observe::skip"}
    THEN [m EXCEPT !.mark = "none"] ELSE m

\* A thread-bound guard, or a sync wrapper, in the body of an async function.
GuardAcrossAwait(i) ==
    /\ expansion.item[i].is = "function" /\ expansion.item[i].async
    /\ expansion.wrap[i] \in {"scope", "exit with report"}

(* Whatever the item, the expansion keeps it, and every member of it in its *)
(* place; no scope guard is held across an await, no skip marker reaches    *)
(* rustc, and a body that is not wrapped when it might have been is skipped *)
(* or has a complaint in the expansion (lib.rs of the macros, 37-45,        *)
(* 195-214, 431-493).                                                       *)
NothingLostInExpansion ==
    stage = "expanded" =>
      LET unwrapped == {i \in DOMAIN expansion.item :
                          /\ expansion.item[i].is = "function" /\ expansion.item[i].body
                          /\ expansion.wrap[i] = "none"
                          /\ Unmarked(invocation.item[i]) = invocation.item[i]}
      IN  /\ expansion.item = [i \in DOMAIN invocation.item |-> Unmarked(invocation.item[i])]
          /\ \A i \in DOMAIN expansion.item : ~GuardAcrossAwait(i)
          /\ invocation.macro # "skip" => expansion.carried >= Cardinality(unwrapped)

(* A native diagnostic comes "beside the compile_error! tokens that carry   *)
(* the same message into the expanded item" (lib.rs of the macros, 47-49).  *)
EveryDiagnosticCarried == expansion.carried = expansion.diagnosed
=============================================================================
