---------------------------- MODULE MCFaultTree ----------------------------
(***************************************************************************)
(* Trees of a text, raised boxed, and typed errors with and without a      *)
(* source; and, apart from them, reports of small faults whose messages and*)
(* attachments have line breaks and words that look like keys.             *)
(***************************************************************************)
EXTENDS FaultTree, Report

CONSTANTS textual, plain, caused

MCErrors      == {textual, plain, caused}
MCSources     == [e \in MCErrors |-> IF e = caused THEN 1 ELSE 0]
MCBoxedErrors == {textual}

Is(code, tag, type, says) == [code |-> code, tag |-> tag, type |-> type, says |-> says, at |-> "a.rs"]
Data(key, placement, shows) == [key |-> key, placement |-> placement, typed |-> TRUE, shows |-> shows]

MCRootErrors ==
  {Is(<<1>>, "Transient", "Repo", <<"boom", "action">>), Is(<<1, 2>>, "", "Handmade", <<"odd">>),
   Is(<<>>, "", "Typed", <<"plain">>), Is(<<>>, "", "dyn", <<"boxed">>)}
MCChildErrors ==
  {Is(<<>>, "", "dyn", <<"refused", "cause">>), Is(<<2>>, "Content", "Child", <<"bad">>)}
MCAttachmentMenu ==
  {Data("scope_path", "inline", <<"outer">>), Data("scope_elapsed_ms", "inline", <<"3">>),
   Data("trace_id", "inline", <<"4f3c">>), Data("given", "inline", <<"x", "hint">>),
   Data("", "inline", <<"note">>), Data("span_trail", "appendix", <<"parse(1s)">>),
   Data("query", "appendix", <<"select", "cause", "">>),
   Data("stderr", "appendix", <<"oops", "category", "x">>),
   Data("backtrace", "appendix", <<"main", "", "advice", "f", "">>),
   Data("", "opaque", <<"secret">>), Data("span_trail", "hidden", <<"unseen">>)}
MCPolicy == [c \in {"Content", "Transient", "Invariant", "Fatal"} |-> "policy of " \o c]
MCSlices ==
  {<<Entry(<<1>>, "NotFound", "Transient", <<"look">>, <<>>)>>,
   <<Entry(<<1, 2>>, "Odd", "Fatal", <<>>, <<"stop">>), Entry(<<1>>, "Other", "Content", <<"other">>, <<>>)>>}
MCSourceLine == <<"let x = f()?;">>

BothInit == Init /\ ReportInit
BothNext ==
  \/ Next /\ rendering = "building" /\ Parts = 1 /\ Root.type = "dyn"
     /\ UNCHANGED reportVars
  \/ Init /\ ReportNext /\ UNCHANGED vars
BothSpec == BothInit /\ [][BothNext]_<<vars, reportVars>>

\* An appendix that attach_placed made, and advice of two lines.
UnkeyedMenu  == {Data("", "appendix", <<"payload">>)}
TwoLineSlice == {<<Entry(<<1>>, "NotFound", "Transient", <<"look", "twice">>, <<>>)>>}
=============================================================================
