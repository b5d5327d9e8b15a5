------------------------------ MODULE MCMacros ------------------------------
(***************************************************************************)
(* Enums of at most two variants. The first variant may be written in any  *)
(* way the parser tells apart; the second has the attributes that interact *)
(* with those of the first: codes, categories, from and cfgs. A macro is   *)
(* invoked once: either error! or one of the attribute macros.             *)
(***************************************************************************)
EXTENDS ErrorMacro, AttributeMacros

CONSTANTS Transient, Fatal, Io, Parse, feature, unix

E1 == [text |-> <<"upper", "digit">>, raw |-> FALSE]
E12 == [text |-> <<"upper", "digit", "digit">>, raw |-> FALSE]
Misshapen == {<<"digit">>, <<"upper">>, <<"upper", "digit", "upper">>, <<"lower", "digit">>, <<>>}

Plain(name, values) == {[is |-> name, value |-> v] : v \in values}
CodeWith(codes, tails) == {[is |-> "code", value |-> c, tail |-> t] : c \in codes, t \in tails}
Key(key, value) == [key |-> key, value |-> value]

Tails == {<<>>, <<Key("category", Transient)>>, <<Key("category", None)>>,
          <<Key("advice", "given"), Key("action", "given")>>,
          <<Key("category", Transient), Key("none", None)>>,
          <<Key("unseparated", None), Key("category", Fatal)>>,
          <<Key("category", Fatal), Key("category", Fatal)>>,
          <<Key("other", "given"), Key("category", Transient)>>}

EnumMenu ==
    Plain("category", {Fatal, None}) \cup Plain("max_size", {128, None})

FirstMenu ==
    Plain("error", {"template", "transparent", "word", None})
    \cup CodeWith({E1}, Tails)
    \cup CodeWith({[text |-> t, raw |-> r] : t \in Misshapen, r \in BOOLEAN} \cup {None}, {<<>>})
    \cup Plain("category", {Transient, None}) \cup Plain("advice", {"given", None})
    \cup Plain("action", {"given", None}) \cup Plain("from", {None, "arguments"})
    \cup Plain("doc", {"given", None}) \cup Plain("cfg", {feature, unix})

SecondMenu ==
    Plain("error", {"template"}) \cup CodeWith({E1, E12}, {<<>>})
    \cup Plain("category", {Fatal}) \cup Plain("from", {None}) \cup Plain("cfg", {feature})

Shapes(structs, tuples) ==
    {[shape |-> "unit", fields |-> <<>>]}
    \cup {[shape |-> "struct", fields |-> f] : f \in structs}
    \cup {[shape |-> "tuple", fields |-> f] : f \in tuples}

FirstShapes == Shapes({<<"data">>, <<"data", "source">>, <<"source", "source">>},
                      {<<Io>>, <<Parse, Io>>})
SecondShapes == Shapes({<<"source">>}, {<<Io>>})

MCAttributesOf == <<FirstMenu, SecondMenu>>
MCShapesOf == <<FirstShapes, SecondShapes>>

MacrosInit == Init /\ AttributeInit
MacrosNext ==
    \/ Next /\ stage = "idle" /\ UNCHANGED attributeVars
    \/ Init /\ AttributeNext /\ UNCHANGED vars
MacrosSpec == MacrosInit /\ [][MacrosNext]_<<vars, attributeVars>>

\* A token that is no key, after which the rest of the list is not read; the same
\* code as a plain and as a raw string; a transparent variant, quoted or not.
OddMenu == Plain("error", {"template", "transparent", "word"}) \cup Plain("category", {Transient})
           \cup CodeWith({E1}, {<<Key("none", None), Key("category", Fatal)>>})
           \cup CodeWith({E1, [E1 EXCEPT !.raw = TRUE]}, {<<Key("category", Fatal)>>})
OddAttributesOf == <<OddMenu, OddMenu>>
=============================================================================
