---------------------------- MODULE ErrorMacro ----------------------------
(***************************************************************************)
(* The expansion of error! { enum ... } (fast-observe-macros/src/          *)
(* error_macro.rs): the attributes of the enum and of each variant are     *)
(* interpreted one after the other, every complaint is collected, and only *)
(* an enum without complaint becomes impls, match arms and registrations.  *)
(*                                                                         *)
(* The enum is read attribute by attribute, each of them any of the        *)
(* spellings the parser tells apart; `source` keeps what was written.      *)
(* Texts of templates and advice are left out. A code is a sequence of     *)
(* character classes: what its shape check looks at.                       *)
(***************************************************************************)
EXTENDS Naturals, SequencesExt

CONSTANTS
    EnumAttributes,     \* the attributes an enum may carry
    AttributesOf,       \* AttributesOf[i]: those variant i may carry
    ShapesOf,           \* ShapesOf[i]: the field lists variant i may have
    None,
    MaxVariants, MaxAttributes, \* bounds on the enum that is written
    MaxErrors           \* bound: an enum with so many complaints is not continued

CharClasses == {"upper", "lower", "digit"}

\* An attribute of a variant: what was written in it, whether or not it is well
\* spelled; the value "word" of an `error` is the bare `transparent`, no literal.
\* A code has a tail of `, key = value` items.
IsAttribute(a) ==
    /\ a.is \in {"error", "code", "advice", "category", "action", "from", "doc", "cfg"}
    /\ a.is = "code" =>
         /\ a.tail \in Seq(Range(a.tail))
         /\ \A i \in DOMAIN a.tail :
              a.tail[i].key \in {"category", "advice", "action", "other", "unseparated", "none"}
         /\ a.value # None => a.value.raw \in BOOLEAN /\ a.value.text \in Seq(CharClasses)

IsShape(kind) ==
    /\ kind.shape \in {"unit", "tuple", "struct"}
    /\ kind.fields \in Seq(Range(kind.fields)) /\ None \notin Range(kind.fields)

ASSUME MenuAssumption ==
    /\ MaxVariants \in Nat
    /\ \A i \in 1..MaxVariants :
         /\ \A a \in AttributesOf[i] : IsAttribute(a)
         /\ \A kind \in ShapesOf[i] : IsShape(kind)
    /\ None \notin {"transparent", "word"}

VARIABLES
    phase,      \* "enum" -> "variant" (once per variant) -> "expanded"
    header,     \* enum-level category and generics, as interpreted
    meta,       \* VariantMeta of the variant being read
    variants,   \* the validated variants
    errors,     \* the complaints
    emitted,    \* the expansion
    source      \* what was written: a history of the attributes read

vars == <<phase, header, meta, variants, errors, emitted, source>>

---------------------------------------------------------------------------
(* Attributes. Each is a record with its name in `is`. *)

Fields == {"tpl", "code", "category", "advice", "action"}

NoMeta == [tpl |-> None, code |-> None, category |-> None, advice |-> None,
           action |-> None, from |-> FALSE, doc |-> FALSE, cfg |-> {}]

\* What interpreting an attribute gives: the slots and the complaints.
Fine(m) == [meta |-> m, errors |-> {}]
Complain(m, what) == [meta |-> m, errors |-> {what}]

\* set_once: the slot takes the later value, and a second one is a complaint.
SetOnce(m, field, value) ==
    [meta |-> [m EXCEPT ![field] = value],
     errors |-> IF m[field] = None THEN {} ELSE {<<"duplicate", field>>}]

\* One attribute whose only value is a literal or an identifier.
SetOr(m, field, value) ==
    IF value = None THEN Complain(m, <<"malformed", field>>)
    ELSE SetOnce(m, field, value)

\* The `, key = value` list behind the code. It ends, without a complaint, at a
\* comma that no identifier follows ("none"), and with one at a token that is not
\* a comma or a key without `=` ("unseparated"); another bad item is passed over.
EndsOf(tail) == {i \in DOMAIN tail : tail[i].key \in {"none", "unseparated"}}

ReadOf(tail) == {i \in DOMAIN tail : \A j \in EndsOf(tail) : i <= j}

TailFields == {"category", "advice", "action"}

SetBy(tail, field) == {i \in ReadOf(tail) : tail[i].key = field /\ tail[i].value # None}

\* A slot keeps the last value it is given.
LastOr(tail, field, now) ==
    LET set == SetBy(tail, field)
    IN  IF set = {} THEN now ELSE tail[CHOOSE i \in set : \A j \in set : j <= i].value

TailErrors(m, tail) ==
    {<<"duplicate", field>> : field \in
       {f \in TailFields : \/ SetBy(tail, f) # {} /\ m[f] # None
                           \/ \E i, j \in SetBy(tail, f) : i # j}}
    \cup {<<"malformed", "code">> : i \in
           {j \in ReadOf(tail) : /\ tail[j].key # "none"
                                 /\ tail[j].key \in TailFields => tail[j].value = None}}

ParseCodeTail(m, lit, tail) ==
    IF lit = None THEN Complain(m, <<"malformed", "code">>)
    ELSE LET first == SetOnce(m, "code", lit)
         IN  [meta |-> [first.meta EXCEPT !.category = LastOr(tail, "category", m.category),
                                          !.advice = LastOr(tail, "advice", m.advice),
                                          !.action = LastOr(tail, "action", m.action)],
              errors |-> first.errors \cup TailErrors(m, tail)]

\* The literal in #[error(...)]: the parser looks for no other token.
Literal(a) == IF a.value = "word" THEN None ELSE a.value

\* The chain of attr_is tests; what is not the macro's own is forwarded, and
\* of that only the documentation and the cfgs matter here.
Interpret(m, a) ==
    CASE a.is = "error" -> SetOr(m, "tpl", Literal(a))
      [] a.is = "code" -> ParseCodeTail(m, a.value, a.tail)
      [] a.is \in {"advice", "category", "action"} -> SetOr(m, a.is, a.value)
      [] a.is = "from" -> IF a.value = None THEN Fine([m EXCEPT !.from = TRUE])
                          ELSE Complain(m, <<"malformed", "from">>)
      [] a.is = "doc" -> Fine([m EXCEPT !.doc = m.doc \/ a.value # None])
      [] a.is = "cfg" -> Fine([m EXCEPT !.cfg = m.cfg \cup {a.value}])

---------------------------------------------------------------------------
(* Validation of one variant. *)

\* `^[A-Z]+[0-9]+$`: split at the first digit; what is before must be capitals
\* and what is after digits, neither empty. A raw string is not looked at.
ValidCode(code) ==
    LET t == code.text
        split == IF \E i \in DOMAIN t : t[i] = "digit"
                 THEN (CHOOSE i \in DOMAIN t :
                         t[i] = "digit" /\ \A j \in 1..(i - 1) : t[j] # "digit") - 1
                 ELSE Len(t)
    IN  \/ code.raw
        \/ /\ split > 0
           /\ \A i \in 1..split : t[i] = "upper"
           /\ split < Len(t)
           /\ \A i \in (split + 1)..Len(t) : t[i] = "digit"

CategoryOf(m) == IF m.code # None /\ m.category = None THEN header.category ELSE m.category

\* Faulty: a category without a code is not looked at.
CategoryErrorsOfCoded(m) ==
    IF m.code # None /\ CategoryOf(m) = None THEN {<<"category", "missing">>} ELSE {}

CategoryErrors(m) ==
    {e \in {<<"category", "missing">>, <<"category", "uncoded">>} :
        CASE e[2] = "missing" -> m.code # None /\ CategoryOf(m) = None
          [] e[2] = "uncoded" -> m.code = None /\ m.category # None}

FromErrors(m, kind) ==
    IF m.from /\ ~(kind.shape = "tuple" /\ Len(kind.fields) = 1)
    THEN {<<"from", kind.shape>>} ELSE {}

\* The fields of a struct variant marked #[source] or named `source`.
Marked(kind) ==
    IF kind.shape = "struct" THEN {i \in DOMAIN kind.fields : kind.fields[i] = "source"} ELSE {}

\* The first marked field; a transparent struct delegates to its only field.
SourceField(m, kind) ==
    CASE Marked(kind) # {} -> CHOOSE i \in Marked(kind) : \A j \in Marked(kind) : i <= j
      [] Marked(kind) = {} /\ kind.shape = "struct" /\ m.tpl = "transparent"
           /\ Len(kind.fields) = 1 -> 1
      [] OTHER -> 0

TransparentErrors(m, kind) ==
    IF m.tpl = "transparent" /\ ~(kind.shape \in {"tuple", "struct"} /\ Len(kind.fields) = 1)
    THEN {<<"transparent", kind.shape>>} ELSE {}

VariantErrors(m, kind) ==
    UNION {IF m.tpl = None THEN {<<"missing", "tpl">>} ELSE {},
           IF m.code # None /\ ~ValidCode(m.code) THEN {<<"shape", "code">>} ELSE {},
           CategoryErrors(m),
           FromErrors(m, kind),
           IF Cardinality(Marked(kind)) > 1 THEN {<<"multiple", "source">>} ELSE {},
           TransparentErrors(m, kind)}

\* The validated variant: explicit advice, else the documentation's.
Variant(m, kind) ==
    [tpl |-> m.tpl, code |-> m.code, category |-> CategoryOf(m), action |-> m.action,
     advice |-> IF m.advice = None /\ m.doc THEN "documented" ELSE m.advice,
     from |-> m.from, cfg |-> m.cfg, kind |-> kind, source |-> SourceField(m, kind)]

---------------------------------------------------------------------------
(* Cross-variant validation: the later of two variants is complained of. *)

DuplicateCodes(vs) ==
    {<<"duplicate code", j>> : j \in {k \in DOMAIN vs :
        \E i \in 1..(k - 1) : vs[k].code # None /\ vs[i].code = vs[k].code}}

DuplicateFroms(vs) ==
    LET FromType(v) == IF v.from /\ v.kind.shape = "tuple" /\ v.kind.fields # <<>>
                       THEN v.kind.fields[1] ELSE None
    IN  {<<"duplicate from", j>> : j \in {k \in DOMAIN vs :
           \E i \in 1..(k - 1) : FromType(vs[k]) # None /\ FromType(vs[i]) = FromType(vs[k])}}

---------------------------------------------------------------------------
(* Code generation. An item is an arm, an impl or a definition for variant *)
(* `of` that exists when all of `cfg` holds; `says` is what it answers.    *)

Silent == [inner |-> FALSE, code |-> None, category |-> None, advice |-> None]
Inner(b) == [Silent EXCEPT !.inner = b]
Codes(v) == [Silent EXCEPT !.code = v.code, !.category = v.category]

Item(what, i, cfg, says) == [item |-> what, of |-> i, cfg |-> cfg, says |-> says]

Coded(v) == v.code # None

\* The enum: attributes that are not the macro's are forwarded to the variant.
EmitEnum(vs) == {Item("variant", i, vs[i].cfg, Silent) : i \in DOMAIN vs}

\* The struct of a struct variant, its Display, Error and the two From impls.
EmitStruct(vs, i) ==
    LET v == vs[i]
    IN  IF v.kind.shape # "struct" THEN {}
        ELSE {Item("struct", i, v.cfg, Silent),
              Item("structDisplay", i, v.cfg,
                   Inner(v.tpl = "transparent")),
              Item("structSource", i, v.cfg, Inner(v.source # 0)),
              Item("structProvide", i, v.cfg, Codes(v)),
              Item("fromStruct", i, v.cfg, Silent),
              Item("faultFromStruct", i, v.cfg, Silent)}

EmitFrom(vs, i) ==
    IF vs[i].kind.shape = "tuple" /\ vs[i].from /\ Len(vs[i].kind.fields) = 1
    THEN {Item("fromInner", i, vs[i].cfg, Inner(TRUE))} ELSE {}

\* entry_expr, the link-time registration and the element of ENTRIES.
EmitEntry(vs, i) ==
    IF Coded(vs[i])
    THEN {Item(what, i, vs[i].cfg, Codes(vs[i])) :
            what \in {"registration", "entry"}}
    ELSE {}

EmitDisplayArms(vs) == {Item("Display", i, vs[i].cfg, Silent) : i \in DOMAIN vs}

\* source() of the enum is generated when a variant has a source field or from.
HasSource(vs) == \E i \in DOMAIN vs : vs[i].source # 0 \/ vs[i].from

SourceArm(v) ==
    \/ v.kind.shape = "struct" /\ v.source # 0
    \/ v.kind.shape = "tuple" /\ v.from /\ Len(v.kind.fields) = 1
    \/ v.kind.shape = "tuple" /\ v.tpl = "transparent"

EmitSourceArms(vs) ==
    IF HasSource(vs)
    THEN {Item("source", i, vs[i].cfg, Inner(SourceArm(vs[i]))) : i \in DOMAIN vs} ELSE {}

EmitProvideArms(vs) ==
    IF \E i \in DOMAIN vs : Coded(vs[i])
    THEN {Item("provide", i, vs[i].cfg, Codes(vs[i])) : i \in DOMAIN vs}
    ELSE {}

\* Faulty: generated, for the coded variants, when any variant is coded.
EmitAccessorArmsOfAny(vs) ==
    UNION {{Item("code", i, vs[i].cfg, [Silent EXCEPT !.code = vs[i].code]),
            Item("category", i, vs[i].cfg, [Silent EXCEPT !.category = vs[i].category])} :
           i \in {j \in DOMAIN vs : Coded(vs[j])}}

\* code(), category(), advice() and Coded: only when every variant is coded.
EmitAccessorArms(vs) ==
    IF \A i \in DOMAIN vs : Coded(vs[i])
    THEN UNION {{Item("code", i, vs[i].cfg, [Silent EXCEPT !.code = vs[i].code]),
                 Item("category", i, vs[i].cfg, [Silent EXCEPT !.category = vs[i].category]),
                 Item("advice", i, vs[i].cfg, [Silent EXCEPT !.advice = vs[i].advice])} :
                i \in DOMAIN vs}
    ELSE {}

Codegen(vs) ==
    UNION ({EmitEnum(vs), EmitDisplayArms(vs), EmitSourceArms(vs), EmitProvideArms(vs),
            EmitAccessorArms(vs)}
           \cup {EmitStruct(vs, i) \cup EmitFrom(vs, i) \cup EmitEntry(vs, i) : i \in DOMAIN vs})

---------------------------------------------------------------------------
(* Reading the enum. *)

Written == Len(source.header)
           + FoldFunction(LAMBDA w, n : BagCardinality(w.attributes) + n, 0, source.variants)

Init ==
    /\ phase = "enum"
    /\ header \in [category : {None}, generic : BOOLEAN]
    /\ meta = NoMeta
    /\ variants = <<>>
    /\ errors = IF header.generic THEN {<<"generic", "enum">>} ELSE {}
    /\ emitted = {}
    /\ source = [header |-> <<>>, variants |-> <<>>]

\* #[max_size = N] and #[category = C] of the enum; the rest is forwarded.
EnumAttribute(a) ==
    /\ phase = "enum" /\ variants = <<>>
    /\ Written < MaxAttributes
    /\ Cardinality(errors) < MaxErrors
    /\ source' = [source EXCEPT !.header = Append(@, a)]
    /\ CASE a.is = "category" /\ a.value # None ->
              /\ header' = [header EXCEPT !.category = a.value]
              /\ errors' = errors \cup IF header.category = None THEN {}
                                       ELSE {<<"duplicate", "enum category">>}
         [] a.is \in {"category", "max_size"} /\ a.value = None ->
              /\ errors' = errors \cup {<<"malformed", a.is>>}
              /\ UNCHANGED header
         [] OTHER -> UNCHANGED <<header, errors>>
    /\ UNCHANGED <<phase, meta, variants, emitted>>

\* The next variant of the enum begins.
BeginVariant ==
    /\ phase = "enum"
    /\ Len(variants) < MaxVariants
    /\ Cardinality(errors) < MaxErrors
    /\ phase' = "variant"
    /\ meta' = NoMeta
    /\ source' = [source EXCEPT !.variants = Append(@, [attributes |-> EmptyBag, kind |-> None])]
    /\ UNCHANGED <<header, variants, errors, emitted>>

VariantAttribute(a) ==
    /\ phase = "variant"
    /\ Written < MaxAttributes
    /\ Cardinality(errors) < MaxErrors
    /\ LET r == Interpret(meta, a)
       IN  /\ meta' = r.meta
           /\ errors' = errors \cup r.errors
    /\ source' = [source EXCEPT !.variants[Len(variants) + 1].attributes = @ (+) SetToBag({a})]
    /\ UNCHANGED <<phase, header, variants, emitted>>

\* The attributes are read: the variant is validated with its fields.
EndVariant(kind) ==
    /\ phase = "variant"
    /\ phase' = "enum"
    /\ errors' = errors \cup VariantErrors(meta, kind)
    /\ variants' = Append(variants, Variant(meta, kind))
    /\ source' = [source EXCEPT !.variants[Len(variants) + 1].kind = kind]
    /\ UNCHANGED <<header, meta, emitted>>

\* Cross-variant validation, then everything, or the cleaned enum alone.
Expand ==
    /\ phase = "enum"
    /\ phase' = "expanded"
    /\ LET all == errors \cup DuplicateCodes(variants) \cup DuplicateFroms(variants)
       IN  /\ errors' = all
           /\ emitted' = IF all = {} THEN Codegen(variants) ELSE EmitEnum(variants)
    /\ UNCHANGED <<header, meta, variants, source>>

Next ==
    \/ \E a \in EnumAttributes : EnumAttribute(a)
    \/ BeginVariant
    \/ phase = "variant" /\ \E a \in AttributesOf[Len(variants) + 1] : VariantAttribute(a)
    \/ phase = "variant" /\ \E kind \in ShapesOf[Len(variants) + 1] : EndVariant(kind)
    \/ Expand

Spec == Init /\ [][Next]_vars

---------------------------------------------------------------------------
(* The contract of the macro, said of what was written rather than of how  *)
(* it is read.                                                             *)

\* Where attribute a gives a value to the field: 0 is its own value.
Places(a, field) ==
    LET own == (a.is = field \/ (a.is = "error" /\ field = "tpl")) /\ a.value # None
    IN  {i \in {0} : own}
        \cup IF a.is = "code"
             THEN {i \in DOMAIN a.tail : a.tail[i].key = field /\ a.tail[i].value # None}
             ELSE {}

IsGiven(w, field) == \E a \in BagToSet(w.attributes) : Places(a, field) # {}

GivenTwice(w, field) ==
    \E a, b \in BagToSet(w.attributes) : \E i \in Places(a, field), j \in Places(b, field) :
      <<a, i>> # <<b, j>> \/ w.attributes[a] > 1

\* Every part of the attribute has the form its documentation shows, and a template
\* may be thiserror's bare word `transparent` ("thiserror's subset works verbatim").
WellSpelled(a) ==
    CASE a.is \in {"doc", "cfg"} -> TRUE
      [] a.is = "from" -> a.value = None
      [] a.is = "code" ->
           /\ a.value # None
           /\ \A i \in DOMAIN a.tail :
                \/ a.tail[i].key \in {"category", "advice", "action"} /\ a.tail[i].value # None
                \/ a.tail[i].key = "none" /\ i = Len(a.tail)
      [] OTHER -> a.value # None

CodesOf(w) == {a.value : a \in {b \in BagToSet(w.attributes) : b.is = "code"}}
IsFrom(w) == \E a \in BagToSet(w.attributes) : a.is = "from"
IsTransparent(w) ==
    \E a \in BagToSet(w.attributes) : a.is = "error" /\ a.value = "transparent"

\* Every template is a literal.
Quoted(w) == \A a \in BagToSet(w.attributes) : ~(a.is = "error" /\ a.value = "word")

CapitalsThenDigits(t) ==
    \E n \in 1..(Len(t) - 1) : \A i \in DOMAIN t : t[i] = IF i <= n THEN "upper" ELSE "digit"

WellFormedVariant(w, defaulted) ==
    LET single == w.kind.shape \in {"tuple", "struct"} /\ Len(w.kind.fields) = 1
    IN  /\ \A a \in BagToSet(w.attributes) : WellSpelled(a)
        /\ \A field \in Fields : ~GivenTwice(w, field)
        /\ IsGiven(w, "tpl")
        /\ IsGiven(w, "category") => IsGiven(w, "code")
        /\ IsGiven(w, "code") => IsGiven(w, "category") \/ defaulted
        /\ \A c \in CodesOf(w) : c.raw \/ CapitalsThenDigits(c.text)
        /\ IsFrom(w) => single /\ w.kind.shape = "tuple"
        /\ IsTransparent(w) \/ ~Quoted(w) => single
        /\ w.kind.shape = "struct" =>
             Cardinality({i \in DOMAIN w.kind.fields : w.kind.fields[i] = "source"}) <= 1

WellFormed ==
    LET categories == {i \in DOMAIN source.header : source.header[i].is = "category"}
        vs == source.variants
    IN  /\ ~header.generic
        /\ \A i \in DOMAIN source.header :
             source.header[i].is \in {"category", "max_size"} => source.header[i].value # None
        /\ \A i, j \in categories : i = j
        /\ \A i \in DOMAIN vs : WellFormedVariant(vs[i], categories # {})
        /\ \A i, j \in DOMAIN vs : i < j =>
             /\ \A c \in CodesOf(vs[i]), d \in CodesOf(vs[j]) : c.text # d.text
             /\ ~(IsFrom(vs[i]) /\ IsFrom(vs[j]) /\ vs[i].kind.fields[1] = vs[j].kind.fields[1])

(* Exactly the enums that meet the contract and have only literals for     *)
(* templates expand; every other one is re-emitted alone, with at least    *)
(* one complaint (error_macro.rs:3-5 and 1010-1017, lib.rs of the macros,  *)
(* 521-556). The bare #[error(transparent)] is documented (error_macro.rs, *)
(* 133 and 427, the message at 439) and refused (264-274).                 *)
AcceptsContract ==
    phase = "expanded" =>
      /\ (errors = {}) <=> WellFormed /\ \A i \in DOMAIN source.variants : Quoted(source.variants[i])
      /\ errors # {} => {it.item : it \in emitted} \subseteq {"variant"}

(* "Attributes (thiserror's subset works verbatim)" (lib.rs of the macros, *)
(* 521): what the documentation shows expands, as it is written there.     *)
DocumentedExpands == phase = "expanded" /\ WellFormed => errors = {}

---------------------------------------------------------------------------
(* What an accepted expansion is to the compiler and to the program. *)

Accepted == phase = "expanded" /\ errors = {}

Configurations == SUBSET UNION {variants[i].cfg : i \in DOMAIN variants}

\* The items left of the expansion when exactly the cfgs in F hold.
Compiled(F) == {it \in emitted : it.cfg \subseteq F}
Present(F) == {it.of : it \in {x \in Compiled(F) : x.item = "variant"}}
Arms(F, name) == {it \in Compiled(F) : it.item = name}
Matches == {"Display", "source", "provide", "code", "category", "advice"}

(* In every configuration of its cfgs the expansion compiles to one story: *)
(* each match emitted has an arm for exactly the variants that are there,  *)
(* no item mentions a variant or struct that is not, and a coded variant   *)
(* is registered once, under the code and category that its provide and    *)
(* its accessors give (error_macro.rs:105-113, 460-497, 551-890). Of a     *)
(* configuration that leaves no variant it says only that nothing else is  *)
(* left: that rustc refuses the `match self {}` on a reference which is    *)
(* emitted then (E0004) is the compiler's part, outside this model.        *)
CoherentUnderCfg ==
    Accepted => \A F \in Configurations :
      /\ \A it \in Compiled(F) : it.of \in Present(F)
      /\ \A name \in Matches :
           name \in {it.item : it \in emitted} =>
             {it.of : it \in Arms(F, name)} = Present(F)
      /\ {it.of : it \in Arms(F, "struct")} = {i \in Present(F) : variants[i].kind.shape = "struct"}
      /\ \A i \in Present(F) :
           LET Says(name) == {it.says : it \in {x \in Arms(F, name) : x.of = i}}
           IN  /\ Says("registration") = Says("entry")
               /\ Says("provide") \ {Silent} = Says("registration")
               /\ Cardinality(Says("registration")) = IF Coded(variants[i]) THEN 1 ELSE 0
               /\ \A c \in Says("code"), k \in Says("category") :
                    Says("registration") = {[c EXCEPT !.category = k.category]} /\ k.category # None

\* What Error::source of a value of variant i gives in the expansion.
Reached(i) ==
    \E it \in emitted : it.item = "source" /\ it.of = i /\ it.says.inner

(* A field written as the cause (#[from], #[source], a field named source, *)
(* the only field of a transparent struct) is the one the enum's source()  *)
(* answers, and no other variant has one (lib.rs of the macros, 529-535).  *)
SourcesReached ==
    Accepted => \A i \in DOMAIN source.variants :
      LET w == source.variants[i]
      IN  ~(IsTransparent(w) /\ w.kind.shape = "tuple") =>
            (Reached(i) <=>
               \/ IsFrom(w)
               \/ w.kind.shape = "struct" /\ (\/ \E j \in DOMAIN w.kind.fields : w.kind.fields[j] = "source"
                                            \/ IsTransparent(w)))

(* An accepted expansion says in every configuration what the source says. *)
ExpansionTrue == CoherentUnderCfg /\ SourcesReached

(* "Display and source() both delegate to the single inner field"          *)
(* (error_macro.rs:133-134).                                               *)
TransparentDelegates ==
    Accepted => \A i \in DOMAIN source.variants : IsTransparent(source.variants[i]) => Reached(i)
=============================================================================
