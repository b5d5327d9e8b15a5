------------------------------- MODULE Report -------------------------------
(***************************************************************************)
(* The report of a fault (src/src/report.rs): one pass over the tree that  *)
(* collects, with a stack of its own, and two renderers, text and JSON; the*)
(* exit code (exn.rs) and doctor (Catalogue) tell the same fault again.    *)
(*                                                                         *)
(* A fault is built first: a tree of frames, each known by the sequence of *)
(* child positions that leads to it, and attachments on the root.  A text  *)
(* is the sequence of its lines, a line is a word.  A line of the report is*)
(* a sequence of words, its first word is what a reader takes for the key. *)
(* A text that goes through Line becomes words of one line; a text that    *)
(* does not keeps its line breaks.  The word Blank is the absence of a     *)
(* value, and a blank line.                                                *)
(***************************************************************************)
EXTENDS Catalogue, FiniteSets, TLC

CONSTANTS
  RootErrors,       \* what the root may be: [code, tag, type, says, at]
  ChildErrors,      \* what other frames may be
  AttachmentMenu,   \* [key, placement, typed, shows]
  Slices,           \* slices of entries that may be registered
  Policy,           \* Policy[c]: the advice line of the policy of category c
  SourceLine,       \* OBSERVE_REPORT_SOURCE: the line at a location, or <<>>
  AppendixMaxLines, \* APPENDIX_MAX_LINES
  MaxParts          \* bound: frames, attachments and slices of a fault's report

Tags  == {"Content", "Transient", "Invariant", "Fatal"}
Texts == Seq(STRING)

ASSUME ErrorsAssumption ==
  RootErrors \cup ChildErrors \subseteq
    [code : Seq(Nat), tag : Tags \cup {Blank}, type : STRING, says : Texts, at : STRING]
ASSUME AttachmentAssumption ==
  AttachmentMenu \subseteq
    [key : STRING, placement : {"inline", "appendix", "opaque", "hidden"}, typed : BOOLEAN,
     shows : Texts]
ASSUME SlicesAssumption ==
  Slices \subseteq
    Seq([code : Seq(Nat), name : STRING, category : Tags, advice : Texts, action : Texts])
ASSUME PolicyAssumption == Policy \in [Tags -> STRING]
ASSUME SourceLineAssumption == SourceLine \in Texts
ASSUME CapAssumption == AppendixMaxLines \in Nat \ {0}
ASSUME PartsAssumption == MaxParts \in Nat \ {0}

VARIABLES
  tree,        \* the frames, by path; <<>> is the root
  attachments, \* Frame.attachments of the root
  slices,      \* the registered slices
  rendering,   \* "building", "collecting", "done"
  toCollect,   \* the stack of ReportData::collect
  causes,      \* ReportData.causes: [kind, error] records
  text,        \* the text form
  json         \* the JSON form: its members in order

reportVars == <<tree, attachments, slices, rendering, toCollect, causes, text, json>>

EdgeKinds == {"source", "wrap", "attempt", "batch"}

Parts == Cardinality(DOMAIN tree) + Len(attachments) + Len(slices)

ReportInit ==
  /\ \E e \in RootErrors : tree = [p \in {<<>>} |-> [kind |-> Blank, error |-> e]]
  /\ attachments = <<>> /\ slices = <<>> /\ rendering = "building"
  /\ toCollect = <<>> /\ causes = <<>> /\ text = <<>> /\ json = <<>>

-----------------------------------------------------------------------------
\* Building the fault.

\* The number of children of the frame at path p.
Branches(p) == Cardinality({q \in DOMAIN tree : Len(q) = Len(p) + 1 /\ IsPrefix(p, q)})

\* Frames come under a root through sources, wrap, retry and FaultCollection.
AddFrame(p, kind, e) ==
  /\ rendering = "building" /\ Parts < MaxParts
  /\ LET child == Append(p, Branches(p) + 1)
     IN  tree' = [q \in DOMAIN tree \cup {child} |->
                    IF q = child THEN [kind |-> kind, error |-> e] ELSE tree[q]]
  /\ UNCHANGED <<attachments, slices, rendering, toCollect, causes, text, json>>

\* Frame::push_attachment by capture hooks, attach, attach_key, attach_placed.
AddAttachment(a) ==
  /\ rendering = "building" /\ Parts < MaxParts
  /\ attachments' = Append(attachments, a)
  /\ UNCHANGED <<tree, slices, rendering, toCollect, causes, text, json>>

\* register_statics, or one more crate that is linked.
RegisterStatics(s) ==
  /\ rendering = "building" /\ Parts < MaxParts
  /\ slices' = Append(slices, s)
  /\ UNCHANGED <<tree, attachments, rendering, toCollect, causes, text, json>>

-----------------------------------------------------------------------------
\* ReportData::collect.

Root == tree[<<>>].error

\* request_value and the catalogue.
RootEntry == IF Root.code = <<>> THEN NoEntry ELSE LookupError(slices, Root.code)

\* frame_category: what the error provides, or else what its entry says.
FrameCategory == IF Root.tag # Blank THEN Root.tag ELSE RootEntry.category

\* base_action: the text of the variant, or else the line of the policy.
BaseAction == IF RootEntry.action # <<>> THEN RootEntry.action ELSE <<Policy[FrameCategory]>>

\* concrete_type_name: none for an error that was captured through dyn Error.
ConcreteTypeName(e) == IF e.type = "dyn" THEN Blank ELSE e.type

Reserved == {"scope_path", "scope_elapsed_ms", "trace_id"}

\* find_keyed: the first attachment with a key, if any, as a sequence.
FindKeyed(key) ==
  LET found == Select(attachments, LAMBDA a : a.key = key)
  IN  IF found = <<>> THEN <<>> ELSE <<Head(found)>>

Inline ==
  Select(attachments, LAMBDA a : a.placement = "inline" /\ a.key \notin Reserved)

\* Those without a key are filtered out.
Appendix == Select(attachments, LAMBDA a : a.placement = "appendix" /\ a.key # Blank)

\* The deepest frame of the first branch.
FirstLeaf == CHOOSE p \in DOMAIN tree : ToSet(p) \subseteq {1} /\ Branches(p) = 0

\* fingerprint_of: a hash of these; that hashes can collide is left out.
Fingerprint ==
  <<IF Root.code # <<>> THEN ToString(Root.code) ELSE Root.type, Root.at, tree[FirstLeaf].error.type>>

StartCollecting ==
  /\ rendering = "building"
  /\ rendering' = "collecting"
  /\ toCollect' = <<<<>>>>
  /\ UNCHANGED <<tree, attachments, slices, causes, text, json>>

\* Faulty: the children are pushed first to last.
PushedForward(p) == [i \in 1..Branches(p) |-> Append(p, i)]

\* The children of p as they are pushed: last to first, the first on top.
Pushed(p) == [i \in 1..Branches(p) |-> Append(p, Branches(p) - i + 1)]

Collect ==
  /\ rendering = "collecting" /\ toCollect # <<>>
  /\ causes' = Append(causes, tree[Last(toCollect)])
  /\ toCollect' = Front(toCollect) \o Pushed(Last(toCollect))
  /\ UNCHANGED <<tree, attachments, slices, rendering, text, json>>

-----------------------------------------------------------------------------
\* The text form: a sequence of lines, a line a sequence of words.

\* A value that may be absent, as words of a line.
Word(w) == IF w = Blank THEN <<>> ELSE <<w>>
CodeWord(code) == IF code = <<>> THEN <<>> ELSE <<ToString(code)>>

\* Faulty: line breaks are left.
EscapedNot(line, t) == <<line \o <<t[1]>>>> \o [i \in 1..(Len(t) - 1) |-> <<t[i + 1]>>]

\* A line that ends with a text that went through Line::new.
Escaped(line, t) == <<line \o t>>

\* The same with a text that did not.
Unescaped(line, t) == <<line \o <<t[1]>>>> \o [i \in 1..(Len(t) - 1) |-> <<t[i + 1]>>]

\* A section that is left out when there is nothing in it.
Section(present, lines) == IF present THEN lines ELSE <<>>

Heading(e) == CodeWord(e.code) \o Word(ConcreteTypeName(e))

CauseLabel(kind) ==
  CASE kind \in {Blank, "source"} -> "cause"
    [] kind = "wrap" -> "original"
    [] kind = "attempt" -> "attempt"
    [] kind = "batch" -> "failure"

\* write_cause_line
CauseLine(n) ==
  LET e == causes[n].error
  IN  <<CauseLabel(causes[n].kind), ToString(n - 1)>> \o Heading(e) \o e.says \o <<e.at>>

ScopeLine(path) ==
  LET elapsed == FindKeyed("scope_elapsed_ms")
  IN  Escaped(<<"scope">>, path.shows \o IF elapsed = <<>> THEN <<>> ELSE elapsed[1].shows)

AttachmentLine(a) == Escaped(<<"attachment">> \o Word(a.key), a.shows)

\* display.trim_end()
TrimEnd(t) == LET n == CHOOSE k \in 0..Len(t) : /\ \A i \in (k + 1)..Len(t) : t[i] = Blank
                                                /\ k > 0 => t[k] # Blank
              IN  SubSeq(t, 1, n)

\* The first lines, the later ones indented, and how many are left.
AppendixLines(a) ==
  LET lines == TrimEnd(a.shows)
      shown == SubSeq(lines, 1, Min({Len(lines), AppendixMaxLines}))
  IN  [i \in DOMAIN shown |-> (IF i = 1 THEN <<"appendix", a.key>> ELSE <<"indent">>) \o <<shown[i]>>]
      \o Section(Len(lines) > AppendixMaxLines,
                 <<<<"indent", "more", ToString(Len(lines) - AppendixMaxLines)>>>>)

\* One block of lines per member of a sequence.
Each(seq, Lines(_)) == FlattenSeq([i \in DOMAIN seq |-> Lines(seq[i])])

\* write_report, section by section.
TextSections ==
  <<<<<<"report", "fast-observe/1">>>>,
    Escaped(<<"error">> \o Heading(Root), Root.says),
    Section(FrameCategory # Blank, <<<<"category", FrameCategory, Policy[FrameCategory]>>>>),
    <<<<"location", Root.at>>>>,
    Section(SourceLine # <<>>, Escaped(<<"source">>, SourceLine)),
    Each(FindKeyed("scope_path"), ScopeLine),
    Each(Inline, AttachmentLine),
    [n \in DOMAIN causes |-> CauseLine(n)],
    Each(FindKeyed("trace_id"), LAMBDA a : Escaped(<<"trace_id">>, a.shows)),
    <<<<"fingerprint">> \o Fingerprint>>,
    Section(RootEntry.advice # <<>>, Unescaped(<<"advice">>, RootEntry.advice)),
    Section(FrameCategory # Blank, Escaped(<<"action">>, BaseAction)),
    Section(Root.code # <<>>, <<<<"hint", "doctor", ToString(Root.code)>>>>),
    Each(Appendix, AppendixLines)>>

WriteReport == FlattenSeq(TextSections)

-----------------------------------------------------------------------------
\* The JSON form: its members in order, those of an object under its name.  All
\* texts are escaped.

CauseMember(c) ==
  <<"causes">> \o Heading(c.error) \o c.error.says \o Word(c.kind) \o <<c.error.at>>

ScopeMember(path) ==
  LET elapsed == FindKeyed("scope_elapsed_ms")
  IN  <<<<"scope">> \o path.shows
          \o IF elapsed # <<>> /\ elapsed[1].typed THEN elapsed[1].shows ELSE <<>>>>

\* render_frame_report_json, member by member.
JsonMembers ==
  <<<<<<"schema", "2">>>>,
    <<<<"report", "fast-observe/1">>>>,
    <<<<"error">> \o Heading(Root) \o Root.says>>,
    Section(FrameCategory # Blank, <<<<"category", FrameCategory, Policy[FrameCategory]>>>>),
    Section(RootEntry.advice # <<>>, <<<<"advice">> \o RootEntry.advice>>),
    <<<<"location", Root.at>>>>,
    Section(SourceLine # <<>>, <<<<"source">> \o SourceLine>>),
    Each(FindKeyed("scope_path"), ScopeMember),
    Each(Inline, LAMBDA a : <<<<"attachment">> \o Word(a.key) \o a.shows>>),
    [n \in DOMAIN causes |-> CauseMember(causes[n])],
    Each(FindKeyed("trace_id"), LAMBDA a : <<<<"trace_id">> \o a.shows>>),
    <<<<"fingerprint">> \o Fingerprint>>,
    Section(FrameCategory # Blank, <<<<"action">> \o BaseAction>>),
    Section(Root.code # <<>>, <<<<"hint", "doctor", ToString(Root.code)>>>>),
    Each(Appendix, LAMBDA a : <<<<"appendix", a.key>> \o a.shows>>)>>

RenderFrameReportJson == FlattenSeq(JsonMembers)

Render ==
  /\ rendering = "collecting" /\ toCollect = <<>>
  /\ rendering' = "done"
  /\ text' = WriteReport
  /\ json' = RenderFrameReportJson
  /\ UNCHANGED <<tree, attachments, slices, toCollect, causes>>

\* Faulty: what the error provides is not asked.
ExitCodeOfEntry ==
  CASE RootEntry.category = "Content" -> 65
    [] RootEntry.category = "Transient" -> 75
    [] RootEntry.category \in {"Invariant", "Fatal"} -> 70
    [] RootEntry.category = Blank -> 1

\* Fault::exit_code_raw; exit_with_report ends the process with it.
ExitCode ==
  CASE FrameCategory = "Content" -> 65
    [] FrameCategory = "Transient" -> 75
    [] FrameCategory \in {"Invariant", "Fatal"} -> 70
    [] FrameCategory = Blank -> 1

ReportNext ==
  \/ \E p \in DOMAIN tree, kind \in EdgeKinds, e \in ChildErrors : AddFrame(p, kind, e)
  \/ \E a \in AttachmentMenu : AddAttachment(a)
  \/ \E s \in Slices : RegisterStatics(s)
  \/ StartCollecting
  \/ Collect
  \/ Render

ReportSpec == ReportInit /\ [][ReportNext]_reportVars

-----------------------------------------------------------------------------
\* Properties, of finished reports.

Done == rendering = "done"

\* The lines of a form whose first word is one of the keys.
Rows(form, keys) == Select(form, LAMBDA line : line[1] \in keys)
With(form, key)  == Rows(form, {key})
CauseKeys == {"cause", "original", "attempt", "failure"}
Drop(line, n) == SubSeq(line, n + 1, Len(line))

\* The causes are the frames of the tree, each once, parents first and branches in
\* order: the n-th is the frame whose path has n - 1 paths before it.  Its line in
\* the text has its number and how it came under its parent.
CausesInOrder ==
  Done =>
    LET Told(p) == 1 + Cardinality({q \in DOMAIN tree : Before(q, p)})
        lines   == Rows(text, CauseKeys)
    IN  /\ Len(lines) = Cardinality(DOMAIN tree)
        /\ \A p \in DOMAIN tree :
             /\ causes[Told(p)] = tree[p]
             /\ lines[Told(p)][1] = CauseLabel(tree[p].kind)
             /\ lines[Told(p)][2] = ToString(Told(p) - 1)

\* The sections in the order the module's head gives, and the continuation of an
\* appendix.
Order ==
  <<{"report"}, {"error"}, {"category"}, {"location"}, {"source"}, {"scope"}, {"attachment"},
    CauseKeys, {"trace_id"}, {"fingerprint"}, {"advice"},
    {"action"}, {"hint"}, {"appendix", "indent"}>>

Repeated == {"attachment", "appendix", "indent"} \cup CauseKeys

\* Data cannot forge a line: whatever messages, scopes and attachments say, with
\* line breaks and words that look like keys, each line of the text is one fact of
\* the format, in the order of the format.  A reader finds an appendix whole, or
\* cut with the number of lines that are missing, if any are; what is not to be shown is not.
LinesAreFacts ==
  Done =>
    LET rank == [i \in DOMAIN text |-> {k \in DOMAIN Order : text[i][1] \in Order[k]}]
        appended == [i \in DOMAIN Appendix |-> TrimEnd(Appendix[i].shows)]
        listed   == With(text, "appendix")
        rest     == With(text, "indent")
        missing  == {<<"indent", "more", ToString(Len(t) - AppendixMaxLines)>> :
                       t \in {u \in ToSet(appended) : Len(u) > AppendixMaxLines}}
    IN  /\ \A i \in DOMAIN text : Cardinality(rank[i]) = 1
        /\ \A i \in 1..(Len(text) - 1) :
             \E a \in rank[i], b \in rank[i + 1] :
               a < b \/ (a = b /\ text[i][1] \in Repeated)
        /\ Len(With(text, "attachment")) = Len(Inline)
        /\ Len(listed) = Len(Select(appended, LAMBDA t : t # <<>>))
        /\ {line \in ToSet(rest) : Len(line) = 3} = missing
        /\ \A a \in ToSet(attachments) : a.placement \in {"opaque", "hidden"} =>
             \A i \in DOMAIN text : ToSet(text[i]) \cap ToSet(a.shows) = {}

\* The forms tell the same: each fact of the text but the cut of an appendix is in
\* the JSON, and the JSON has nothing more; the exit code belongs to the category
\* both show; and the command of the hint finds the entry whose advice both show.
FormsAgree ==
  Done =>
    LET shared == <<"report", "error", "category", "location", "source", "scope", "attachment",
                    "trace_id", "fingerprint", "action", "hint", "advice">>
        rows   == Rows(text, CauseKeys)
        shown  == With(text, "category")
        answer == Doctor(slices, Root.code)
    IN  /\ \A key \in ToSet(shared) : With(text, key) = With(json, key)
        /\ Len(rows) = Len(With(json, "causes"))
        /\ \A i \in DOMAIN rows :
             LET words == Drop(rows[i], 2) IN
             With(json, "causes")[i]
               = <<"causes">> \o Front(words) \o Word(causes[i].kind) \o <<Last(words)>>
        /\ \/ shown = <<>> /\ ExitCode = 1
           \/ shown # <<>> /\ ExitCode = [Content |-> 65, Transient |-> 75, Invariant |-> 70, Fatal |-> 70][shown[1][2]]
        /\ With(text, "advice") # <<>> =>
             /\ With(text, "hint") # <<>>
             /\ answer.answer = "entry"
             /\ With(json, "advice") = <<<<"advice">> \o answer.entries[1].advice>>

\* What the comment on Placement::Appendix says (exn.rs 187): deferred to an
\* appendix section.  An attachment that was placed there without a key, the only
\* way attach_placed has, is in no section.
AppendixShown ==
  Done => \A a \in ToSet(attachments) :
            a.placement = "appendix" => \E i \in DOMAIN text : a.shows[1] \in ToSet(text[i])

\* What the head of the module says (report.rs 12-14): every interpolated value
\* passes through Line.  Not the advice of an entry.
EveryValuePassesLine == Done => \A i \in DOMAIN text : \E k \in DOMAIN Order : text[i][1] \in Order[k]
=============================================================================
