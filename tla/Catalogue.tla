----------------------------- MODULE Catalogue -----------------------------
(***************************************************************************)
(* The catalogue of error codes (src/src/errors.rs) and what doctor answers*)
(* from it.  A code is the sequence of its characters, a character a       *)
(* number, so that prefixes and the order of codes can be told.  The       *)
(* catalogue is a sequence of slices, one per error enum: on native targets*)
(* the linker has put them together before main, on wasm the program       *)
(* registers them one after the other at startup.                          *)
(***************************************************************************)
EXTENDS Naturals, Sequences, SequencesExt

\* ErrorRegistryEntry; advice and action are texts, empty when there is none.
Entry(code, name, category, advice, action) ==
  [code |-> code, name |-> name, category |-> category, advice |-> advice, action |-> action]

\* The absence of a word; as a line of a text, a blank one.
Blank == ""

\* The absence of an entry.
NoEntry == Entry(<<>>, Blank, Blank, <<>>, <<>>)

\* The members of s that pass a test, in order: SelectSeq, written as a recursive
\* function.
Select(s, Test(_)) ==
  LET kept[i \in 0..Len(s)] ==
        IF i = 0 THEN <<>> ELSE IF Test(s[i]) THEN Append(kept[i - 1], s[i]) ELSE kept[i - 1]
  IN  kept[Len(s)]

\* error_registry: every entry, slice by slice.
Registry(slices) == FlattenSeq(slices)

\* lookup_error: the first entry with this code.
LookupError(slices, code) ==
  LET found == Select(Registry(slices), LAMBDA e : e.code = code)
  IN  IF found = <<>> THEN NoEntry ELSE Head(found)

\* The order of strings: the first character that differs decides, or the length.
Before(a, b) ==
  \E n \in 0..Len(a) :
    /\ n < Len(b)
    /\ SubSeq(a, 1, n) = SubSeq(b, 1, n)
    /\ \/ n = Len(a)
       \/ n < Len(a) /\ a[n + 1] < b[n + 1]

\* similar_codes: the entries under a prefix, sorted by code.
SimilarCodes(slices, query) ==
  SortSeq(Select(Registry(slices), LAMBDA e : IsPrefix(query, e.code)),
          LAMBDA a, b : Before(a.code, b.code))

\* What doctor renders: the entry, what is similar to it, or nothing.
Doctor(slices, code) ==
  LET entry == LookupError(slices, code)
      alike == SimilarCodes(slices, code)
  IN  IF entry # NoEntry THEN [answer |-> "entry", entries |-> <<entry>>]
      ELSE IF alike # <<>> THEN [answer |-> "similar", entries |-> alike]
      ELSE [answer |-> "none", entries |-> <<>>]
=============================================================================
