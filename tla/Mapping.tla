------------------------------ MODULE Mapping ------------------------------
(***************************************************************************)
(* load_mapping of src/fsa/normalize/statements.py: which mapping files    *)
(* are accepted.  A file is [form, entries]; an entry is a record of what  *)
(* the checks look at, its tags and components reduced to what is written  *)
(* there: nothing, a list, one plain string, or what is no sequence.       *)
(***************************************************************************)
EXTENDS Naturals, Sequences, FiniteSets, FiniteSetsExt

\* _KNOWN_DERIVED_KEYS
KnownDerived == {"change_in_nwc"}

Entries == [shape : {"mapping", "other"}, fields : BOOLEAN, key : STRING,
            period : {"duration", "instant"},
            tags : {"none", "list", "text", "number"},
            compose : {"none", "list", "text", "number"}, unit : BOOLEAN, anchor : BOOLEAN,
            subtotal : BOOLEAN, derived : BOOLEAN, cover : BOOLEAN]

IsFetched(e) == ~e.subtotal /\ ~e.derived
Declares(e) == e.tags # "none" \/ e.compose # "none"

\* what load_mapping raises for one entry, "none" if nothing; the checks look at
\* the fields in this order.  The conversion of tags to a tuple comes before any
\* of them: it raises TypeError for what is no sequence, and makes a plain
\* string the tuple of its letters, which no check can tell from a list.
EntryError(e) ==
  IF e.shape # "mapping" \/ ~e.fields THEN "MappingError"
  ELSE IF "number" \in {e.tags, e.compose} THEN "TypeError"
  ELSE IF \/ e.subtotal /\ e.derived
          \/ ~IsFetched(e) /\ Declares(e)
          \/ e.derived /\ e.key \notin KnownDerived
          \/ IsFetched(e) /\ (e.tags = "none" \/ ~e.unit)
          \/ e.anchor /\ (~IsFetched(e) \/ e.period # "duration")
          \/ e.cover /\ (e.period # "instant" \/ ~IsFetched(e) \/ e.anchor) THEN "MappingError"
  ELSE "none"

Anchors(entries) == {n \in DOMAIN entries : entries[n].anchor}
Rejected(entries) == {n \in DOMAIN entries : EntryError(entries[n]) # "none"}

\* mutant: the first anchor is taken, if there is one
LoadMappingWithAnyAnchor(file) ==
  IF file.form = "no_text" THEN "UnicodeDecodeError"
  ELSE IF file.form # "entries" THEN "MappingError"
  ELSE IF Rejected(file.entries) # {} THEN EntryError(file.entries[Min(Rejected(file.entries))])
  ELSE IF Anchors(file.entries) = {} THEN "MappingError"
  ELSE "none"
LoadMapping(file) ==
  IF file.form = "no_text" THEN "UnicodeDecodeError"
  ELSE IF file.form # "entries" THEN "MappingError"
  ELSE IF Rejected(file.entries) # {} THEN EntryError(file.entries[Min(Rejected(file.entries))])
  ELSE IF Cardinality(Anchors(file.entries)) # 1 THEN "MappingError"
  ELSE "none"

\* What build_financial_model and the constants of module Statements take for
\* granted of a mapping: one row makes the axis, it is a span, has a list of
\* tags and no components; every other row can be resolved, from tags that are
\* names and not letters, or is made by a formula or a derivation.
Usable(entries) ==
  /\ \E a \in DOMAIN entries :
       /\ Anchors(entries) = {a}
       /\ entries[a].period = "duration" /\ entries[a].tags = "list" /\ entries[a].unit
       /\ entries[a].compose = "none"
  /\ \A n \in DOMAIN entries :
       LET e == entries[n]
       IN  \/ /\ IsFetched(e) /\ e.tags = "list" /\ e.compose \in {"none", "list"} /\ e.unit
              /\ e.cover => e.period = "instant"
           \/ ~IsFetched(e) /\ ~Declares(e) /\ ~e.cover /\ (e.subtotal \/ e.key = "change_in_nwc")

\* The two slips that load_mapping lets through, put right: tags or components
\* that are one plain string become a list, an anchor's components are dropped.
PutRight(e) ==
  [e EXCEPT !.tags = IF @ = "text" THEN "list" ELSE @,
            !.compose = IF e.anchor THEN "none" ELSE IF @ = "text" THEN "list" ELSE @]
Quality(entries) ==
  IF Usable(entries) THEN "usable"
  ELSE IF Usable([n \in DOMAIN entries |-> PutRight(entries[n])]) THEN "slipped"
  ELSE "unusable"
=============================================================================
