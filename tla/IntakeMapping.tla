--------------------------- MODULE IntakeMapping ---------------------------
(***************************************************************************)
(* Mapping v2 (app/modules/connectors/intake_mapping): a file upload       *)
(* registers its header as a schema snapshot, a mapping is accepted        *)
(* against one snapshot, and the rows of later files, which may have       *)
(* another header, are projected one projection at a time.                 *)
(*                                                                         *)
(* A column is named by a sequence: <<"a">>, and <<"a", 2>> for "a #2".    *)
(* A cell is known by what reading it gives; transforms that can refuse a  *)
(* value are summed up by "checked".  Of the entity tables CUSTOMER and    *)
(* EVENT are kept, with one field of each kind: key, group of             *)
(* alternatives, plain and JSON field.                                     *)
(***************************************************************************)
EXTENDS Naturals, Sequences, FiniteSetsExt

CONSTANTS
    Headers,   \* raw headers of the files
    Mappings,  \* mappings that are sent
    NULL

ASSUME NullAssumption == NULL \notin Mappings

VARIABLES
    files,    \* columns of the files that were registered
    mapping,  \* the active mapping
    columns,  \* of the snapshot it was accepted against
    row,      \* the row that is projected, by column
    cache,    \* the derived keys of the row found so far
    verdict   \* of the projections of the row

vars == <<files, mapping, columns, row, cache, verdict>>

-----------------------------------------------------------------------------
(* Headers.                                                                *)

normalize_headers(header) ==
    [i \in DOMAIN header |->
        LET count == Cardinality({j \in 1..i : header[j] = header[i]}) IN
        IF count = 1 THEN header[i] ELSE Append(header[i], count)]

Names(header) == {normalize_headers(header)[i] : i \in DOMAIN header}

-----------------------------------------------------------------------------
(* Mappings.                                                               *)

Targets(p) == {p.fields[i].target : i \in DOMAIN p.fields}

ENTITY_FIELDS ==
    [CUSTOMER |-> {"source_customer_id", "email", "attributes"},
     EVENT    |-> {"source_event_id", "source_customer_id", "anonymous_id"}]

\* At least one of each group.
ENTITY_REQUIRED ==
    [CUSTOMER |-> {{"source_customer_id"}},
     EVENT    |-> {{"source_event_id"}, {"source_customer_id", "anonymous_id"}}]

ENTITY_KEY == [CUSTOMER |-> "source_customer_id", EVENT |-> "source_event_id"]
JSON_FIELDS == {"attributes"}

REQUIRED_FIELDS(entity) == (UNION ENTITY_REQUIRED[entity]) \cup {"source_customer_id"}

\* A coalesce has options, every other spec is its own.
Options(spec) ==
    IF spec.kind = "coalesce" THEN {spec.options[i] : i \in DOMAIN spec.options} ELSE {spec}

\* What the abstraction of the JSON keeps: lists are lists, and a field or an
\* option of a coalesce has one of the sources VALUE_SOURCES (checked by
\* _validate_field).
Kinds == {"constant", "derived", "coalesce", "pack", "template", "path"}

ASSUME MappingAssumption ==
    \A m \in Mappings :
        /\ Len(m.projections) \in Nat /\ DOMAIN m.projections = 1..Len(m.projections)
        /\ \A i \in DOMAIN m.projections : \A f \in DOMAIN m.projections[i].fields :
             \A o \in Options(m.projections[i].fields[f].spec) :
               /\ o.kind \in Kinds
               /\ o.kind = "template" => DOMAIN o.paths \subseteq Nat

ValidField(m, p, f) ==
    /\ f.spec.kind = "constant" => f.target # ENTITY_KEY[p.entity]
    /\ f.spec.kind = "pack" => f.target \in JSON_FIELDS
    /\ \A o \in Options(f.spec) :
         /\ o.kind # "coalesce"
         /\ o.kind = "derived" => o.key \in DOMAIN m.keys

validate_mapping(m) ==
    /\ \A k \in DOMAIN m.keys : m.keys[k] # <<>>
    /\ m.projections # <<>>
    /\ \A i, j \in DOMAIN m.projections :
         m.projections[i].name = m.projections[j].name => i = j
    /\ \A i \in DOMAIN m.projections :
         LET p == m.projections[i] IN
         /\ \A f \in DOMAIN p.fields : ValidField(m, p, p.fields[f])
         /\ Cardinality(Targets(p)) = Len(p.fields)
         /\ Targets(p) \subseteq ENTITY_FIELDS[p.entity]
         /\ \A group \in ENTITY_REQUIRED[p.entity] : Targets(p) \cap group # {}

\* An item of a pack is a constant or a column, with or without transforms
\* (the short form, a plain string, has none).
Columns(pack) == {item \in pack.items : item.kind = "path"}

\* What a spec other than a coalesce reads itself.
Paths(spec) ==
    CASE spec.kind = "path" -> {spec.path}
      [] spec.kind = "template" -> {spec.paths[i] : i \in DOMAIN spec.paths}
      [] spec.kind = "pack" -> {item.path : item \in Columns(spec)}
      [] OTHER -> {}

SpecPaths(spec) == UNION {Paths(o) : o \in Options(spec)}

Conditions(p) == p.all \cup p.any

referenced_paths(m) ==
    (UNION {{m.keys[k][i].path : i \in DOMAIN m.keys[k]} : k \in DOMAIN m.keys})
      \cup (UNION {Conditions(m.projections[i]) \ DOMAIN m.keys : i \in DOMAIN m.projections})
      \cup (UNION {UNION {SpecPaths(m.projections[i].fields[f].spec) :
                            f \in DOMAIN m.projections[i].fields} :
                   i \in DOMAIN m.projections})

-----------------------------------------------------------------------------
(* Values.  A transform reads a good cell, gives nothing for one that is   *)
(* unfit, and raises for one that is unreadable.                           *)

Cell == {"empty", "good", "unfit", "unreadable"}
Value == {"none", "value", "error"}

\* row.get: a column that the file lacks is empty.
CellOf(r, path) == IF path \in DOMAIN r THEN r[path] ELSE "empty"

Read(r, path, checked) ==
    LET cell == CellOf(r, path) IN
    CASE cell = "empty" -> "none"
      [] cell = "unfit" /\ checked -> "none"
      [] cell = "unreadable" /\ checked -> "error"
      [] OTHER -> "value"

\* Slip: an unreadable candidate is not passed over.
DerivedRaises(m, r, k) ==
    IF \E i \in DOMAIN m.keys[k] : Read(r, m.keys[k][i].path, m.keys[k][i].checked) = "error"
    THEN "error" ELSE "none"

\* The value of a derived key without the cache.
Derived(m, r, k) ==
    IF \E i \in DOMAIN m.keys[k] : Read(r, m.keys[k][i].path, m.keys[k][i].checked) = "value"
    THEN "value" ELSE "none"

\* The first part that is not a value decides, in the order of the template.
TemplateValue(r, spec) ==
    LET part(i) == Read(r, spec.paths[i], spec.checked)
        bad == {i \in DOMAIN spec.paths : part(i) # "value"}
    IN IF bad = {} THEN "value"
       ELSE part(Min(bad))

\* Unreadable items are dropped, within a coalesce they raise.
PackValue(r, spec, raises) ==
    LET values == {Read(r, item.path, item.checked) : item \in Columns(spec)}
                    \cup {"value" : item \in spec.items \ Columns(spec)} IN
    IF raises /\ "error" \in values THEN "error"
    ELSE IF "value" \in values THEN "value" ELSE "none"

\* keys: what the derived keys are taken to be.
OptionValue(r, keys, spec, raises) ==
    CASE spec.kind = "constant" -> "value"
      [] spec.kind = "derived" -> keys[spec.key]
      [] spec.kind = "pack" -> PackValue(r, spec, raises)
      [] spec.kind = "template" -> TemplateValue(r, spec)
      [] spec.kind = "path" -> Read(r, spec.path, spec.checked)

ValueOf(r, keys, spec) ==
    IF spec.kind # "coalesce" THEN OptionValue(r, keys, spec, FALSE)
    ELSE IF \E o \in Options(spec) : OptionValue(r, keys, o, TRUE) = "value"
         THEN "value" ELSE "none"

-----------------------------------------------------------------------------
(* Projecting.                                                             *)

Present(m, r, keys, ref) ==
    IF ref \in DOMAIN m.keys THEN keys[ref] = "value" ELSE CellOf(r, ref) # "empty"

Wanted(m, p, r, keys) ==
    /\ \A ref \in p.all : Present(m, r, keys, ref)
    /\ p.any = {} \/ \E ref \in p.any : Present(m, r, keys, ref)

\* Slip: optional fields reject like required ones.
RejectsAny(p, target, value) == value = "error"

\* An unreadable value of a field that is not required is dropped.
Rejects(p, target, value) == value = "error" /\ target \in REQUIRED_FIELDS(p.entity)

Verdict(m, i, r, keys) ==
    LET p == m.projections[i]
        value(f) == ValueOf(r, keys, p.fields[f].spec)
        filled == {p.fields[f].target : f \in {x \in DOMAIN p.fields : value(x) = "value"}}
    IN IF ~Wanted(m, p, r, keys) THEN "skipped"
       ELSE IF \/ \E f \in DOMAIN p.fields : Rejects(p, p.fields[f].target, value(f))
               \/ \E group \in ENTITY_REQUIRED[p.entity] : filled \cap group = {}
            THEN "rejected" ELSE "record"

\* The derived keys that projection p may look up.  The code skips those after
\* the one that decides; one more in the cache makes no difference.
KeysOf(m, p) ==
    (Conditions(p) \cap DOMAIN m.keys)
      \cup {o.key : o \in {x \in UNION {Options(p.fields[f].spec) : f \in DOMAIN p.fields} :
                             x.kind = "derived"}}

-----------------------------------------------------------------------------
TypeOK ==
    /\ files \subseteq SUBSET UNION {Names(h) : h \in Headers}
    /\ mapping \in Mappings \cup {NULL}
    /\ mapping # NULL => columns \in files
    /\ row = NULL \/ (DOMAIN row \in files /\ \A c \in DOMAIN row : row[c] \in Cell)
    /\ row # NULL => /\ cache \in [DOMAIN mapping.keys -> {"unset", "none", "value"}]
                     /\ verdict \in Seq({"skipped", "rejected", "record"})
                     /\ Len(verdict) <= Len(mapping.projections)

Init ==
    /\ files = {}
    /\ mapping = NULL
    /\ columns = {}
    /\ row = NULL
    /\ cache = <<>>
    /\ verdict = <<>>

\* create_upload_dataset.
Register(header) ==
    /\ <<>> \notin Names(header)
    /\ files' = files \cup {Names(header)}
    /\ UNCHANGED <<mapping, columns, row, cache, verdict>>

\* _validate_mapping_v2, which create_mapping and publish_mapping run.
Accepts(m, available) == validate_mapping(m) /\ referenced_paths(m) \subseteq available

\* A mapping is created against a snapshot and published.
Activate(snapshot) ==
    /\ mapping = NULL
    /\ \E m \in Mappings : Accepts(m, snapshot) /\ mapping' = m
    /\ columns' = snapshot
    /\ UNCHANGED <<files, row, cache, verdict>>

RowDone == row = NULL \/ Len(verdict) = Len(mapping.projections)

\* Slip: the keys found in the row before are kept.
BeginRowKeepsCache(file) ==
    /\ mapping # NULL
    /\ RowDone
    /\ row' \in [file -> Cell]
    /\ cache' = [k \in DOMAIN mapping.keys |-> IF row = NULL THEN "unset" ELSE cache[k]]
    /\ verdict' = <<>>
    /\ UNCHANGED <<files, mapping, columns>>

\* project: the next row, of a file with any header.
BeginRow(file) ==
    /\ mapping # NULL
    /\ RowDone
    /\ row' \in [file -> Cell]
    /\ cache' = [k \in DOMAIN mapping.keys |-> "unset"]
    /\ verdict' = <<>>
    /\ UNCHANGED <<files, mapping, columns>>

\* One pass of the loop over the projections.
Project ==
    /\ ~RowDone
    /\ LET i == Len(verdict) + 1
           used == KeysOf(mapping, mapping.projections[i])
           keys == [k \in DOMAIN mapping.keys |->
                      IF k \in used /\ cache[k] = "unset" THEN Derived(mapping, row, k)
                                                           ELSE cache[k]]
       IN /\ verdict' = Append(verdict, Verdict(mapping, i, row, keys))
          /\ cache' = keys
    /\ UNCHANGED <<files, mapping, columns, row>>

Next ==
    \/ \E h \in Headers : Register(h)
    \/ \E file \in files : Activate(file) \/ BeginRow(file)
    \/ Project

Spec == Init /\ [][Next]_vars

-----------------------------------------------------------------------------
\* The verdict on projection i of row r, from r alone.
VerdictOn(i, r) == Verdict(mapping, i, r, [k \in DOMAIN mapping.keys |-> Derived(mapping, r, k)])

\* The columns of the row that the mapping's snapshot has.
Known == [c \in DOMAIN row \cap columns |-> row[c]]

\* What becomes of a row follows from its own cells in the columns of the
\* snapshot the mapping was checked against: the keys of the row before, the
\* projections done so far and further columns of the file play no part
\* (service.py:166-179, the cache of engine.py:282).
VerdictIsOfRow == \A i \in DOMAIN verdict : verdict[i] = VerdictOn(i, Known)

\* The cells that projection p needs: for a condition, a key or a required field.
Needed(p) ==
    Conditions(p)
      \cup (UNION {{mapping.keys[k][i].path : i \in DOMAIN mapping.keys[k]} :
                   k \in KeysOf(mapping, p)})
      \cup (UNION {SpecPaths(p.fields[f].spec) :
                   f \in {x \in DOMAIN p.fields : p.fields[x].target \in REQUIRED_FIELDS(p.entity)}})

\* "One bad optional cell never loses a row" (engine.py:298): a row that is
\* rejected is rejected too if those of its unreadable cells that only
\* optional fields read are empty.
OptionalNeverLosesRow ==
    \A i \in DOMAIN verdict :
        LET needed == Needed(mapping.projections[i])
            blanked == [c \in DOMAIN row |-> IF row[c] = "unreadable" /\ c \notin needed
                                             THEN "empty" ELSE row[c]]
        IN verdict[i] = VerdictOn(i, blanked)
=============================================================================
