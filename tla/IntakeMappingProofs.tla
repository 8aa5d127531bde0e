------------------------- MODULE IntakeMappingProofs -------------------------
(***************************************************************************)
(* For any headers and any mappings: what the projections of a row depend  *)
(* on.  The core is VerdictAgrees, a frame property of the projector: two  *)
(* rows that agree on a few cells get the same verdict.                    *)
(***************************************************************************)
EXTENDS IntakeMapping, SequenceTheorems, WellFoundedInduction, TLAPS

\* An accepted mapping stays accepted, and rows come after it.
MappingFits ==
    /\ mapping # NULL => Accepts(mapping, columns)
    /\ row # NULL => mapping # NULL
    /\ row = NULL => verdict = <<>>

\* The cache has keys of this row only, ...
CacheIsOfRow ==
    row # NULL => \A k \in DOMAIN mapping.keys : cache[k] \in {"unset", Derived(mapping, row, k)}

\* ... so that every verdict is what the whole row gives without a cache.
VerdictIsExact == \A i \in DOMAIN verdict : verdict[i] = VerdictOn(i, row)

IInv ==
    /\ TypeOK
    /\ MappingFits
    /\ CacheIsOfRow
    /\ VerdictIsExact

-----------------------------------------------------------------------------
(* Two rows that agree on the cells that are read.                         *)

Agree(r, s, paths) == \A c \in paths : CellOf(r, c) = CellOf(s, c)

\* The paths of the candidates of a derived key.
CandidatePaths(m, k) == {m.keys[k][i].path : i \in DOMAIN m.keys[k]}

LEMMA ReadAgrees ==
    ASSUME NEW r, NEW s, NEW path, NEW checked, CellOf(r, path) = CellOf(s, path)
    PROVE  Read(r, path, checked) = Read(s, path, checked)
BY DEF Read

LEMMA DerivedAgrees ==
    ASSUME NEW m, NEW k, NEW r, NEW s, Agree(r, s, CandidatePaths(m, k))
    PROVE  Derived(m, r, k) = Derived(m, s, k)
<1>1. \A i \in DOMAIN m.keys[k] :
        Read(r, m.keys[k][i].path, m.keys[k][i].checked) = Read(s, m.keys[k][i].path, m.keys[k][i].checked)
  BY ReadAgrees DEF Agree, CandidatePaths
<1> QED
  BY <1>1 DEF Derived

LEMMA MinExists ==
    ASSUME NEW S, S \subseteq Nat, S # {}
    PROVE  Min(S) \in S
<1> DEFINE R == OpToRel(<, Nat)
<1>1. IsWellFoundedOn(R, Nat)
  BY NatLessThanWellFounded
<1>2. \A j, k \in Nat : j < k => <<j, k>> \in R
  BY DEF OpToRel
<1> HIDE DEF R
<1>3. PICK i \in S : \A j \in S : <<j, i>> \notin R
  BY <1>1, WFMin
<1>4. \A j \in S : ~(j < i)
  BY <1>2, <1>3
<1>5. \E x \in S : \A j \in S : x <= j
  BY <1>4
<1> QED
  BY <1>5 DEF Min

LEMMA TemplateAgrees ==
    ASSUME NEW r, NEW s, NEW spec, DOMAIN spec.paths \subseteq Nat,
           Agree(r, s, {spec.paths[i] : i \in DOMAIN spec.paths})
    PROVE  TemplateValue(r, spec) = TemplateValue(s, spec)
<1> DEFINE part(x, i) == Read(x, spec.paths[i], spec.checked)
           bad(x) == {i \in DOMAIN spec.paths : part(x, i) # "value"}
<1>1. \A i \in DOMAIN spec.paths : part(r, i) = part(s, i)
  BY ReadAgrees DEF Agree
<1>2. bad(r) = bad(s) /\ bad(r) \subseteq Nat
  BY <1>1
<1>3. CASE bad(r) = {}
  BY <1>2, <1>3 DEF TemplateValue
<1>4. CASE bad(r) # {}
  <2>1. Min(bad(r)) \in DOMAIN spec.paths
    BY <1>2, <1>4, MinExists
  <2>2. TemplateValue(r, spec) = part(r, Min(bad(r))) /\ TemplateValue(s, spec) = part(s, Min(bad(s)))
    BY <1>2, <1>4 DEF TemplateValue
  <2> HIDE DEF part, bad
  <2> QED
    BY <1>1, <1>2, <2>1, <2>2
<1> QED
  BY <1>3, <1>4

LEMMA PackAgrees ==
    ASSUME NEW r, NEW s, NEW spec, NEW raises, Agree(r, s, {item.path : item \in Columns(spec)})
    PROVE  PackValue(r, spec, raises) = PackValue(s, spec, raises)
<1>1. \A item \in Columns(spec) : Read(r, item.path, item.checked) = Read(s, item.path, item.checked)
  BY ReadAgrees DEF Agree
<1>2. {Read(r, item.path, item.checked) : item \in Columns(spec)}
        = {Read(s, item.path, item.checked) : item \in Columns(spec)}
  BY <1>1
<1> QED
  BY <1>2 DEF PackValue

\* A spec of any kind but coalesce, K and L being what the keys are taken to be.
LEMMA OptionAgrees ==
    ASSUME NEW r, NEW s, NEW K, NEW L, NEW spec, NEW raises,
           spec.kind \in Kinds \ {"coalesce"},
           spec.kind = "template" => DOMAIN spec.paths \subseteq Nat,
           spec.kind = "derived" => K[spec.key] = L[spec.key],
           Agree(r, s, Paths(spec))
    PROVE  OptionValue(r, K, spec, raises) = OptionValue(s, L, spec, raises)
<1>1. CASE spec.kind = "constant"
  BY <1>1 DEF OptionValue
<1>2. CASE spec.kind = "derived"
  BY <1>2 DEF OptionValue
<1>3. CASE spec.kind = "pack"
  BY <1>3, PackAgrees DEF OptionValue, Paths
<1>4. CASE spec.kind = "template"
  BY <1>4, TemplateAgrees DEF OptionValue, Paths
<1>5. CASE spec.kind = "path"
  BY <1>5, ReadAgrees DEF OptionValue, Paths, Agree
<1> QED
  BY <1>1, <1>2, <1>3, <1>4, <1>5 DEF Kinds

LEMMA ValueAgrees ==
    ASSUME NEW r, NEW s, NEW K, NEW L, NEW spec,
           \A o \in Options(spec) : /\ o.kind \in Kinds \ {"coalesce"}
                                    /\ o.kind = "template" => DOMAIN o.paths \subseteq Nat
                                    /\ o.kind = "derived" => K[o.key] = L[o.key],
           Agree(r, s, SpecPaths(spec))
    PROVE  ValueOf(r, K, spec) = ValueOf(s, L, spec)
<1>1. \A o \in Options(spec) : Agree(r, s, Paths(o))
  BY DEF Agree, SpecPaths
<1>2. \A o \in Options(spec) : \A raises \in BOOLEAN :
        OptionValue(r, K, o, raises) = OptionValue(s, L, o, raises)
  BY <1>1, OptionAgrees
<1>3. CASE spec.kind # "coalesce"
  <2>1. spec \in Options(spec)
    BY <1>3 DEF Options
  <2> QED
    BY <1>2, <1>3, <2>1 DEF ValueOf
<1>4. CASE spec.kind = "coalesce"
  BY <1>2, <1>4 DEF ValueOf
<1> QED
  BY <1>3, <1>4

LEMMA WantedAgrees ==
    ASSUME NEW m, NEW p, NEW r, NEW s, NEW K, NEW L,
           \A ref \in Conditions(p) \cap DOMAIN m.keys : K[ref] = L[ref],
           Agree(r, s, Conditions(p) \ DOMAIN m.keys)
    PROVE  Wanted(m, p, r, K) <=> Wanted(m, p, s, L)
<1>1. \A ref \in Conditions(p) : Present(m, r, K, ref) <=> Present(m, s, L, ref)
  BY DEF Present, Agree
<1> QED
  BY <1>1 DEF Wanted, Conditions

-----------------------------------------------------------------------------
(* An accepted mapping.                                                    *)

\* A projection looks up keys the mapping has, and an option has one source.
LEMMA AcceptedFields ==
    ASSUME NEW m \in Mappings, validate_mapping(m), NEW i \in DOMAIN m.projections
    PROVE  LET p == m.projections[i]
           IN /\ KeysOf(m, p) \subseteq DOMAIN m.keys
              /\ \A f \in DOMAIN p.fields : \A o \in Options(p.fields[f].spec) :
                   /\ o.kind \in Kinds \ {"coalesce"}
                   /\ o.kind = "template" => DOMAIN o.paths \subseteq Nat
                   /\ o.kind = "derived" => o.key \in KeysOf(m, p)
<1> DEFINE p == m.projections[i]
<1>1. \A f \in DOMAIN p.fields : ValidField(m, p, p.fields[f])
  BY DEF validate_mapping
<1>2. \A f \in DOMAIN p.fields : \A o \in Options(p.fields[f].spec) :
         /\ o.kind \in Kinds
         /\ o.kind = "template" => DOMAIN o.paths \subseteq Nat
  BY MappingAssumption
<1>3. \A f \in DOMAIN p.fields : \A o \in Options(p.fields[f].spec) :
         o.kind # "coalesce" /\ (o.kind = "derived" => o.key \in DOMAIN m.keys)
  BY <1>1 DEF ValidField
<1> HIDE DEF p
<1>4. KeysOf(m, p) \subseteq DOMAIN m.keys
  BY <1>3 DEF KeysOf
<1>5. \A f \in DOMAIN p.fields : \A o \in Options(p.fields[f].spec) :
         o.kind = "derived" => o.key \in KeysOf(m, p)
  BY DEF KeysOf
<1> QED
  BY <1>2, <1>3, <1>4, <1>5 DEF p

\* All it reads is referenced, so that the snapshot has it.
LEMMA AcceptedPaths ==
    ASSUME NEW m, NEW i \in DOMAIN m.projections
    PROVE  LET p == m.projections[i]
           IN /\ \A k \in DOMAIN m.keys : CandidatePaths(m, k) \subseteq referenced_paths(m)
              /\ Conditions(p) \ DOMAIN m.keys \subseteq referenced_paths(m)
              /\ \A f \in DOMAIN p.fields : SpecPaths(p.fields[f].spec) \subseteq referenced_paths(m)
<1> DEFINE p == m.projections[i]
<1>1. \A k \in DOMAIN m.keys : CandidatePaths(m, k) \subseteq referenced_paths(m)
  BY DEF CandidatePaths, referenced_paths
<1>2. Conditions(p) \ DOMAIN m.keys \subseteq referenced_paths(m)
  BY DEF referenced_paths
<1>3. ASSUME NEW f \in DOMAIN p.fields
      PROVE  SpecPaths(p.fields[f].spec) \subseteq referenced_paths(m)
  <2> DEFINE read(x) == UNION {SpecPaths(m.projections[x].fields[y].spec) : y \in DOMAIN m.projections[x].fields}
  <2>1. SpecPaths(p.fields[f].spec) \subseteq read(i)
    OBVIOUS
  <2>2. UNION {read(x) : x \in DOMAIN m.projections} \subseteq referenced_paths(m)
    BY DEF referenced_paths
  <2> HIDE DEF read
  <2> QED
    BY <2>1, <2>2
<1> QED
  BY <1>1, <1>2, <1>3

\* The verdict of a projection is settled by its keys, by the columns of its
\* conditions and by what its required fields read.
LEMMA VerdictAgrees ==
    ASSUME NEW m \in Mappings, validate_mapping(m), NEW i \in DOMAIN m.projections,
           NEW r, NEW s, NEW K, NEW L,
           \A k \in KeysOf(m, m.projections[i]) : K[k] = L[k],
           Agree(r, s, Conditions(m.projections[i]) \ DOMAIN m.keys),
           \A f \in DOMAIN m.projections[i].fields :
             m.projections[i].fields[f].target \in REQUIRED_FIELDS(m.projections[i].entity)
               => Agree(r, s, SpecPaths(m.projections[i].fields[f].spec))
    PROVE  Verdict(m, i, r, K) = Verdict(m, i, s, L)
<1> DEFINE p == m.projections[i]
           required == REQUIRED_FIELDS(p.entity)
           value(x, keys, f) == ValueOf(x, keys, p.fields[f].spec)
           filled(x, keys) == {p.fields[f].target : f \in {y \in DOMAIN p.fields : value(x, keys, y) = "value"}}
           rejects(x, keys) == \E f \in DOMAIN p.fields : Rejects(p, p.fields[f].target, value(x, keys, f))
           lacks(x, keys) == \E group \in ENTITY_REQUIRED[p.entity] : filled(x, keys) \cap group = {}
<1>1. Wanted(m, p, r, K) <=> Wanted(m, p, s, L)
  <2>1. \A ref \in Conditions(p) \cap DOMAIN m.keys : K[ref] = L[ref]
    BY DEF KeysOf
  <2> QED
    BY <2>1, WantedAgrees
<1>2. \A f \in DOMAIN p.fields : p.fields[f].target \in required => value(r, K, f) = value(s, L, f)
  <2> SUFFICES ASSUME NEW f \in DOMAIN p.fields, p.fields[f].target \in required
               PROVE  value(r, K, f) = value(s, L, f)
    OBVIOUS
  <2>1. Agree(r, s, SpecPaths(p.fields[f].spec))
    OBVIOUS
  <2>2. \A o \in Options(p.fields[f].spec) :
           /\ o.kind \in Kinds \ {"coalesce"}
           /\ o.kind = "template" => DOMAIN o.paths \subseteq Nat
           /\ o.kind = "derived" => K[o.key] = L[o.key]
    BY AcceptedFields
  <2> QED
    BY <2>1, <2>2, ValueAgrees
<1> HIDE DEF value
<1>3. rejects(r, K) <=> rejects(s, L)
  BY <1>2 DEF Rejects
<1>4. \A group \in ENTITY_REQUIRED[p.entity] : group \subseteq required
  BY DEF REQUIRED_FIELDS
<1>5. ASSUME NEW group \in ENTITY_REQUIRED[p.entity]
      PROVE  filled(r, K) \cap group = {} <=> filled(s, L) \cap group = {}
  <2>1. filled(r, K) \cap group = filled(s, L) \cap group
    BY <1>2, <1>4
  <2> QED
    BY <2>1
<1>6. lacks(r, K) <=> lacks(s, L)
  BY <1>5
<1>7. /\ Verdict(m, i, r, K) = IF ~Wanted(m, p, r, K) THEN "skipped"
                               ELSE IF rejects(r, K) \/ lacks(r, K) THEN "rejected" ELSE "record"
      /\ Verdict(m, i, s, L) = IF ~Wanted(m, p, s, L) THEN "skipped"
                               ELSE IF rejects(s, L) \/ lacks(s, L) THEN "rejected" ELSE "record"
  BY DEF Verdict, value
<1> HIDE DEF rejects, lacks
<1> QED
  BY <1>1, <1>3, <1>6, <1>7

-----------------------------------------------------------------------------
(* The invariant.                                                          *)

LEMMA InitHolds == Init => IInv
BY EmptySeq DEF Init, IInv, TypeOK, MappingFits, CacheIsOfRow, VerdictIsExact

\* Registering a file, and accepting the mapping before there are rows.
LEMMA SetupInv ==
    ASSUME IInv,
           (\E h \in Headers : Register(h)) \/ (\E file \in files : Activate(file))
    PROVE  IInv'
<1>1. UNCHANGED <<row, cache, verdict>>
  BY DEF Register, Activate
<1>2. CASE \E h \in Headers : Register(h)
  <2>1. PICK h \in Headers : Register(h)
    BY <1>2
  <2>2. files' = files \cup {Names(h)} /\ mapping' = mapping /\ columns' = columns
    BY <2>1 DEF Register
  <2>3. files' \subseteq SUBSET UNION {Names(x) : x \in Headers}
    BY <2>2 DEF IInv, TypeOK
  <2>4. TypeOK'
    BY <1>1, <2>2, <2>3 DEF IInv, TypeOK
  <2> QED
    BY <1>1, <2>2, <2>4 DEF IInv, MappingFits, CacheIsOfRow, VerdictIsExact, VerdictOn
<1>3. CASE \E file \in files : Activate(file)
  <2>1. PICK file \in files : Activate(file)
    BY <1>3
  <2>2. /\ mapping = NULL /\ mapping' \in Mappings /\ Accepts(mapping', columns')
        /\ columns' \in files /\ files' = files
    BY <2>1 DEF Activate
  <2>3. row = NULL /\ verdict = <<>>
    BY <2>2 DEF IInv, MappingFits
  <2>4. TypeOK' /\ MappingFits'
    BY <1>1, <2>2, <2>3 DEF IInv, TypeOK, MappingFits
  <2> QED
    BY <1>1, <2>3, <2>4 DEF IInv, CacheIsOfRow, VerdictIsExact
<1> QED
  BY <1>2, <1>3

LEMMA BeginRowInv ==
    ASSUME IInv, NEW file \in files, BeginRow(file)
    PROVE  IInv'
<1>1. /\ mapping # NULL /\ row' \in [file -> Cell] /\ verdict' = <<>>
      /\ cache' = [k \in DOMAIN mapping.keys |-> "unset"]
      /\ UNCHANGED <<files, mapping, columns>>
  BY DEF BeginRow
<1>2. /\ verdict' \in Seq({"skipped", "rejected", "record"})
      /\ Len(verdict') <= Len(mapping.projections)
  BY <1>1, EmptySeq, MappingAssumption DEF IInv, TypeOK
<1>3. TypeOK'
  BY <1>1, <1>2 DEF IInv, TypeOK
<1> QED
  BY <1>1, <1>3 DEF IInv, MappingFits, CacheIsOfRow, VerdictIsExact

\* The projection that is next is one of the mapping, and looks its keys up.
LEMMA ProjectInv ==
    ASSUME IInv, Project
    PROVE  IInv'
<1> DEFINE i == Len(verdict) + 1
           used == KeysOf(mapping, mapping.projections[i])
           keys == [k \in DOMAIN mapping.keys |->
                      IF k \in used /\ cache[k] = "unset" THEN Derived(mapping, row, k) ELSE cache[k]]
           exact == [k \in DOMAIN mapping.keys |-> Derived(mapping, row, k)]
           new == Verdict(mapping, i, row, keys)
<1>1. /\ row # NULL /\ mapping \in Mappings /\ validate_mapping(mapping)
      /\ cache \in [DOMAIN mapping.keys -> {"unset", "none", "value"}]
      /\ verdict \in Seq({"skipped", "rejected", "record"})
      /\ Len(verdict) \in Nat /\ Len(verdict) < Len(mapping.projections)
  BY MappingAssumption DEF IInv, TypeOK, MappingFits, Accepts, Project, RowDone
<1>2. i \in DOMAIN mapping.projections
  BY <1>1, MappingAssumption
<1>3. /\ verdict' = Append(verdict, new) /\ cache' = keys
      /\ UNCHANGED <<files, mapping, columns, row>>
  BY DEF Project
<1>4. \A k \in DOMAIN mapping.keys : Derived(mapping, row, k) \in {"none", "value"}
  BY DEF Derived
<1>5. \A k \in DOMAIN mapping.keys : cache[k] \in {"unset", Derived(mapping, row, k)}
  BY <1>1 DEF IInv, CacheIsOfRow
<1>6. /\ keys \in [DOMAIN mapping.keys -> {"unset", "none", "value"}]
      /\ \A k \in DOMAIN mapping.keys : keys[k] \in {"unset", Derived(mapping, row, k)}
  BY <1>1, <1>4, <1>5
<1>7. new = Verdict(mapping, i, row, exact)
  <2>1. used \subseteq DOMAIN mapping.keys
    BY <1>1, <1>2, AcceptedFields
  <2>2. \A k \in used : keys[k] = exact[k]
    BY <1>5, <2>1
  <2>3. /\ Agree(row, row, Conditions(mapping.projections[i]) \ DOMAIN mapping.keys)
        /\ \A f \in DOMAIN mapping.projections[i].fields :
             Agree(row, row, SpecPaths(mapping.projections[i].fields[f].spec))
    BY DEF Agree
  <2> HIDE DEF i, keys, exact
  <2> HIDE DEF new
  <2>4. Verdict(mapping, i, row, keys) = Verdict(mapping, i, row, exact)
    BY <1>1, <1>2, <2>2, <2>3, VerdictAgrees
  <2> QED
    BY <2>4 DEF new
<1>8. new \in {"skipped", "rejected", "record"}
  BY DEF Verdict
<1> HIDE DEF keys, exact, new
<1>9. /\ verdict' \in Seq({"skipped", "rejected", "record"})
      /\ Len(verdict') = i
      /\ \A j \in 1..Len(verdict) : verdict'[j] = verdict[j]
      /\ verdict'[i] = new
  BY <1>1, <1>3, <1>8, AppendProperties
<1>10. TypeOK'
  <2>1. i <= Len(mapping.projections)
    BY <1>1, MappingAssumption
  <2> HIDE DEF i
  <2> QED
    BY <1>1, <1>3, <1>6, <1>9, <2>1 DEF IInv, TypeOK
<1>11. MappingFits'
  BY <1>1, <1>3 DEF IInv, MappingFits
<1>12. CacheIsOfRow'
  BY <1>3, <1>6 DEF CacheIsOfRow
<1>13. VerdictIsExact'
  <2> SUFFICES ASSUME NEW j \in DOMAIN verdict'
               PROVE  verdict'[j] = Verdict(mapping, j, row, exact)
    BY <1>3 DEF VerdictIsExact, VerdictOn, exact
  <2>1. j \in 1..i
    BY <1>9
  <2>2. CASE j = i
    BY <1>7, <1>9, <2>2
  <2>3. CASE j # i
    <3>1. j \in 1..Len(verdict)
      BY <1>1, <2>1, <2>3
    <3> QED
      BY <1>1, <1>9, <3>1 DEF IInv, VerdictIsExact, VerdictOn, exact
  <2> QED
    BY <2>2, <2>3
<1> QED
  BY <1>10, <1>11, <1>12, <1>13 DEF IInv

LEMMA InductiveStep == IInv /\ [Next]_vars => IInv'
<1> SUFFICES ASSUME IInv, [Next]_vars PROVE IInv'
  OBVIOUS
<1>1. CASE (\E h \in Headers : Register(h)) \/ (\E file \in files : Activate(file))
  BY <1>1, SetupInv
<1>2. ASSUME NEW file \in files, BeginRow(file)
      PROVE  IInv'
  BY <1>2, BeginRowInv
<1>3. CASE Project
  BY <1>3, ProjectInv
<1>4. CASE UNCHANGED vars
  BY <1>4 DEF IInv, TypeOK, MappingFits, CacheIsOfRow, VerdictIsExact, VerdictOn, vars
<1> QED
  BY <1>1, <1>2, <1>3, <1>4 DEF Next

LEMMA Invariance == Spec => []IInv
<1> QED
  BY InitHolds, InductiveStep, PTL DEF Spec

\* Every verdict belongs to a projection of an accepted mapping.
LEMMA VerdictTypes ==
    ASSUME IInv, NEW i \in DOMAIN verdict
    PROVE  /\ row # NULL /\ mapping \in Mappings /\ i \in DOMAIN mapping.projections
           /\ validate_mapping(mapping) /\ referenced_paths(mapping) \subseteq columns
<1>1. row # NULL
  BY EmptySeq DEF IInv, MappingFits
<1>2. /\ mapping \in Mappings /\ validate_mapping(mapping) /\ referenced_paths(mapping) \subseteq columns
      /\ verdict \in Seq({"skipped", "rejected", "record"})
      /\ Len(verdict) <= Len(mapping.projections)
  BY <1>1 DEF IInv, TypeOK, MappingFits, Accepts
<1>3. i \in 1..Len(verdict) /\ Len(verdict) \in Nat
  BY <1>2
<1>4. i \in DOMAIN mapping.projections
  BY <1>2, <1>3, MappingAssumption
<1> QED
  BY <1>1, <1>2, <1>4

\* A row that agrees with the row on what the verdict depends on gets it too.
LEMMA SameVerdict ==
    ASSUME IInv, NEW i \in DOMAIN verdict, NEW s,
           \A k \in KeysOf(mapping, mapping.projections[i]) : Agree(row, s, CandidatePaths(mapping, k)),
           Agree(row, s, Conditions(mapping.projections[i]) \ DOMAIN mapping.keys),
           \A f \in DOMAIN mapping.projections[i].fields :
             mapping.projections[i].fields[f].target \in REQUIRED_FIELDS(mapping.projections[i].entity)
               => Agree(row, s, SpecPaths(mapping.projections[i].fields[f].spec))
    PROVE  verdict[i] = VerdictOn(i, s)
<1> DEFINE K == [k \in DOMAIN mapping.keys |-> Derived(mapping, row, k)]
           L == [k \in DOMAIN mapping.keys |-> Derived(mapping, s, k)]
<1>1. mapping \in Mappings /\ validate_mapping(mapping) /\ i \in DOMAIN mapping.projections
  BY VerdictTypes
<1>2. KeysOf(mapping, mapping.projections[i]) \subseteq DOMAIN mapping.keys
  BY <1>1, AcceptedFields
<1>3. \A k \in KeysOf(mapping, mapping.projections[i]) : K[k] = L[k]
  BY <1>2, DerivedAgrees
<1>4. verdict[i] = Verdict(mapping, i, row, K) /\ VerdictOn(i, s) = Verdict(mapping, i, s, L)
  BY DEF IInv, VerdictIsExact, VerdictOn
<1> HIDE DEF K, L
<1> QED
  BY <1>1, <1>3, <1>4, VerdictAgrees

-----------------------------------------------------------------------------
\* The sessions of uploads, mappings and rows keep their types; above all, the
\* projector never runs past the projections of the mapping.
THEOREM TypeCorrect == Spec => []TypeOK
<1>1. IInv => TypeOK
  BY DEF IInv
<1> QED
  BY <1>1, Invariance, PTL

\* The verdict on a row follows from its cells in the columns of the snapshot,
\* for every mapping the service accepts and every file.
THEOREM VerdictsAreOfTheRow == Spec => []VerdictIsOfRow
<1>1. ASSUME IInv PROVE VerdictIsOfRow
  <2> SUFFICES ASSUME NEW i \in DOMAIN verdict
               PROVE  verdict[i] = VerdictOn(i, Known)
    BY DEF VerdictIsOfRow
  <2> DEFINE p == mapping.projections[i]
  <2>1. /\ mapping \in Mappings /\ i \in DOMAIN mapping.projections
        /\ validate_mapping(mapping) /\ referenced_paths(mapping) \subseteq columns
    BY <1>1, VerdictTypes
  <2>2. \A c \in columns : CellOf(row, c) = CellOf(Known, c)
    BY DEF CellOf, Known
  <2>3. \A paths : paths \subseteq referenced_paths(mapping) => Agree(row, Known, paths)
    BY <2>1, <2>2 DEF Agree
  <2>4. \A k \in KeysOf(mapping, p) : Agree(row, Known, CandidatePaths(mapping, k))
    <3>1. KeysOf(mapping, p) \subseteq DOMAIN mapping.keys
      BY <2>1, AcceptedFields
    <3> QED
      BY <2>1, <2>3, <3>1, AcceptedPaths
  <2>5. /\ Agree(row, Known, Conditions(p) \ DOMAIN mapping.keys)
        /\ \A f \in DOMAIN p.fields : Agree(row, Known, SpecPaths(p.fields[f].spec))
    BY <2>1, <2>3, AcceptedPaths
  <2> QED
    BY <1>1, <2>4, <2>5, SameVerdict
<1> QED
  BY <1>1, Invariance, PTL

\* An unreadable cell that only optional fields read never loses a row, for
\* every mapping the service accepts.
THEOREM OptionalsNeverLoseRows == Spec => []OptionalNeverLosesRow
<1>1. ASSUME IInv PROVE OptionalNeverLosesRow
  <2> SUFFICES ASSUME NEW i \in DOMAIN verdict
               PROVE  LET needed == Needed(mapping.projections[i])
                          blanked == [c \in DOMAIN row |-> IF row[c] = "unreadable" /\ c \notin needed
                                                           THEN "empty" ELSE row[c]]
                      IN verdict[i] = VerdictOn(i, blanked)
    BY DEF OptionalNeverLosesRow
  <2> DEFINE p == mapping.projections[i]
             needed == Needed(p)
             blanked == [c \in DOMAIN row |-> IF row[c] = "unreadable" /\ c \notin needed
                                              THEN "empty" ELSE row[c]]
  <2>1. \A paths : paths \subseteq needed => Agree(row, blanked, paths)
    BY DEF Agree, CellOf
  <2> HIDE DEF blanked
  <2>2. \A k \in KeysOf(mapping, p) : CandidatePaths(mapping, k) \subseteq needed
    BY DEF Needed, CandidatePaths
  <2>3. Conditions(p) \ DOMAIN mapping.keys \subseteq needed
    BY DEF Needed
  <2>4. \A f \in DOMAIN p.fields : p.fields[f].target \in REQUIRED_FIELDS(p.entity) =>
          SpecPaths(p.fields[f].spec) \subseteq needed
    BY DEF Needed
  <2> HIDE DEF needed
  <2>5. verdict[i] = VerdictOn(i, blanked)
    BY <1>1, <2>1, <2>2, <2>3, <2>4, SameVerdict
  <2> QED
    BY <2>5 DEF blanked, needed
<1> QED
  BY <1>1, Invariance, PTL
=============================================================================
