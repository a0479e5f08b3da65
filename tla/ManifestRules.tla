--------------------------- MODULE ManifestRules ---------------------------
(***************************************************************************)
(* A snapshot manifest as the helper CLI judges it before it ships         *)
(* (tools/manifest.go, `offloader manifest validate`) and as the container *)
(* judges it when it refreshes (Offloader.Manifest.load).  A manifest is   *)
(* JSON: the values of module Yaml without dates.                          *)
(***************************************************************************)
EXTENDS Yaml

CONSTANTS
  SnapshotIds,   \* the strings that match ^[A-Za-z0-9:_.\-]{1,200}$
  Timestamps,    \* the strings that are ISO-8601 timestamps
  RemotePaths,   \* the strings that are object-store or web addresses
  LocalFiles     \* the local files there are: path -> the names in the header line

ASSUME ManifestAssumption == Absent \notin SnapshotIds

Strings == {"dataset_id", "snapshot_id", "created_at", "watermark", "producer",
            "upstream_run_id", "data_quality_status", "compatibility_policy"}
Counts == {"row_count", "size_bytes", "schema_version"}
Refs == {"partition_columns", "sort_columns"}
Lists == Refs \cup {"schema", "files"}
Qualities == {"passed", "warning", "failed"}
Policies == {"additive_only", "exact"}
Formats == {"csv", "parquet"}

-----------------------------------------------------------------------------
(* The helper.  It decodes into a typed struct: an absent field and null   *)
(* are both the empty value, and a value of another type is invalid JSON.  *)

Text(m, k) == IF IsStr(At(m, k)) THEN At(m, k)[2] ELSE ""

Decodes(m) ==
  LET text(v) == v = Nil \/ IsStr(v)
      each(k, P(_)) == \A i \in DOMAIN Items(At(m, k)) : P(Items(At(m, k))[i])
      object(v, fields) == v = Nil \/ (IsMap(v) /\ \A f \in fields : text(At(v, f)))
      column(v) == object(v, {"name", "type"})
      file(v) == object(v, {"path", "format"})
  IN  /\ m = Nil \/ IsMap(m)
      /\ \A k \in Strings : text(At(m, k))
      /\ \A k \in Counts : LET v == At(m, k)
                           IN  v = Nil \/ (v[1] = "int" /\ v[2] \in MinInt64 .. MaxInt64)
      /\ \A k \in Lists : At(m, k) = Nil \/ IsList(At(m, k))
      /\ \A k \in Refs : each(k, text)
      /\ each("schema", column)
      /\ each("files", file)

CheckTimestamp(m, k) ==
  IF Text(m, k) = ""
  THEN {<<Top, 0, k, "missing">>}
  ELSE Flag(Text(m, k) \notin Timestamps, Top, 0, k, "invalid_timestamp")

CheckManifestSchema(cols) ==
  IF cols = <<>>
  THEN {<<Top, 0, "schema", "missing">>}
  ELSE (UNION {Flag(Text(cols[i], "name") \notin SafeColumns, "schema", i, "name", "unsafe_identifier")
               \cup Flag(Text(cols[i], "type") \notin ColumnTypes, "schema", i, "type", "unsupported_type") :
                 i \in DOMAIN cols})
       \cup Flag(\E i, j \in DOMAIN cols : i # j /\ Text(cols[i], "name") = Text(cols[j], "name"),
                 Top, 0, "schema", "duplicate_column")

CheckFiles(files) ==
  IF files = <<>>
  THEN {<<Top, 0, "files", "missing">>}
  ELSE UNION {LET path == Text(files[i], "path")
              IN  Flag(Text(files[i], "format") \notin Formats, "files", i, "format", "unsupported_type")
                  \cup Flag(path = "", "files", i, "path", "missing")
                  \cup Flag(path \notin RemotePaths \cup DOMAIN LocalFiles \cup {""},
                            "files", i, "path", "missing_file") : i \in DOMAIN files}

\* Mutant: the lists need only be there.
CheckRefsPresent(m, k) == Flag(At(m, k) = Nil, Top, 0, k, "missing")

\* A null in the list is the empty string, which no column is called.
CheckColumnRefs(m, k) ==
  LET cols == Items(At(m, "schema"))
      refs == Items(At(m, k))
      named(v) == \E i \in DOMAIN cols : Text(cols[i], "name") = (IF IsStr(v) THEN v[2] ELSE "")
  IN  Flag(At(m, k) = Nil, Top, 0, k, "missing")
      \cup Flag(\E i \in DOMAIN refs : ~named(refs[i]), Top, 0, k, "unknown_column")

ValidateManifest(m) ==
  CASE m = Missing -> {<<Top, 0, Self, "missing_file">>}
    [] m # Missing /\ ~Decodes(m) -> {<<Top, 0, Self, "invalid_json">>}
    [] OTHER ->
         Flag(Text(m, "dataset_id") \notin SafeIdents, Top, 0, "dataset_id", "unsafe_identifier")
         \cup Flag(Text(m, "snapshot_id") \notin SnapshotIds, Top, 0, "snapshot_id", "invalid_snapshot_id")
         \cup CheckTimestamp(m, "created_at")
         \cup CheckTimestamp(m, "watermark")
         \cup CheckManifestSchema(Items(At(m, "schema")))
         \cup (UNION {CheckColumnRefs(m, k) : k \in Refs})
         \cup CheckFiles(Items(At(m, "files")))
         \cup (UNION {Flag(Text(m, k) = "", Top, 0, k, "missing") : k \in {"producer", "upstream_run_id"}})
         \cup (UNION {Flag(At(m, k) = Nil, Top, 0, k, "missing") : k \in Counts})
         \cup Flag(Text(m, "data_quality_status") \notin Qualities,
                   Top, 0, "data_quality_status", "invalid_value")
         \cup Flag(Text(m, "compatibility_policy") \notin Policies,
                   Top, 0, "compatibility_policy", "invalid_compatibility_policy")

-----------------------------------------------------------------------------
(* The container.  A required field must be there, null or not; most of    *)
(* the checks that follow let null through.                                *)

Entry(v, Rules(_)) == IF IsMap(v) THEN Rules(v) ELSE {"invalid_type"}

OneColumn(c) ==
  {code \in {"unsafe_identifier", "unsupported_type"} :
     IF code = "unsafe_identifier" THEN ~SafeColumn(At(c, "name"))
     ELSE ~IsOneOf(At(c, "type"), ColumnTypes)}

\* A local CSV must have the declared columns, in any order.
SchemaDataMismatch(f, declared) ==
  /\ At(f, "format") = Str("csv")
  /\ LocalFiles[At(f, "path")[2]] # declared

OneFile(f, declared) ==
  LET path == At(f, "path")
      remote == IsOneOf(path, RemotePaths)
      exists == IsOneOf(path, DOMAIN LocalFiles)
  IN  (IF IsOneOf(At(f, "format"), Formats) THEN {} ELSE {"unsupported_type"})
      \cup CASE ~IsNonEmpty(path) -> {"missing"}
             [] IsNonEmpty(path) /\ ~remote /\ ~exists -> {"missing_file"}
             [] IsNonEmpty(path) /\ exists /\ ~remote ->
                  IF SchemaDataMismatch(f, declared) THEN {"schema_data_mismatch"} ELSE {}
             [] OTHER -> {}

\* The names a column reference may use: those of the objects in the schema.
ColumnRef(v, cols) ==
  CASE v = Nil -> {}
    [] IsList(v) -> IF \E i \in DOMAIN v[2] : ~\E j \in DOMAIN cols :
                         IsMap(cols[j]) /\ At(cols[j], "name") = v[2][i]
                    THEN {"unknown_column"} ELSE {}
    [] OTHER -> {"invalid_type"}

AtLeast(v, n) == v = Nil \/ (v[1] = "int" /\ v[2] >= n)

\* The errors of a manifest, as <<field, code>>.
LoadManifest(m) ==
  LET cols == Items(At(m, "schema"))
      names == Names(cols, "name")
      declared == {names[i][2] : i \in DOMAIN names}
      file(f) == OneFile(f, declared)
      files == Items(At(m, "files"))
      bad(cond, k, code) == IF cond THEN {<<k, code>>} ELSE {}
      optional(k, allowed) == At(m, k) = Nil \/ IsOneOf(At(m, k), allowed)
  IN  IF m = Missing THEN {<<"", "missing_file">>}
      ELSE IF m \in {Unreadable, Empty} THEN {<<"", "invalid_json">>}
      ELSE IF ~IsMap(m) THEN {<<"", "invalid_type">>}
      ELSE {<<k, "missing">> : k \in (Strings \cup Counts \cup Lists) \ DOMAIN m[2]}
           \cup bad(~SafeIdent(At(m, "dataset_id")), "dataset_id", "unsafe_identifier")
           \cup bad(~IsOneOf(At(m, "snapshot_id"), SnapshotIds), "snapshot_id", "invalid_snapshot_id")
           \cup (UNION {bad(~optional(k, Timestamps), k, "invalid_timestamp") : k \in {"created_at", "watermark"}})
           \cup bad(cols = <<>>, "schema", "missing")
           \cup bad(\E i, j \in DOMAIN names : i # j /\ names[i] = names[j], "schema", "duplicate_column")
           \cup {<<"schema", code>> : code \in UNION {Entry(cols[i], OneColumn) : i \in DOMAIN cols}}
           \cup bad(files = <<>>, "files", "missing")
           \cup {<<"files", code>> : code \in UNION {Entry(files[i], file) : i \in DOMAIN files}}
           \cup (UNION {{<<k, code>> : code \in ColumnRef(At(m, k), cols)} : k \in Refs})
           \cup bad(~AtLeast(At(m, "row_count"), 0), "row_count", "invalid_value")
           \cup bad(~AtLeast(At(m, "size_bytes"), 0), "size_bytes", "invalid_value")
           \cup bad(~AtLeast(At(m, "schema_version"), 1), "schema_version", "invalid_value")
           \cup (UNION {bad(At(m, k) # Nil /\ ~IsNonEmpty(At(m, k)), k, "invalid_value") :
                         k \in {"producer", "upstream_run_id"}})
           \cup bad(~optional("data_quality_status", Qualities), "data_quality_status", "invalid_value")
           \cup bad(~optional("compatibility_policy", Policies),
                    "compatibility_policy", "invalid_compatibility_policy")

-----------------------------------------------------------------------------
(* Offloader.Manifest.compatibility: a snapshot serves a contract if it has *)
(* each of its columns, as wide or wider, and no more under "exact".        *)

Width(type) == CASE type = "INTEGER" -> 1 [] type = "BIGINT" -> 2 [] type = "DOUBLE" -> 3 [] OTHER -> 0
Wide(got, want) == got = want \/ (Width(want) > 0 /\ Width(got) >= Width(want))

Compatible(m, types) ==
  LET cols == Items(At(m, "schema"))
      names == {At(cols[i], "name")[2] : i \in DOMAIN cols}
  IN  /\ \A name \in DOMAIN types : \E i \in DOMAIN cols :
           At(cols[i], "name") = Str(name) /\ Wide(At(cols[i], "type")[2], types[name])
      /\ At(m, "compatibility_policy") = Str("exact") => names \subseteq DOMAIN types
=============================================================================
