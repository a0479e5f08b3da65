---------------------------- MODULE ProjectRules ----------------------------
(***************************************************************************)
(* The project rules of the helper CLI (tools/validate.go): what           *)
(* `offloader validate` reports of a project directory.                    *)
(***************************************************************************)
EXTENDS EndpointRules

ProjectKeys == {"version", "datasets_dir", "endpoints_dir", "keys", "object_store_mode", "auth"}
ProjectPaths == {"datasets_dir", "endpoints_dir", "keys"}
AuthModes == {"required", "none"}
DatasetKeys == {"id", "description", "manifest", "source", "tenant_column", "schema"}
SourceKeys == {"type", "bucket", "prefix", "interval_seconds"}
KeyFields == {"id", "hash", "tenant", "endpoints", "status"}
KeyStatuses == {"active", "revoked"}

-----------------------------------------------------------------------------
(* Files *)

IsMapping(doc) == IsMap(doc) \/ doc \in {Empty, Nil}    \* nothing is an empty mapping

ReadMapping(doc) ==
  IF doc \in {Missing, Unreadable}
  THEN {<<Top, 0, Self, "yaml_error">>}
  ELSE Flag(~IsMapping(doc), Top, 0, Self, "invalid_type")

StringOr(v, default) == IF IsNonEmpty(v) THEN v[2] ELSE default

\* The findings of every file of a directory.
InEach(sub, files, Rules(_)) == UNION {In(<<sub, i>>, Rules(files[i])) : i \in DOMAIN files}

\* Whether two of the files that passed carry the same name.
Clash(files, passed, key) ==
  \E i, j \in passed : i # j /\ At(files[i], key) = At(files[j], key)

-----------------------------------------------------------------------------
(* Datasets *)

SchemaNames(schema) == Names(Items(schema), "name")

\* Snapshots come from exactly one origin: a manifest or a source.
SnapshotOrigin(manifest, source) ==
  LET interval == At(source, "interval_seconds")
  IN  CASE IsNonEmpty(manifest) /\ source = Nil -> {}
        [] manifest = Nil /\ IsMap(source) ->
             UnknownKeys(source, SourceKeys, "source", 0)
             \cup Flag(~IsOneOf(At(source, "type"), {"databricks"}),
                       "source", 0, "type", "invalid_value")
             \cup (UNION {Flag(~IsNonEmpty(At(source, k)), "source", 0, k, "missing") :
                            k \in {"bucket", "prefix"}})
             \cup Flag(interval # Nil /\ ~IsPositive(interval),
                       "source", 0, "interval_seconds", "invalid_value")
        [] IsStr(manifest) /\ IsMap(source) -> {<<Top, 0, "source", "conflicting_origin">>}
        [] manifest = Nil /\ source = Nil -> {<<Top, 0, "manifest", "missing">>}
        [] OTHER -> {<<Top, 0, "manifest", "invalid_type">>}

TenantColumn(col, schema) ==
  CASE col = Nil -> {}
    [] SafeColumn(col) -> Flag(~ContainsAny(SchemaNames(schema), col),
                               Top, 0, "tenant_column", "unknown_column")
    [] OTHER -> {<<Top, 0, "tenant_column", IF IsStr(col) THEN "unsafe_identifier" ELSE "invalid_type">>}

Schema(schema) ==
  LET cols == Items(schema)
  IN  IF cols = <<>>
      THEN {<<Top, 0, "schema", "missing">>}
      ELSE (UNION {Flag(~SafeColumn(At(cols[i], "name")), "schema", i, "name", "unsafe_identifier")
                   \cup Flag(~IsOneOf(At(cols[i], "type"), ColumnTypes),
                             "schema", i, "type", "unsupported_type") : i \in DOMAIN cols})
           \cup Flag(HasDuplicates(SchemaNames(schema)), Top, 0, "schema", "duplicate_column")

DatasetRules(raw) ==
  UnknownKeys(raw, DatasetKeys, Top, 0)
  \cup Identifier(At(raw, "id"), "id")
  \cup SnapshotOrigin(At(raw, "manifest"), At(raw, "source"))
  \cup TenantColumn(At(raw, "tenant_column"), At(raw, "schema"))
  \cup Schema(At(raw, "schema"))

ValidateDataset(doc) == IF IsMapping(doc) THEN DatasetRules(doc) ELSE ReadMapping(doc)

\* What the endpoint rules check against; a column is declared once in a valid schema.
BuildDataset(raw) ==
  LET cols == Items(At(raw, "schema"))
      column(i) == At(cols[i], "name")[2]
  IN  [id |-> At(raw, "id")[2],
       tenant |-> StringOr(At(raw, "tenant_column"), Absent),
       types |-> [n \in {column(i) : i \in DOMAIN cols} |->
                    At(cols[CHOOSE i \in DOMAIN cols : column(i) = n], "type")[2]]]

\* Only datasets that validate count; of several with one id, the last file.
LoadDatasets(files) ==
  LET passed == {i \in DOMAIN files : ValidateDataset(files[i]) = {}}
      id(i) == At(files[i], "id")[2]
      last(name) == CHOOSE i \in passed : id(i) = name /\ \A j \in passed : id(j) = name => j <= i
  IN  [found |-> InEach("datasets", files, ValidateDataset)
                 \cup In(<<"datasets", 0>>,
                         Flag(Clash(files, passed, "id"), Top, 0, "datasets", "duplicate_dataset")),
       byId |-> [name \in {id(i) : i \in passed} |-> BuildDataset(files[last(name)])]]

-----------------------------------------------------------------------------
(* Endpoints *)

\* An endpoint whose dataset is missing or invalid reports only that.
EndpointFile(doc, datasets) ==
  LET id == At(doc, "dataset")
  IN  CASE ~IsMapping(doc) -> ReadMapping(doc)
        [] IsMapping(doc) /\ ~IsStr(id) -> {<<Top, 0, "dataset", "missing">>}
        [] IsStr(id) /\ id[2] \notin DOMAIN datasets -> {<<Top, 0, "dataset", "unknown_dataset">>}
        [] OTHER -> ValidateEndpoint(doc, datasets[id[2]])

LoadEndpoints(files, datasets) ==
  LET rules(doc) == EndpointFile(doc, datasets)
      passed == {i \in DOMAIN files : rules(files[i]) = {}}
  IN  [found |-> InEach("endpoints", files, rules)
                 \cup In(<<"endpoints", 0>>,
                         Flag(Clash(files, passed, "name"), Top, 0, "endpoints", "duplicate_endpoint")),
       served |-> {[name |-> At(files[i], "name"), dataset |-> At(files[i], "dataset")[2]] : i \in passed}]

-----------------------------------------------------------------------------
(* Keys and auth *)

Key(k, i, known) ==
  LET granted == Items(At(k, "endpoints"))
  IN  IF ~IsMap(k)
      THEN {<<"keys", i, Self, "invalid_type">>}
      ELSE UnknownKeys(k, KeyFields, "keys", i)
           \cup Flag(~SafeIdent(At(k, "id")), "keys", i, "id", "unsafe_identifier")
           \cup Flag(~IsOneOf(At(k, "hash"), Hashes), "keys", i, "hash", "invalid_value")
           \cup Flag(~IsNonEmpty(At(k, "tenant")), "keys", i, "tenant", "missing")
           \cup Flag(~IsOneOf(At(k, "status"), KeyStatuses), "keys", i, "status", "invalid_value")
           \cup Flag(granted = <<>>, "keys", i, "endpoints", "missing")
           \cup Flag(\E j \in DOMAIN granted : ~(IsStr(granted[j]) /\ granted[j] \in known),
                     "keys", i, "endpoints", "unknown_endpoint")

LoadKeys(doc, known) ==
  LET keys == Items(At(doc, "keys"))
      passed == {i \in DOMAIN keys : Key(keys[i], i, known) = {}}
  IN  CASE ~IsMapping(doc) -> In(<<"keys", 1>>, ReadMapping(doc))
        [] IsMapping(doc) /\ ~IsList(At(doc, "keys")) -> In(<<"keys", 1>>, {<<Top, 0, "keys", "missing">>})
        [] OTHER ->
             In(<<"keys", 1>>, UNION {Key(keys[i], i, known) : i \in DOMAIN keys})
             \cup In(<<"keys", 0>>, Flag(Clash(keys, passed, "id"), Top, 0, "keys", "duplicate_key"))

\* A public API cannot enforce tenancy.
ValidateAuth(auth, served, datasets) ==
  CASE auth = Nil -> {}
    [] IsOneOf(auth, AuthModes) ->
         Flag(auth = Str("none") /\ \E ep \in served : datasets[ep.dataset].tenant # Absent,
              Top, 0, "auth", "public_tenant_endpoint")
    [] OTHER -> {<<Top, 0, "auth", "invalid_value">>}

-----------------------------------------------------------------------------
(* Every problem of a project.  A problem of offloader.yml itself stops the *)
(* validation: without valid paths there is nothing to load.                *)

ProjectFile(doc) ==
  IF IsMapping(doc)
  THEN UnknownKeys(doc, ProjectKeys, Top, 0)
       \cup UNION {Flag(At(doc, k) # Nil /\ ~IsNonEmpty(At(doc, k)), Top, 0, k, "invalid_type") :
                     k \in ProjectPaths}
  ELSE ReadMapping(doc)

Findings(dir, project, datasets, endpoints) ==
  LET keys == At(project, "keys")
  IN  datasets.found
      \cup endpoints.found
      \cup (IF IsStr(keys)
            THEN LoadKeys(FileAt(dir, keys[2]), {ep.name : ep \in endpoints.served})
            ELSE {})
      \cup In(<<"offloader.yml", 0>>,
              ValidateAuth(At(project, "auth"), endpoints.served, datasets.byId))

ValidateProject(dir) ==
  LET project == FileAt(dir, "offloader.yml")
      datasets == LoadDatasets(Files(dir, StringOr(At(project, "datasets_dir"), "datasets")))
      endpoints == LoadEndpoints(Files(dir, StringOr(At(project, "endpoints_dir"), "endpoints")),
                                 datasets.byId)
  IN  IF ProjectFile(project) # {}
      THEN In(<<"offloader.yml", 0>>, ProjectFile(project))
      ELSE Findings(dir, project, datasets, endpoints)

Report(found) == IF found = {} THEN 0 ELSE 1    \* the exit code
=============================================================================
