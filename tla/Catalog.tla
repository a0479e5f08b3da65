------------------------------ MODULE Catalog ------------------------------
(***************************************************************************)
(* The rules of the server (Offloader.Catalog and its Dataset, Endpoint    *)
(* and Key parsers): what a container reports of its config directory when *)
(* it boots or reloads, and the catalog it serves when there is nothing to *)
(* report.  Unlike the helper's, its integers have no width, its equality  *)
(* is structural, and of two files with one name it keeps the first.       *)
(***************************************************************************)
EXTENDS Yaml

IsInteger(v) == v[1] = "int"
Positive(v) == IsInteger(v) /\ v[2] > 0
Member(list, v) == \E i \in DOMAIN list : list[i] = v
Duplicates(list) == \E i, j \in DOMAIN list : i # j /\ list[i] = list[j]

\* Whether a -- b leaves anything.
Difference(a, b) ==
  LET count(list, v) == Cardinality({i \in DOMAIN list : list[i] = v})
  IN  \E i \in DOMAIN a : count(a, a[i]) > count(b, a[i])

\* Integer.parse of the whole string, or the integer itself.
IntegerOf(v) ==
  CASE IsInteger(v) -> {v[2]}
    [] IsStr(v) /\ v[2] \in DOMAIN Numerals -> {Numerals[v[2]]}
    [] OTHER -> {}

ColumnType(ds, v) == IF IsStr(v) /\ v[2] \in DOMAIN ds.types THEN {ds.types[v[2]]} ELSE {}

IdentifierField(v, key) ==
  CASE SafeIdent(v) -> {}
    [] IsStr(v) /\ ~SafeIdent(v) -> {<<Top, 0, key, "unsafe_identifier">>}
    [] OTHER -> {<<Top, 0, key, "missing">>}

\* A field that may be absent, else must be a mapping to which the rules apply.
Optional(v, path, Rules(_)) ==
  CASE v = Nil -> {}
    [] IsMap(v) -> Rules(v)
    [] OTHER -> {<<Top, 0, path, "invalid_type">>}

\* A list that may be absent, each of whose items the rules apply to.
EachOf(v, parent, field, Rules(_, _)) ==
  CASE v = Nil -> {}
    [] IsList(v) -> UNION {Rules(v[2][i], i) : i \in DOMAIN v[2]}
    [] OTHER -> {<<parent, 0, field, "invalid_type">>}

-----------------------------------------------------------------------------
(* Datasets *)

SourceErrors(s) ==
  LET interval == At(s, "interval_seconds")
  IN  UnknownKeys(s, {"type", "bucket", "prefix", "interval_seconds"}, "source", 0)
      \cup Flag(At(s, "type") # Str("databricks"), "source", 0, "type", "invalid_value")
      \cup Flag(~IsNonEmpty(At(s, "bucket")), "source", 0, "bucket", "missing")
      \cup Flag(~IsNonEmpty(At(s, "prefix")), "source", 0, "prefix", "missing")
      \cup Flag(interval # Nil /\ ~Positive(interval), "source", 0, "interval_seconds", "invalid_value")

SnapshotOriginErrors(m, source) ==
  CASE source = Nil /\ IsNonEmpty(m) -> {}
    [] IsMap(source) /\ m = Nil -> SourceErrors(source)
    [] IsMap(source) /\ IsStr(m) -> {<<Top, 0, "source", "conflicting_origin">>}
    [] source = Nil /\ m = Nil -> {<<Top, 0, "manifest", "missing">>}
    [] OTHER -> {<<Top, 0, "manifest", "invalid_type">>}

TenantColumnErrors(col, names) ==
  CASE IsStr(col) /\ ~SafeColumn(col) -> {<<Top, 0, "tenant_column", "unsafe_identifier">>}
    [] SafeColumn(col) -> Flag(~Member(names, col), Top, 0, "tenant_column", "unknown_column")
    [] OTHER -> Flag(col # Nil, Top, 0, "tenant_column", "invalid_type")

ColumnErrors(col, i) ==
  Flag(~SafeColumn(At(col, "name")), "schema", i, "name", "unsafe_identifier")
  \cup Flag(~IsOneOf(At(col, "type"), ColumnTypes), "schema", i, "type", "unsupported_type")

SchemaErrors(v, names) ==
  IF Items(v) = <<>>
  THEN {<<Top, 0, "schema", "missing">>}
  ELSE (UNION {ColumnErrors(v[2][i], i) : i \in DOMAIN v[2]})
       \cup Flag(Duplicates(names), Top, 0, "schema", "duplicate_column")

DatasetErrors(raw) ==
  LET schema == At(raw, "schema")
      names == Names(Items(schema), "name")
  IN  UnknownKeys(raw, {"id", "description", "manifest", "source", "tenant_column", "schema"}, Top, 0)
      \cup IdentifierField(At(raw, "id"), "id")
      \cup SnapshotOriginErrors(At(raw, "manifest"), At(raw, "source"))
      \cup TenantColumnErrors(At(raw, "tenant_column"), names)
      \cup SchemaErrors(schema, names)

Dataset(raw) ==
  LET schema == Items(At(raw, "schema"))
      column(name) == CHOOSE i \in DOMAIN schema : At(schema[i], "name") = Str(name)
  IN  [id |-> At(raw, "id")[2],
       tenant |-> IF At(raw, "tenant_column") = Nil THEN Absent ELSE At(raw, "tenant_column")[2],
       types |-> [name \in {At(schema[i], "name")[2] : i \in DOMAIN schema} |->
                    At(schema[column(name)], "type")[2]]]

-----------------------------------------------------------------------------
(* Endpoints: scalar fields, tenant, params *)

FreshnessErrors(f) ==
  UnknownKeys(f, {"max_staleness_minutes"}, "freshness", 0)
  \cup Flag(~Positive(At(f, "max_staleness_minutes")),
            "freshness", 0, "max_staleness_minutes", "invalid_value")

\* Mutant: a binding is checked if there is one.
TenantErrorsIfBound(t, ds) ==
  IF ds.tenant = Absent
  THEN Flag(t # Nil, Top, 0, "tenant", "tenant_forbidden")
  ELSE Flag(t # Nil /\ At(t, "column") # Str(ds.tenant), "tenant", 0, "column", "tenant_mismatch")

TenantErrors(t, ds) ==
  IF ds.tenant = Absent
  THEN Flag(t # Nil, Top, 0, "tenant", "tenant_forbidden")
  ELSE CASE Has(t, "column") ->
              UnknownKeys(t, {"column"}, "tenant", 0)
              \cup Flag(~SafeColumn(At(t, "column")), "tenant", 0, "column", "unsafe_identifier")
              \cup Flag(SafeColumn(At(t, "column")) /\ At(t, "column") # Str(ds.tenant),
                        "tenant", 0, "column", "tenant_mismatch")
         [] t = Nil -> {<<Top, 0, "tenant", "missing">>}
         [] OTHER -> {<<Top, 0, "tenant", "invalid_type">>}

TypeErr(p, i) ==
  CASE At(p, "type") = Str("enum") -> Flag(Items(At(p, "enum")) = <<>>, "params", i, "enum", "missing")
    [] IsOneOf(At(p, "type"), {"string", "integer", "date", "boolean"}) -> {}
    [] OTHER -> {<<"params", i, "type", "invalid_value">>}

\* Every other type of value is above every number, so only an integer max bounds.
ValidDefault(p, d) ==
  LET max == At(p, "max")
  IN  CASE At(p, "type") = Str("string") -> IsStr(d)
        [] At(p, "type") = Str("date") -> IsOneOf(d, IsoDates)
        [] At(p, "type") = Str("integer") -> \E n \in IntegerOf(d) : ~IsInteger(max) \/ n <= max[2]
        [] At(p, "type") = Str("enum") -> Member(Items(At(p, "enum")), d)
        [] At(p, "type") = Str("boolean") -> IsBool(d)
        [] OTHER -> TRUE

AliasesErr(p, aliases, i) ==
  LET targets == {aliases[2][k] : k \in DOMAIN aliases[2]}
      enum == At(p, "enum")
      isEnum == At(p, "type") = Str("enum")
  IN  Flag(\E v \in targets : ~IsStr(v), "params", i, "aliases", "invalid_type")
      \cup Flag(~isEnum /\ At(p, "type") # Str("string"), "params", i, "aliases", "invalid_value")
      \cup Flag(isEnum /\ IsList(enum) /\ \E v \in targets : ~Member(enum[2], v),
                "params", i, "aliases", "invalid_value")

ParamErrors(p, i) ==
  LET aliases == At(p, "aliases")
  IN  IF ~IsMap(p)
      THEN {<<"params", i, Self, "invalid_type">>}
      ELSE UnknownKeys(p, {"name", "type", "required", "default", "enum", "max", "aliases"}, "params", i)
           \cup Flag(~SafeIdent(At(p, "name")), "params", i, "name", "unsafe_identifier")
           \cup TypeErr(p, i)
           \cup Flag(At(p, "default") # Nil /\ ~ValidDefault(p, At(p, "default")),
                     "params", i, "default", "invalid_default")
           \cup (IF IsMap(aliases)
                 THEN AliasesErr(p, aliases, i)
                 ELSE Flag(aliases # Nil, "params", i, "aliases", "invalid_type"))

\* Param.range: 32 bits if the param filters an INTEGER column, else 64.
ParamRange(p, filters, ds) ==
  IF \E j \in DOMAIN filters : /\ IsMap(filters[j])
                               /\ At(filters[j], "param") = At(p, "name")
                               /\ ColumnType(ds, At(filters[j], "column")) = {"INTEGER"}
  THEN MinInt32 .. MaxInt32
  ELSE MinInt64 .. MaxInt64

DefaultRangeErrors(params, filters, ds) ==
  UNION {Flag(/\ At(params[i], "type") = Str("integer")
              /\ ~(IntegerOf(At(params[i], "default")) \subseteq ParamRange(params[i], filters, ds)),
              "params", i, "default", "invalid_default") : i \in DOMAIN params}

CombinationErrors(combo, i, names) ==
  IF IsList(combo)
  THEN Flag(\E j \in DOMAIN combo[2] : ~Member(names, combo[2][j]),
            "combinations", i, Self, "unknown_param")
       \cup Flag(Duplicates(combo[2]), "combinations", i, Self, "duplicate_param")
  ELSE {<<"combinations", i, Self, "invalid_type">>}

-----------------------------------------------------------------------------
(* Endpoints: query, columns, pagination, cache *)

ColumnInDataset(col, ds, parent, i) ==
  CASE ~SafeColumn(col) -> {<<parent, i, "column", "unsafe_identifier">>}
    [] OTHER -> Flag(ColumnType(ds, col) = {}, parent, i, "column", "unknown_column")

SelectErrors(s, i, ds) ==
  LET agg == At(s, "agg")
  IN  IF ~IsMap(s)
      THEN {<<"query.select", i, Self, "invalid_type">>}
      ELSE UnknownKeys(s, {"as", "column", "agg"}, "query.select", i)
           \cup Flag(~SafeColumn(At(s, "as")), "query.select", i, "as", "unsafe_identifier")
           \cup ColumnInDataset(At(s, "column"), ds, "query.select", i)
           \cup Flag(agg # Nil /\ ~IsOneOf(agg, {"sum", "avg", "min", "max", "count"}),
                     "query.select", i, "agg", "invalid_value")
           \cup Flag(agg # Nil /\ ColumnType(ds, At(s, "column")) = {"JSON"},
                     "query.select", i, "agg", "invalid_agg_on_json")

\* q["group_by"] || []: false is no grouping, as null is.
GroupBy(q) == IF At(q, "group_by") \in {Nil, Bool(FALSE)} THEN List(<<>>) ELSE At(q, "group_by")

GroupByErrors(groupBy, selects, selectAs) ==
  LET nonAgg == Names([i \in {j \in DOMAIN selects : At(selects[j], "agg") = Nil} |-> selects[i]], "as")
      hasAgg == \E i \in DOMAIN selects : At(selects[i], "agg") # Nil
  IN  CASE ~IsList(groupBy) -> {<<"query", 0, "group_by", "invalid_type">>}
        [] IsList(groupBy) /\ groupBy[2] = <<>> ->
             Flag(hasAgg, "query", 0, "group_by", "missing_group_by")
        [] OTHER -> Flag(\E i \in DOMAIN groupBy[2] : ~Member(selectAs, groupBy[2][i]),
                         "query", 0, "group_by", "unknown_column")
                    \cup Flag(Difference(nonAgg, groupBy[2]),
                              "query", 0, "group_by", "ungrouped_column")

FitsFilter(ptype, ctype) ==
  CASE ptype \in {Str("string"), Str("enum")} -> ctype = "VARCHAR"
    [] ptype = Str("integer") -> ctype \in {"INTEGER", "BIGINT", "DOUBLE"}
    [] ptype = Str("date") -> ctype \in {"DATE", "TIMESTAMP"}
    [] ptype = Str("boolean") -> ctype = "BOOLEAN"
    [] OTHER -> TRUE

\* types: the declared type of each param, by its name.
FilterErrors(f, i, ds, types) ==
  LET col == At(f, "column")
      op == At(f, "op")
      param == At(f, "param")
      declared == IsStr(param) /\ param \in DOMAIN types
  IN  IF ~IsMap(f)
      THEN {<<"query.filters", i, Self, "invalid_type">>}
      ELSE UnknownKeys(f, {"column", "op", "param"}, "query.filters", i)
           \cup ColumnInDataset(col, ds, "query.filters", i)
           \cup Flag(ds.tenant # Absent /\ col = Str(ds.tenant),
                     "query.filters", i, "column", "tenant_filter_forbidden")
           \cup Flag(~IsOneOf(op, {"eq", "gte", "lte"}), "query.filters", i, "op", "invalid_value")
           \cup Flag(~declared, "query.filters", i, "param", "unknown_param")
           \cup Flag(declared /\ \E ctype \in ColumnType(ds, col) : ~FitsFilter(types[param], ctype),
                     "query.filters", i, "param", "incompatible_filter")
           \cup Flag(declared /\ IsOneOf(op, {"gte", "lte"}) /\ types[param] = Str("boolean"),
                     "query.filters", i, "op", "incompatible_filter")

OrderErrors(o, i, selectAs) ==
  LET dir == At(o, "dir")
  IN  IF ~IsMap(o)
      THEN {<<"query.order_by", i, Self, "invalid_type">>}
      ELSE UnknownKeys(o, {"column", "dir"}, "query.order_by", i)
           \cup Flag(~(IsStr(At(o, "column")) /\ Member(selectAs, At(o, "column"))),
                     "query.order_by", i, "column", "unknown_column")
           \cup Flag(dir \notin {Nil, Str("asc"), Str("desc")}, "query.order_by", i, "dir", "invalid_value")

QueryErrors(q, ds, types, selectAs) ==
  LET selects == Items(At(q, "select"))
      filterErrors(f, i) == FilterErrors(f, i, ds, types)
      orderErrors(o, i) == OrderErrors(o, i, selectAs)
  IN  IF ~IsMap(q)
      THEN {<<Top, 0, "query", "missing">>}
      ELSE UnknownKeys(q, {"group_by", "select", "filters", "order_by"}, "query", 0)
           \cup (IF selects = <<>>
                 THEN {<<"query", 0, "select", "missing">>}
                 ELSE Flag(Duplicates(selectAs), "query", 0, "select", "duplicate_column")
                      \cup (UNION {SelectErrors(selects[i], i, ds) : i \in DOMAIN selects})
                      \cup GroupByErrors(GroupBy(q), selects, selectAs))
           \cup EachOf(At(q, "filters"), "query", "filters", filterErrors)
           \cup EachOf(At(q, "order_by"), "query", "order_by", orderErrors)

ColumnsErrors(cols, selectAs) ==
  IF Items(cols) = <<>>
  THEN {<<Top, 0, "columns", "missing">>}
  ELSE Flag(Difference(cols[2], selectAs), Top, 0, "columns", "column_not_selected")
       \cup Flag(Difference(selectAs, cols[2]), Top, 0, "columns", "column_not_allowlisted")

PaginationErrors(p) ==
  LET default == At(p, "default_limit")
      max == At(p, "max_limit")
  IN  UnknownKeys(p, {"default_limit", "max_limit"}, "pagination", 0)
      \cup CASE ~Positive(default) -> {<<"pagination", 0, "default_limit", "invalid_value">>}
             [] Positive(default) /\ ~Positive(max) -> {<<"pagination", 0, "max_limit", "invalid_value">>}
             [] OTHER -> Flag(default[2] > max[2], "pagination", 0, "default_limit", "invalid_value")

CacheErrors(c) ==
  IF ~Has(c, "policy")
  THEN Flag(c # Nil, Top, 0, "cache", "invalid_type")
  ELSE UnknownKeys(c, {"policy"}, "cache", 0)
       \cup Flag(At(c, "policy") \notin {Str("none"), Str("snapshot")},
                 "cache", 0, "policy", "invalid_value")

-----------------------------------------------------------------------------
(* Endpoint.parse *)

\* into: %{}: a later param of the same name replaces an earlier one.
ParamTypesOf(params) ==
  LET last(name) == CHOOSE i \in DOMAIN params :
                      /\ At(params[i], "name") = name
                      /\ \A j \in DOMAIN params : j > i => At(params[j], "name") # name
  IN  [name \in {At(params[i], "name") : i \in {j \in DOMAIN params : IsStr(At(params[j], "name"))}} |->
         At(params[last(name)], "type")]

EndpointErrors(raw, ds) ==
  LET params == Items(At(raw, "params"))
      names == Names(params, "name")
      q == At(raw, "query")
      selectAs == Names(Items(At(q, "select")), "as")
      combinationErrors(c, i) == CombinationErrors(c, i, names)
  IN  UnknownKeys(raw, {"name", "version", "owner", "description", "dataset", "serving_mode",
                        "freshness", "tenant", "params", "combinations", "query", "columns",
                        "pagination", "cache"}, Top, 0)
      \cup IdentifierField(At(raw, "name"), "name")
      \cup Flag(~IsInteger(At(raw, "version")), Top, 0, "version", "invalid_type")
      \cup Flag(~IsNonEmpty(At(raw, "owner")), Top, 0, "owner", "missing")
      \cup Flag(At(raw, "serving_mode") \notin {Nil, Str("local_table"), Str("remote_scan")},
                Top, 0, "serving_mode", "invalid_value")
      \cup Optional(At(raw, "freshness"), "freshness", FreshnessErrors)
      \cup TenantErrors(At(raw, "tenant"), ds)
      \cup EachOf(At(raw, "params"), Top, "params", ParamErrors)
      \cup Flag(Duplicates(names), Top, 0, "params", "duplicate_param")
      \cup DefaultRangeErrors(params, Items(At(q, "filters")), ds)
      \cup EachOf(At(raw, "combinations"), Top, "combinations", combinationErrors)
      \cup QueryErrors(q, ds, ParamTypesOf(params), selectAs)
      \cup ColumnsErrors(At(raw, "columns"), selectAs)
      \cup Optional(At(raw, "pagination"), "pagination", PaginationErrors)
      \cup CacheErrors(At(raw, "cache"))

-----------------------------------------------------------------------------
(* Catalog.load *)

ReadYaml(doc) ==
  CASE doc \in {Missing, Unreadable} -> {<<Top, 0, Self, "yaml_error">>}
    [] doc = Empty \/ IsMap(doc) -> {}
    [] OTHER -> {<<Top, 0, Self, "invalid_type">>}

ParseDataset(doc) == IF ReadYaml(doc) = {} THEN DatasetErrors(doc) ELSE ReadYaml(doc)

ParseEndpoint(doc, datasets) ==
  LET id == At(doc, "dataset")
  IN  CASE ReadYaml(doc) # {} -> ReadYaml(doc)
        [] ReadYaml(doc) = {} /\ ~IsStr(id) -> {<<Top, 0, "dataset", "missing">>}
        [] IsStr(id) /\ id[2] \notin DOMAIN datasets -> {<<Top, 0, "dataset", "unknown_dataset">>}
        [] OTHER -> EndpointErrors(doc, datasets[id[2]])

KeyErrors(k, i, known) ==
  LET granted == Items(At(k, "endpoints"))
  IN  IF ~IsMap(k)
      THEN {<<"keys", i, Self, "invalid_type">>}
      ELSE UnknownKeys(k, {"id", "hash", "tenant", "endpoints", "status"}, "keys", i)
           \cup Flag(~SafeIdent(At(k, "id")), "keys", i, "id", "unsafe_identifier")
           \cup Flag(~IsOneOf(At(k, "hash"), Hashes), "keys", i, "hash", "invalid_value")
           \cup Flag(~IsNonEmpty(At(k, "tenant")), "keys", i, "tenant", "missing")
           \cup Flag(At(k, "status") \notin {Str("active"), Str("revoked")},
                     "keys", i, "status", "invalid_value")
           \cup Flag(granted = <<>>, "keys", i, "endpoints", "missing")
           \cup Flag(\E j \in DOMAIN granted : granted[j] \notin known,
                     "keys", i, "endpoints", "unknown_endpoint")

\* The files that parsed, by name.  The list of them is built backwards and
\* turned into a map, so that the first file of a name is the one it keeps.
Parsed(files, errors) == {i \in DOMAIN files : errors[i] = {}}
First(files, parsed, key, name) ==
  CHOOSE i \in parsed : /\ At(files[i], key)[2] = name
                        /\ \A j \in parsed : j < i => At(files[j], key)[2] # name
ByName(files, parsed, key) ==
  [name \in {At(files[i], key)[2] : i \in parsed} |-> files[First(files, parsed, key, name)]]

DuplicateErrors(files, parsed, key, what, code) ==
  In(<<what, 0>>,
     Flag(\E i, j \in parsed : i < j /\ At(files[i], key) = At(files[j], key), Top, 0, what, code))

LoadKeys(doc, known) ==
  LET keys == Items(At(doc, "keys"))
      errors == [i \in DOMAIN keys |-> KeyErrors(keys[i], i, known)]
  IN  CASE ReadYaml(doc) # {} -> In(<<"keys", 1>>, ReadYaml(doc))
        [] ReadYaml(doc) = {} /\ ~IsList(At(doc, "keys")) -> In(<<"keys", 1>>, {<<Top, 0, "keys", "missing">>})
        [] OTHER -> In(<<"keys", 1>>, UNION {errors[i] : i \in DOMAIN keys})
                    \cup DuplicateErrors(keys, Parsed(keys, errors), "id", "keys", "duplicate_key")

PublicTenant(endpoints) == \E name \in DOMAIN endpoints : Has(At(endpoints[name], "tenant"), "column")

AuthErrors(auth, endpoints) ==
  Flag(auth \notin {Nil, Str("required"), Str("none")}, Top, 0, "auth", "invalid_value")
  \cup Flag(auth = Str("none") /\ PublicTenant(endpoints), Top, 0, "auth", "public_tenant_endpoint")

ProjectErrors(project) ==
  IF ReadYaml(project) # {}
  THEN ReadYaml(project)
  ELSE UnknownKeys(project, {"version", "datasets_dir", "endpoints_dir", "keys",
                             "object_store_mode", "auth"}, Top, 0)
       \cup UNION {Flag(At(project, key) # Nil /\ ~IsNonEmpty(At(project, key)), Top, 0, key, "invalid_type") :
                     key \in {"datasets_dir", "endpoints_dir", "keys"}}

\* The errors of a directory, and the catalog made of the files that parsed.
Load(dir) ==
  LET project == FileAt(dir, "offloader.yml")
      sub(key, default) == IF At(project, key) = Nil THEN default ELSE At(project, key)[2]
      dsFiles == Files(dir, sub("datasets_dir", "datasets"))
      dsErrors == [i \in DOMAIN dsFiles |-> ParseDataset(dsFiles[i])]
      dsParsed == Parsed(dsFiles, dsErrors)
      raw == ByName(dsFiles, dsParsed, "id")
      datasets == [id \in DOMAIN raw |-> Dataset(raw[id])]
      epFiles == Files(dir, sub("endpoints_dir", "endpoints"))
      epErrors == [i \in DOMAIN epFiles |-> ParseEndpoint(epFiles[i], datasets)]
      epParsed == Parsed(epFiles, epErrors)
      endpoints == ByName(epFiles, epParsed, "name")
      known == {Str(name) : name \in DOMAIN endpoints}
  IN  IF ProjectErrors(project) # {}
      THEN [errors |-> In(<<"offloader.yml", 0>>, ProjectErrors(project)),
            datasets |-> <<>>, endpoints |-> <<>>, auth |-> "required"]
      ELSE [errors |->
              (UNION {In(<<"datasets", i>>, dsErrors[i]) : i \in DOMAIN dsFiles})
              \cup DuplicateErrors(dsFiles, dsParsed, "id", "datasets", "duplicate_dataset")
              \cup (UNION {In(<<"endpoints", i>>, epErrors[i]) : i \in DOMAIN epFiles})
              \cup DuplicateErrors(epFiles, epParsed, "name", "endpoints", "duplicate_endpoint")
              \cup (IF At(project, "keys") = Nil
                    THEN {}
                    ELSE LoadKeys(FileAt(dir, At(project, "keys")[2]), known))
              \cup In(<<"offloader.yml", 0>>, AuthErrors(At(project, "auth"), endpoints)),
            datasets |-> datasets,
            endpoints |-> endpoints,
            auth |-> IF At(project, "auth") = Str("none") THEN "none" ELSE "required"]
=============================================================================
