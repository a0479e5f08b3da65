---------------------------- MODULE EndpointRules ----------------------------
(***************************************************************************)
(* The endpoint rules of the helper CLI (tools/validate_endpoint.go): what *)
(* `offloader validate` reports of one endpoint file, judged against its   *)
(* dataset ds, a record of its id, its tenant column ("" if none) and the  *)
(* type of each of its columns.                                            *)
(***************************************************************************)
EXTENDS Yaml

EndpointKeys ==
  {"name", "version", "owner", "description", "dataset", "serving_mode", "freshness",
   "tenant", "params", "combinations", "query", "columns", "pagination", "cache"}
ServingModes == {"local_table", "remote_scan"}
ParamTypes == {"string", "integer", "date", "enum", "boolean"}
Aggs == {"sum", "avg", "min", "max", "count"}
FilterOps == {"eq", "gte", "lte"}
Filterable ==
  [string |-> {"VARCHAR"}, enum |-> {"VARCHAR"}, integer |-> {"INTEGER", "BIGINT", "DOUBLE"},
   date |-> {"DATE", "TIMESTAMP"}, boolean |-> {"BOOLEAN"}]

-----------------------------------------------------------------------------
(* Value helpers *)

\* asInt: an integer between 2^63 and 2^64 is read as 2^63 - 1; outside 64
\* bits the decoder makes it a float, which is no integer.
IsInt(v) == v[1] = "int" /\ v[2] >= MinInt64 /\ v[2] <= MaxUint64
AsInt(v) == IF v[2] > MaxInt64 THEN MaxInt64 ELSE v[2]
IsPositive(v) == IsInt(v) /\ AsInt(v) > 0

\* integerDefault: an integer, or a string that strconv.ParseInt reads.
IsIntegerDefault(v) ==
  \/ IsInt(v)
  \/ IsStr(v) /\ v[2] \in DOMAIN Numerals /\ Numerals[v[2]] \in MinInt64 .. MaxInt64
IntegerDefault(v) == IF IsInt(v) THEN AsInt(v) ELSE Numerals[v[2]]

\* same: lists and mappings equal nothing, not even themselves.
Same(a, b) == IsScalar(a) /\ IsScalar(b) /\ a = b
ContainsAny(list, v) == \E i \in DOMAIN list : Same(list[i], v)
HasDuplicates(list) == \E i, j \in DOMAIN list : i # j /\ Same(list[i], list[j])

\* Whether subtract(a, b) leaves anything: each element of b takes one match from a.
Leaves(a, b) ==
  LET count(list, v) == Cardinality({i \in DOMAIN list : Same(list[i], v)})
  IN  \E i \in DOMAIN a : IsScalar(a[i]) => count(a, a[i]) > count(b, a[i])

TypeOf(ds, v) ==
  IF IsStr(v) /\ v[2] \in DOMAIN ds.types THEN ds.types[v[2]] ELSE Absent

ColumnInDataset(v, ds, parent, i) ==
  IF SafeColumn(v)
  THEN Flag(TypeOf(ds, v) = Absent, parent, i, "column", "unknown_column")
  ELSE {<<parent, i, "column", "unsafe_identifier">>}

\* Mutant: the first declaration counts.
FirstParamType(params, v) ==
  IF \E i \in DOMAIN params : IsStr(v) /\ At(params[i], "name") = v
  THEN At(params[CHOOSE i \in DOMAIN params :
                   /\ At(params[i], "name") = v
                   /\ \A j \in DOMAIN params : At(params[j], "name") = v => i <= j], "type")
  ELSE Nil

\* The declared type of a param: a later declaration of its name overrides.
Declares(params, v) == \E i \in DOMAIN params : IsStr(v) /\ At(params[i], "name") = v
ParamType(params, v) ==
  IF Declares(params, v)
  THEN At(params[CHOOSE i \in DOMAIN params :
                   /\ At(params[i], "name") = v
                   /\ \A j \in DOMAIN params : j > i => At(params[j], "name") # v], "type")
  ELSE Nil

-----------------------------------------------------------------------------
(* Freshness, tenant, pagination, cache *)

Freshness(v) ==
  CASE v = Nil -> {}
    [] IsMap(v) ->
         UnknownKeys(v, {"max_staleness_minutes"}, "freshness", 0)
         \cup Flag(~IsPositive(At(v, "max_staleness_minutes")),
                   "freshness", 0, "max_staleness_minutes", "invalid_value")
    [] OTHER -> {<<Top, 0, "freshness", "invalid_type">>}

Tenant(t, ds) ==
  LET col == At(t, "column")
  IN  CASE ds.tenant # Absent /\ Has(t, "column") ->
             UnknownKeys(t, {"column"}, "tenant", 0)
             \cup (IF SafeColumn(col)
                   THEN Flag(col[2] # ds.tenant, "tenant", 0, "column", "tenant_mismatch")
                   ELSE {<<"tenant", 0, "column", "unsafe_identifier">>})
        [] t = Nil -> Flag(ds.tenant # Absent, Top, 0, "tenant", "missing")
        [] ds.tenant = Absent /\ t # Nil -> {<<Top, 0, "tenant", "tenant_forbidden">>}
        [] OTHER -> {<<Top, 0, "tenant", "invalid_type">>}

Pagination(v) ==
  LET default == At(v, "default_limit")
      max == At(v, "max_limit")
      ok == IsPositive(default)
  IN  CASE v = Nil -> {}
        [] IsMap(v) ->
             UnknownKeys(v, {"default_limit", "max_limit"}, "pagination", 0)
             \cup Flag(~ok \/ (IsPositive(max) /\ AsInt(default) > AsInt(max)),
                       "pagination", 0, "default_limit", "invalid_value")
             \cup Flag(ok /\ ~IsPositive(max), "pagination", 0, "max_limit", "invalid_value")
        [] OTHER -> {<<Top, 0, "pagination", "invalid_type">>}

Cache(v) ==
  CASE v = Nil -> {}
    [] Has(v, "policy") ->
         UnknownKeys(v, {"policy"}, "cache", 0)
         \cup Flag(~IsOneOf(At(v, "policy"), {"none", "snapshot"}),
                   "cache", 0, "policy", "invalid_value")
    [] OTHER -> {<<Top, 0, "cache", "invalid_type">>}

-----------------------------------------------------------------------------
(* Params *)

ParamTypeRule(p, i) ==
  IF At(p, "type") = Str("enum")
  THEN Flag(Items(At(p, "enum")) = <<>>, "params", i, "enum", "missing")
  ELSE Flag(~IsOneOf(At(p, "type"), ParamTypes), "params", i, "type", "invalid_value")

DefaultFits(p) ==
  LET d == At(p, "default")
      is(type) == At(p, "type") = Str(type)
  IN  /\ is("string") => IsStr(d)
      /\ is("date") => IsStr(d) /\ d[2] \in IsoDates
      /\ is("integer") =>
           /\ IsIntegerDefault(d)
           /\ IsInt(At(p, "max")) => IntegerDefault(d) <= AsInt(At(p, "max"))
      /\ is("enum") => ContainsAny(Items(At(p, "enum")), d)
      /\ is("boolean") => IsBool(d)

Aliases(p, i) ==
  LET a == At(p, "aliases")
      enum == At(p, "enum")
  IN  CASE a = Nil -> {}
        [] IsMap(a) ->
             Flag(\E k \in DOMAIN a[2] : ~IsStr(a[2][k]), "params", i, "aliases", "invalid_type")
             \cup Flag(\/ ~IsOneOf(At(p, "type"), {"string", "enum"})
                       \/ /\ IsList(enum)
                          /\ At(p, "type") = Str("enum")
                          /\ \E k \in DOMAIN a[2] : ~ContainsAny(enum[2], a[2][k]),
                       "params", i, "aliases", "invalid_value")
        [] OTHER -> {<<"params", i, "aliases", "invalid_type">>}

Param(p, i) ==
  IF ~IsMap(p)
  THEN {<<"params", i, Self, "invalid_type">>}
  ELSE UnknownKeys(p, {"name", "type", "required", "default", "enum", "max", "aliases"}, "params", i)
       \cup Flag(~SafeIdent(At(p, "name")), "params", i, "name", "unsafe_identifier")
       \cup ParamTypeRule(p, i)
       \cup Flag(At(p, "default") # Nil /\ ~DefaultFits(p), "params", i, "default", "invalid_default")
       \cup Aliases(p, i)

Params(params) ==
  Flag(HasDuplicates(Names(params, "name")), Top, 0, "params", "duplicate_param")
  \cup UNION {Param(params[i], i) : i \in DOMAIN params}

\* Mutant: the columns that the param filters are forgotten.
OutOfWidestRange(p, filters, ds) ==
  /\ At(p, "type") = Str("integer")
  /\ IsIntegerDefault(At(p, "default"))
  /\ IntegerDefault(At(p, "default")) \notin MinInt64 .. MaxInt64

\* An integer default must fit every column it filters.
OutOfRange(p, filters, ds) ==
  LET d == At(p, "default")
      narrow == \E j \in DOMAIN filters :
                  /\ IsMap(filters[j])
                  /\ Same(At(filters[j], "param"), At(p, "name"))
                  /\ TypeOf(ds, At(filters[j], "column")) = "INTEGER"
  IN  /\ At(p, "type") = Str("integer")
      /\ IsIntegerDefault(d)
      /\ IntegerDefault(d) \notin (IF narrow THEN MinInt32 .. MaxInt32 ELSE MinInt64 .. MaxInt64)

DefaultRanges(params, filters, ds) ==
  {<<"params", i, "default", "invalid_default">> :
     i \in {j \in DOMAIN params : OutOfRange(params[j], filters, ds)}}

Combination(combo, i, names) ==
  IF ~IsList(combo)
  THEN {<<"combinations", i, Self, "invalid_type">>}
  ELSE Flag(\E j \in DOMAIN combo[2] : ~ContainsAny(names, combo[2][j]),
            "combinations", i, Self, "unknown_param")
       \cup Flag(HasDuplicates(combo[2]), "combinations", i, Self, "duplicate_param")

Combinations(v, names) ==
  CASE v = Nil -> {}
    [] IsList(v) -> UNION {Combination(v[2][i], i, names) : i \in DOMAIN v[2]}
    [] OTHER -> {<<Top, 0, "combinations", "invalid_type">>}

-----------------------------------------------------------------------------
(* Query *)

Select(s, i, ds) ==
  LET agg == At(s, "agg")
  IN  IF ~IsMap(s)
      THEN {<<"query.select", i, Self, "invalid_type">>}
      ELSE UnknownKeys(s, {"as", "column", "agg"}, "query.select", i)
           \cup Flag(~SafeColumn(At(s, "as")), "query.select", i, "as", "unsafe_identifier")
           \cup ColumnInDataset(At(s, "column"), ds, "query.select", i)
           \cup Flag(agg # Nil /\ ~IsOneOf(agg, Aggs), "query.select", i, "agg", "invalid_value")
           \cup Flag(agg # Nil /\ TypeOf(ds, At(s, "column")) = "JSON",
                     "query.select", i, "agg", "invalid_agg_on_json")

GroupBy(v, selects, selectAs) ==
  LET groupBy == Items(v)
      plain == Names([i \in {j \in DOMAIN selects : At(selects[j], "agg") = Nil} |-> selects[i]], "as")
      hasAgg == \E i \in DOMAIN selects : At(selects[i], "agg") # Nil
      unknown == \E i \in DOMAIN groupBy : ~ContainsAny(selectAs, groupBy[i])
  IN  CASE v # Nil /\ ~IsList(v) -> {<<"query", 0, "group_by", "invalid_type">>}
        [] groupBy = <<>> /\ (v = Nil \/ IsList(v)) ->
             Flag(hasAgg, "query", 0, "group_by", "missing_group_by")
        [] OTHER -> Flag(unknown, "query", 0, "group_by", "unknown_column")
                    \cup Flag(Leaves(plain, groupBy), "query", 0, "group_by", "ungrouped_column")

Selects(q, selectAs, ds) ==
  LET selects == Items(At(q, "select"))
  IN  IF selects = <<>>
      THEN {<<"query", 0, "select", "missing">>}
      ELSE Flag(HasDuplicates(selectAs), "query", 0, "select", "duplicate_column")
           \cup (UNION {Select(selects[i], i, ds) : i \in DOMAIN selects})
           \cup GroupBy(At(q, "group_by"), selects, selectAs)

Filter(m, i, params, ds) ==
  LET col == At(m, "column")
      op == At(m, "op")
      param == At(m, "param")
      ptype == ParamType(params, param)
      ctype == TypeOf(ds, col)
  IN  IF ~IsMap(m)
      THEN {<<"query.filters", i, Self, "invalid_type">>}
      ELSE UnknownKeys(m, {"column", "op", "param"}, "query.filters", i)
           \cup ColumnInDataset(col, ds, "query.filters", i)
           \cup Flag(ds.tenant # Absent /\ col = Str(ds.tenant),
                     "query.filters", i, "column", "tenant_filter_forbidden")
           \cup Flag(~IsOneOf(op, FilterOps), "query.filters", i, "op", "invalid_value")
           \cup Flag(~Declares(params, param), "query.filters", i, "param", "unknown_param")
           \cup Flag(/\ IsOneOf(ptype, DOMAIN Filterable)
                     /\ ctype # Absent
                     /\ ctype \notin Filterable[ptype[2]],
                     "query.filters", i, "param", "incompatible_filter")
           \cup Flag(IsOneOf(op, FilterOps \ {"eq"}) /\ ptype = Str("boolean"),
                     "query.filters", i, "op", "incompatible_filter")

Filters(v, params, ds) ==
  CASE v = Nil -> {}
    [] IsList(v) -> UNION {Filter(v[2][i], i, params, ds) : i \in DOMAIN v[2]}
    [] OTHER -> {<<"query", 0, "filters", "invalid_type">>}

Order(o, i, selectAs) ==
  IF ~IsMap(o)
  THEN {<<"query.order_by", i, Self, "invalid_type">>}
  ELSE UnknownKeys(o, {"column", "dir"}, "query.order_by", i)
       \cup Flag(~IsStr(At(o, "column")) \/ ~ContainsAny(selectAs, At(o, "column")),
                 "query.order_by", i, "column", "unknown_column")
       \cup Flag(At(o, "dir") # Nil /\ ~IsOneOf(At(o, "dir"), {"asc", "desc"}),
                 "query.order_by", i, "dir", "invalid_value")

OrderBy(v, selectAs) ==
  CASE v = Nil -> {}
    [] IsList(v) -> UNION {Order(v[2][i], i, selectAs) : i \in DOMAIN v[2]}
    [] OTHER -> {<<"query", 0, "order_by", "invalid_type">>}

ColumnsRule(v, selectAs) ==
  IF Items(v) = <<>>
  THEN {<<Top, 0, "columns", "missing">>}
  ELSE Flag(Leaves(v[2], selectAs), Top, 0, "columns", "column_not_selected")
       \cup Flag(Leaves(selectAs, v[2]), Top, 0, "columns", "column_not_allowlisted")

-----------------------------------------------------------------------------
(* Every problem of one endpoint file, a mapping whose dataset exists. *)

Identifier(v, field) ==
  IF IsStr(v)
  THEN Flag(~SafeIdent(v), Top, 0, field, "unsafe_identifier")
  ELSE {<<Top, 0, field, "missing">>}

Header(raw) ==
  UnknownKeys(raw, EndpointKeys, Top, 0)
  \cup Identifier(At(raw, "name"), "name")
  \cup Flag(~IsInt(At(raw, "version")), Top, 0, "version", "invalid_type")
  \cup Flag(~IsNonEmpty(At(raw, "owner")), Top, 0, "owner", "missing")
  \cup Flag(At(raw, "serving_mode") # Nil /\ ~IsOneOf(At(raw, "serving_mode"), ServingModes),
            Top, 0, "serving_mode", "invalid_value")
  \cup Flag(At(raw, "params") # Nil /\ ~IsList(At(raw, "params")), Top, 0, "params", "invalid_type")

Query(q, params, selectAs, ds) ==
  IF IsMap(q)
  THEN UnknownKeys(q, {"group_by", "select", "filters", "order_by"}, "query", 0)
       \cup Selects(q, selectAs, ds)
       \cup Filters(At(q, "filters"), params, ds)
       \cup OrderBy(At(q, "order_by"), selectAs)
  ELSE {<<Top, 0, "query", "missing">>}

ValidateEndpoint(raw, ds) ==
  LET params == Items(At(raw, "params"))
      q == At(raw, "query")
      selectAs == Names(Items(At(q, "select")), "as")
  IN  Header(raw)
      \cup Freshness(At(raw, "freshness"))
      \cup Tenant(At(raw, "tenant"), ds)
      \cup Params(params)
      \cup DefaultRanges(params, Items(At(q, "filters")), ds)
      \cup Combinations(At(raw, "combinations"), Names(params, "name"))
      \cup Query(q, params, selectAs, ds)
      \cup ColumnsRule(At(raw, "columns"), selectAs)
      \cup Pagination(At(raw, "pagination"))
      \cup Cache(At(raw, "cache"))
=============================================================================
