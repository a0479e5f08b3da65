------------------------------ MODULE MCTools ------------------------------
(* A small instance of ServeCommand for TLC.  The project to start from is *)
(* the base of the corpus that the validators of both sides are tested on  *)
(* (dev/validation-cases.yml), with a keys file and a manifest; the edits  *)
(* are corpus cases, which the model combines.                             *)
EXTENDS ServeCommand, TLC

Safe == {"usage", "events", "e", "events_by_day", "account", "from", "to", "n", "k", "on",
         "account_id", "tenant_id", "day", "calls", "users", "stats", "event_date", "event_type",
         "event_count", "event_count_total", "demo", "scaffolded", "true"}
Columns == Safe \cup {"4", "1e5", "NULL"}
NumeralOf == "4" :> 4 @@ "9" :> 9
Local == "data.csv" :> {"tenant_id", "users"} @@ "other.csv" :> {"users"}
ListingOf ==
  [datasets |-> <<"datasets/events.yml", "datasets/scaffolded.yml", "datasets/usage.yml">>,
   endpoints |-> <<"endpoints/e.yml", "endpoints/events_by_day.yml">>]

Strs(seq) == List([i \in DOMAIN seq |-> Str(seq[i])])
Nothing == [p \in {"offloader.yml", "datasets/events.yml", "datasets/scaffolded.yml",
                   "datasets/usage.yml", "endpoints/e.yml", "endpoints/events_by_day.yml",
                   "keys/keys.yml", Source} |-> Missing]

-----------------------------------------------------------------------------
Project == Map([version |-> Int_(1)])

UsageSchema ==
  <<Column("tenant_id", "VARCHAR"), Column("account_id", "VARCHAR"), Column("day", "DATE"),
    Column("calls", "BIGINT"), Column("users", "INTEGER"), Column("stats", "JSON")>>
Usage == Map([id |-> Str("usage"), manifest |-> Str(Source), tenant_column |-> Str("tenant_id"),
              schema |-> List(UsageSchema)])

Sum == Map([as |-> Str("calls"), column |-> Str("calls"), agg |-> Str("sum")])
Plain(as, col) == Map([as |-> Str(as), column |-> Str(col)])
BaseParams == <<Map([name |-> Str("account"), type |-> Str("string")]), ParamOf("from", "date", TRUE)>>
BaseFilters == <<FilterOn("account_id", "eq", "account"), FilterOn("day", "gte", "from")>>
QueryOf(groupBy, selects, filters, order) ==
  Object([select |-> List(selects), group_by |-> groupBy, filters |-> List(filters), order_by |-> order])
ByAccount == Strs(<<"account_id">>)
Selected == <<Plain("account_id", "account_id"), Sum>>
BaseQuery == QueryOf(ByAccount, Selected, BaseFilters,
                     List(<<Map([column |-> Str("calls"), dir |-> Str("desc")])>>))
E == Map([name |-> Str("e"), version |-> Int_(1), owner |-> Str("text"), dataset |-> Str("usage"),
          tenant |-> Map([column |-> Str("tenant_id")]), params |-> List(BaseParams),
          query |-> BaseQuery, columns |-> Strs(<<"account_id", "calls">>),
          pagination |-> Map([default_limit |-> Int_(1), max_limit |-> Int_(2)]),
          cache |-> Map([policy |-> Str("snapshot")])])

KeyOf(id, endpoint) ==
  Map([id |-> Str(id), hash |-> Str("hash"), tenant |-> Str("text"), endpoints |-> Strs(<<endpoint>>),
       status |-> Str("active")])
Keys == Map([keys |-> List(<<KeyOf("k", "e")>>)])

File(path) == Map([path |-> Str(path), format |-> Str("csv")])
Manifest ==
  Map([dataset_id |-> Str("usage"), snapshot_id |-> Str("s"), created_at |-> Str("now"),
       watermark |-> Str("now"), schema |-> List(<<Column("tenant_id", "VARCHAR"), Column("users", "INTEGER")>>),
       partition_columns |-> List(<<>>), sort_columns |-> Strs(<<"users">>),
       files |-> List(<<File("data.csv")>>), producer |-> Str("text"), upstream_run_id |-> Str("text"),
       row_count |-> Int_(1), size_bytes |-> Int_(1), schema_version |-> Int_(1),
       data_quality_status |-> Str("passed"), compatibility_policy |-> Str("exact")])

Base == [Nothing EXCEPT !["offloader.yml"] = Project, !["datasets/usage.yml"] = Usage,
                        !["endpoints/e.yml"] = E, !["keys/keys.yml"] = Keys]
\* Two endpoints of one name, of which the server keeps the first, a public one.
Twins == [Base EXCEPT !["datasets/events.yml"] = DatasetTemplate(TRUE),
                      !["endpoints/e.yml"] = Map([EndpointTemplate(TRUE)[2] EXCEPT !.name = Str("e")]),
                      !["endpoints/events_by_day.yml"] = E]
StartsOf == {[Nothing EXCEPT ![Source] = Manifest], Base, Twins}

-----------------------------------------------------------------------------
On(path, key, values) == {[path |-> path, key |-> key, to |-> v] : v \in values}
Whole(path, doc) == [path |-> path, key |-> "", to |-> doc]

ProjectEdits ==
  On("offloader.yml", "auth", {Str("none"), Str("open")})
  \cup On("offloader.yml", "keys", {Str("keys/keys.yml"), Str("nowhere"), Int_(1)})
  \cup On("offloader.yml", "endpoints_dir", {Str("nowhere")})
  \cup {Whole("offloader.yml", Unreadable), Whole("offloader.yml", Empty)}

OtherSource == [type |-> Str("databricks"), bucket |-> Str("text"), prefix |-> Str("text")]
DatasetEdits ==
  On("datasets/usage.yml", "id", {Nil, Str("Bad Id"), Str("events")})
  \cup On("datasets/usage.yml", "manifest", {Nil, Int_(1)})
  \cup On("datasets/usage.yml", "source", {Map(OtherSource), Map("interval_seconds" :> Int_(0) @@ OtherSource)})
  \cup On("datasets/usage.yml", "tenant_column",
          {Nil, Str("account_id"), Str("users"), Str("nowhere"), Int_(1)})
  \cup On("datasets/usage.yml", "schema",
          {Nil, List(Append(UsageSchema, Str("text"))), List(Append(UsageSchema, Column("day", "FLOAT"))),
           List(SubSeq(UsageSchema, 1, 3))})
  \cup {Whole("datasets/scaffolded.yml", Map("schema" :> List(SubSeq(UsageSchema, 1, 3)) @@ Usage[2]))}

With(param) == List(Append(BaseParams, Map(param)))
Narrow == QueryOf(ByAccount, Selected, Append(BaseFilters, FilterOn("users", "lte", "n")), Nil)
Number(default) == [name |-> Str("n"), type |-> Str("integer"), default |-> default]
EndpointEdits ==
  On("endpoints/e.yml", "dataset", {Nil, Str("nowhere"), Str("events")})
  \cup On("endpoints/e.yml", "name", {Str("events_by_day"), Str("Bad Name")})
  \cup On("endpoints/e.yml", "tenant", {Nil, Str("text"), Map([column |-> Str("account_id")]), Map([column |-> Str("users")])})
  \cup On("endpoints/e.yml", "version", {Str("4")})
  \cup On("endpoints/e.yml", "serving_mode", {Str("text")})
  \cup On("endpoints/e.yml", "freshness", {Map([max_staleness_minutes |-> Int_(0)])})
  \cup On("endpoints/e.yml", "pagination", {Map([default_limit |-> Int_(3), max_limit |-> Int_(2)])})
  \cup On("endpoints/e.yml", "cache", {Map([policy |-> Nil])})
  \cup On("endpoints/e.yml", "combinations", {Str("text"), List(<<Strs(<<"from", "from">>), Strs(<<"n">>)>>)})
  \cup On("endpoints/e.yml", "columns", {Nil, Strs(<<"account_id">>), Strs(<<"account_id", "calls", "day">>)})
  \cup On("endpoints/e.yml", "params",
          {Str("text"), List(<<ParamOf("account", "date", FALSE), ParamOf("account", "string", TRUE)>>),
           With(Number(Int_(5))), With(Number(Str("4"))), With(Number(Str("9"))),
           With("max" :> Int_(3) @@ Number(Int_(4))), With("wat" :> Nil @@ Number(Nil)),
           With([name |-> Str("n"), type |-> Str("integer")]),
           With([name |-> Str("k"), type |-> Str("enum"), enum |-> Strs(<<"a">>), default |-> Str("b")]),
           With([name |-> Str("k"), type |-> Str("enum"), enum |-> List(<<Int_(4)>>), default |-> Int_(4)]),
           With([name |-> Str("k"), type |-> Str("enum"), enum |-> Strs(<<"a">>),
                 aliases |-> Map([x |-> Str("a")])]),
           With([name |-> Str("on"), type |-> Str("boolean"), aliases |-> Map([x |-> Int_(1)])])})
  \cup On("endpoints/e.yml", "query",
          {Nil, Narrow, QueryOf(ByAccount, Selected, <<FilterOn("account_id", "eq", "k")>>, Nil),
           QueryOf(Nil, Selected, BaseFilters, Nil),
           QueryOf(Strs(<<"calls">>), Selected, BaseFilters, Nil),
           QueryOf(Strs(<<"account_id", "calls">>), Selected, BaseFilters, Nil),
           QueryOf(Nil, <<Plain("account_id", "account_id"), Plain("calls", "users")>>, <<>>,
                   List(<<Map([column |-> Str("calls")]), Map([column |-> Str("day"), dir |-> Str("up")])>>)),
           QueryOf(ByAccount, Append(Selected, Plain("day", "nowhere")), BaseFilters, Str("text")),
           QueryOf(ByAccount, <<Plain("account_id", "account_id"),
                                Map([as |-> Str("calls"), column |-> Str("stats"), agg |-> Str("max")])>>,
                   BaseFilters, Nil),
           QueryOf(ByAccount, Selected, <<FilterOn("tenant_id", "eq", "account")>>, Nil),
           QueryOf(ByAccount, Selected, <<FilterOn("calls", "in", "account"), FilterOn("day", "eq", "on")>>, Nil)})

KeyEdits ==
  On("keys/keys.yml", "keys", {Nil, List(<<KeyOf("k", "nowhere")>>), List(<<KeyOf("k", "e"), KeyOf("k", "e")>>),
                               List(<<Map([id |-> Str("k")]), Str("text")>>)})

ManifestEdits ==
  On(Source, "dataset_id", {Str("Bad Id"), Int_(1)})
  \cup On(Source, "watermark", {Nil, Str("text")})
  \cup On(Source, "row_count", {Nil, Int_(-1), Str("4")})
  \cup On(Source, "schema_version", {Int_(0)})
  \cup On(Source, "sort_columns", {Nil, Strs(<<"day">>)})
  \cup On(Source, "files", {List(<<File("nowhere"), File("gs")>>), List(<<File("other.csv")>>), List(<<>>)})
  \cup On(Source, "schema", {List(<<Column("users", "INTEGER")>>), List(<<Column("tenant_id", "VARCHAR"), Column("4", "INTEGER")>>),
                             List(<<Column("users", "INTEGER"), Column("users", "FLOAT")>>),
                             List(<<Column("users", "INTEGER"), Column("true", "BIGINT")>>),
                             List(<<Column("1e5", "DOUBLE"), Column("NULL", "VARCHAR")>>)})
  \cup On(Source, "compatibility_policy", {Str("text")})
  \cup {Whole(Source, Unreadable)}

From == "from" :> Str("today")
RequestsOf ==
  {From, From @@ "account" :> Str("x"), From @@ "n" :> Str("4"), From @@ "k" :> Str("x"),
   From @@ "tenant_id" :> Str("x"), From @@ "limit" :> Str("4"),
   From @@ "columns" :> Strs(<<"account_id">>), "account" :> Str("x"),
   "account" :> Str("x") @@ "columns" :> Strs(<<"calls">>), From @@ "account" :> Strs(<<"x">>)}

BaseOnly == {Base}
EditsOf == ProjectEdits \cup DatasetEdits \cup EndpointEdits \cup KeyEdits \cup ManifestEdits
=============================================================================
