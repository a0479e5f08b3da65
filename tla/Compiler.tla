------------------------------ MODULE Compiler ------------------------------
(***************************************************************************)
(* Offloader.Compiler: from an endpoint that the catalog accepted and a    *)
(* request to the SQL that answers it.  The SQL is kept as the record of   *)
(* what its clauses refer to.  A request maps the parameters it names to   *)
(* strings, limit and offset included, and columns to a list of names.     *)
(***************************************************************************)
EXTENDS Catalog

Reserved == {"limit", "offset", "columns"}

Selects(ep) == Items(At(At(ep, "query"), "select"))
FilterList(ep) == Items(At(At(ep, "query"), "filters"))
ParamList(ep) == Items(At(ep, "params"))
NamesOf(list) == {list[i][2] : i \in DOMAIN list}

-----------------------------------------------------------------------------
(* Request validation *)

RejectUnknown(ep, request) ==
  DOMAIN request \subseteq NamesOf(Names(ParamList(ep), "name")) \cup Reserved

\* The parameters sent are exactly those of one of the combinations, if any.
CheckCombination(ep, request) ==
  LET combos == Items(At(ep, "combinations"))
  IN  combos # <<>> => \E i \in DOMAIN combos : NamesOf(combos[i][2]) = DOMAIN request \ Reserved

\* Only a declared parameter that was left out and has a default is bound anyway.
ApplyAliases(p, v) == IF Has(At(p, "aliases"), v[2]) THEN At(At(p, "aliases"), v[2]) ELSE v

\* Mutant: only the configured maximum bounds an integer.
CoerceUpToMax(p, v, filters, ds) ==
  LET aliased == ApplyAliases(p, v)
      is(type) == IsStr(v) /\ At(p, "type") = Str(type)
  IN  CASE is("string") -> {aliased}
        [] is("date") -> {v} \cap {Str(d) : d \in IsoDates}
        [] is("boolean") -> {Bool(b) : b \in {c \in BOOLEAN : v = Str(IF c THEN "true" ELSE "false")}}
        [] is("integer") ->
             {Int_(n) : n \in {k \in IntegerOf(v) : IsInteger(At(p, "max")) => k <= At(p, "max")[2]}}
        [] is("enum") /\ Member(Items(At(p, "enum")), aliased) -> {aliased}
        [] OTHER -> {}

\* What a value sent for p is bound as: a set of at most one value.
Coerce(p, v, filters, ds) ==
  LET range(n) == n \in ParamRange(p, filters, ds) /\ (IsInteger(At(p, "max")) => n <= At(p, "max")[2])
      aliased == ApplyAliases(p, v)
      is(type) == IsStr(v) /\ At(p, "type") = Str(type)
  IN  CASE is("string") -> {aliased}
        [] is("date") -> {v} \cap {Str(d) : d \in IsoDates}
        [] is("boolean") -> {Bool(b) : b \in {c \in BOOLEAN : v = Str(IF c THEN "true" ELSE "false")}}
        [] is("integer") -> {Int_(n) : n \in {k \in IntegerOf(v) : range(k)}}
        [] is("enum") /\ Member(Items(At(p, "enum")), aliased) -> {aliased}
        [] OTHER -> {}

Default(p) ==
  IF At(p, "default") = Nil THEN {}
  ELSE IF At(p, "type") = Str("integer") THEN {Int_(n) : n \in IntegerOf(At(p, "default"))}
  ELSE {At(p, "default")}

Sent(p, request) == At(p, "name")[2] \in DOMAIN request
ValueOf(p, request, filters, ds) ==
  IF Sent(p, request) THEN Coerce(p, request[At(p, "name")[2]], filters, ds) ELSE Default(p)

CoerceParams(ep, request, ds) ==
  \A i \in DOMAIN ParamList(ep) :
    LET p == ParamList(ep)[i]
    IN  IF Sent(p, request)
        THEN ValueOf(p, request, FilterList(ep), ds) # {}
        ELSE At(p, "required") # Bool(TRUE)

CoerceColumns(ep, request) ==
  "columns" \in DOMAIN request =>
    /\ Items(request["columns"]) # <<>>
    /\ NamesOf(Items(request["columns"])) \subseteq NamesOf(Items(At(ep, "columns")))

\* An endpoint without pagination has the limits 50 and 100, scaled down to 1 and 2.
CoerceLimit(ep, request) ==
  LET max == IF At(ep, "pagination") = Nil THEN 2 ELSE At(At(ep, "pagination"), "max_limit")[2]
  IN  "limit" \in DOMAIN request => \E n \in IntegerOf(request["limit"]) : n >= 1 /\ n <= max
CoerceOffset(request) == "offset" \in DOMAIN request => \E n \in IntegerOf(request["offset"]) : n >= 0

Valid(ep, request, ds) ==
  /\ RejectUnknown(ep, request)
  /\ CheckCombination(ep, request)
  /\ CoerceParams(ep, request, ds)
  /\ CoerceColumns(ep, request)
  /\ CoerceLimit(ep, request)
  /\ CoerceOffset(request)

-----------------------------------------------------------------------------
(* SQL assembly *)

FindSelect(ep, as) == CHOOSE i \in DOMAIN Selects(ep) : At(Selects(ep)[i], "as") = as

\* The outputs the query computes, by their place in the select list.
SelectedItems(ep, request) ==
  LET kept(s) == "columns" \in DOMAIN request => Member(Items(request["columns"]), At(s, "as"))
  IN  [i \in {j \in DOMAIN Selects(ep) : kept(Selects(ep)[j])} |-> Selects(ep)[i]]

GroupBySql(ep) ==
  LET names == Items(GroupBy(At(ep, "query")))
  IN  [i \in DOMAIN names |-> At(Selects(ep)[FindSelect(ep, names[i])], "column")[2]]

\* The expressions that rows are ordered by, an output that was not selected included.
OrderBySql(ep) ==
  LET orders == Items(At(At(ep, "query"), "order_by"))
  IN  [i \in DOMAIN orders |-> Selects(ep)[FindSelect(ep, At(orders[i], "column"))]]

\* The conditions, by place: 0 for the caller's tenant, i for the i-th filter, if it has a value.
Where(ep, request, tenant, ds) ==
  LET params == ParamList(ep)
      filters == FilterList(ep)
      bound(f) == UNION {ValueOf(params[i], request, filters, ds) :
                           i \in {j \in DOMAIN params : At(params[j], "name") = At(f, "param")}}
      condition(col, op, v) == [column |-> col, op |-> op, value |-> v]
      pinned == At(At(ep, "tenant"), "column")
      places == {i \in {0} : pinned # Nil} \cup {i \in DOMAIN filters : bound(filters[i]) # {}}
  IN  [i \in places |->
         IF i = 0
         THEN condition(pinned[2], "eq", tenant)
         ELSE condition(At(filters[i], "column")[2], At(filters[i], "op")[2], CHOOSE v \in bound(filters[i]) : TRUE)]

Build(ep, request, tenant, ds) ==
  [select |-> SelectedItems(ep, request),
   where |-> Where(ep, request, tenant, ds),
   group |-> GroupBySql(ep),
   order |-> OrderBySql(ep)]
=============================================================================
