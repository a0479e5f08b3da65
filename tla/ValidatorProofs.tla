-------------------------- MODULE ValidatorProofs --------------------------
(***************************************************************************)
(* What holds of the two validators for every project, however many files  *)
(* it has and whatever values they hold: the helper (Tool, tools/*.go) and *)
(* the server (Server, catalog.ex) report the same findings of files that  *)
(* both read alike, so that a project that serve checked boots; and in a   *)
(* catalog that the server accepts, tenants are kept apart and every query *)
(* that the compiler makes of a request can be run.  Then the same of a    *)
(* manifest: what the pre-check passes, the container loads.  Last, the    *)
(* two commands that write files: what scaffold-dataset writes answers     *)
(* requests, and what init writes the helper's own validator accepts.      *)
(*                                                                         *)
(* The agreement goes up from the fields to the project.  ToolReading and  *)
(* ServerReading say that the two instances read a document by the same    *)
(* operators; SameX, for a rule X, that it reports the same on both sides, *)
(* as a set of findings; then come the files of a directory, where both    *)
(* sides go on with the files that passed; then the project as a whole.    *)
(* XPasses says what the loader's rule for X, without findings, leaves; on *)
(* that rests, for each clause of a query, what it compares and returns.   *)
(***************************************************************************)
EXTENDS ServeCommandProofs

(* The helper's rules read a document by the operators of Yaml; so do the  *)
(* server's.                                                               *)
LEMMA ToolReading ==
  /\ Tool!Nil = Nil /\ Tool!Top = Top /\ Tool!Self = Self /\ Tool!Absent = Absent
  /\ \A s : Tool!Str(s) = Str(s)
  /\ \A v, key : Tool!At(v, key) = At(v, key)
  /\ \A v, key : Tool!Has(v, key) = Has(v, key)
  /\ \A v : Tool!Items(v) = Items(v)
  /\ \A v : Tool!IsStr(v) = IsStr(v)
  /\ \A v : Tool!IsBool(v) = IsBool(v)
  /\ \A v : Tool!IsMap(v) = IsMap(v)
  /\ \A v : Tool!IsList(v) = IsList(v)
  /\ \A v : Tool!IsScalar(v) = IsScalar(v)
  /\ \A v : Tool!IsNonEmpty(v) = IsNonEmpty(v)
  /\ \A v : Tool!SafeIdent(v) = SafeIdent(v)
  /\ \A v : Tool!SafeColumn(v) = SafeColumn(v)
  /\ \A v, s : Tool!IsOneOf(v, s) = IsOneOf(v, s)
BY Zenon DEF Tool!Nil, Nil, Tool!Top, Top, Tool!Self, Self, Tool!Absent, Absent,
  Tool!Str, Str, Tool!At, At, Tool!Has, Has, Tool!Items, Items,
  Tool!IsStr, IsStr, Tool!IsBool, IsBool, Tool!IsMap, IsMap, Tool!IsList, IsList,
  Tool!IsScalar, IsScalar, Tool!IsNonEmpty, IsNonEmpty, Tool!SafeIdent, SafeIdent,
  Tool!SafeColumn, SafeColumn, Tool!IsOneOf, IsOneOf

LEMMA ServerReading ==
  /\ Server!Nil = Nil /\ Server!Top = Top /\ Server!Self = Self /\ Server!Absent = Absent
  /\ \A s : Server!Str(s) = Str(s)
  /\ \A v, key : Server!At(v, key) = At(v, key)
  /\ \A v, key : Server!Has(v, key) = Has(v, key)
  /\ \A v : Server!Items(v) = Items(v)
  /\ \A v : Server!IsStr(v) = IsStr(v)
  /\ \A v : Server!IsBool(v) = IsBool(v)
  /\ \A v : Server!IsMap(v) = IsMap(v)
  /\ \A v : Server!IsList(v) = IsList(v)
  /\ \A v : Server!IsScalar(v) = IsScalar(v)
  /\ \A v : Server!IsNonEmpty(v) = IsNonEmpty(v)
  /\ \A v : Server!SafeIdent(v) = SafeIdent(v)
  /\ \A v : Server!SafeColumn(v) = SafeColumn(v)
  /\ \A v, s : Server!IsOneOf(v, s) = IsOneOf(v, s)
BY Zenon DEF Server!Nil, Nil, Server!Top, Top, Server!Self, Self, Server!Absent, Absent,
  Server!Str, Str, Server!At, At, Server!Has, Has, Server!Items, Items,
  Server!IsStr, IsStr, Server!IsBool, IsBool, Server!IsMap, IsMap, Server!IsList, IsList,
  Server!IsScalar, IsScalar, Server!IsNonEmpty, IsNonEmpty, Server!SafeIdent, SafeIdent,
  Server!SafeColumn, SafeColumn, Server!IsOneOf, IsOneOf

LEMMA SameNames == \A items, key : Tool!Names(items, key) = Server!Names(items, key)
BY ToolReading, ServerReading DEF Tool!Names, Server!Names

LEMMA SameUnknown ==
 \A v, allowed, parent, i :
   Tool!UnknownKeys(v, allowed, parent, i) = Server!UnknownKeys(v, allowed, parent, i)
BY ToolReading, ServerReading DEF Tool!UnknownKeys, Server!UnknownKeys

(* Values that both sides read alike: integers have 64 bits.               *)
Plain(v) ==
  \/ v = Nil
  \/ IsStr(v) /\ v = Str(v[2])
  \/ v[1] = "int" /\ v = Int_(v[2]) /\ v[2] \in MinInt64 .. MaxInt64
  \/ IsBool(v) /\ v = Bool(v[2]) /\ v[2] \in BOOLEAN
  \/ IsList(v) /\ v = List(v[2])
  \/ IsMap(v) /\ v = Map(v[2])

LEMMA KindsApart ==
  ASSUME NEW v
  PROVE  /\ IsMap(v) => v # Nil /\ ~IsList(v) /\ ~IsStr(v) /\ ~IsScalar(v)
         /\ IsList(v) => v # Nil /\ ~IsStr(v) /\ ~IsScalar(v)
         /\ IsStr(v) => v # Nil /\ IsScalar(v)
         /\ v = Nil => IsScalar(v)
         /\ SafeIdent(v) => IsStr(v)
         /\ SafeColumn(v) => IsStr(v)
         /\ IsNonEmpty(v) => IsStr(v)
         /\ \A S : IsOneOf(v, S) => IsStr(v)
         /\ \A key : Has(v, key) => IsMap(v)
         /\ ~IsList(v) => Items(v) = <<>>
         /\ IsList(v) => Items(v) = v[2]
BY DEF IsMap, IsList, IsStr, Nil, Has, IsScalar, SafeIdent, SafeColumn, IsNonEmpty, IsOneOf, Items

LEMMA StrIs ==
  ASSUME NEW v, Plain(v), NEW s
  PROVE  (v = Str(s)) <=> (IsStr(v) /\ v[2] = s)
<1>1. IsStr(v) => v = Str(v[2])
  BY DEF Plain, IsStr, Str, Int_, IsBool, IsList, IsMap, Nil, List, Map, Bool
<1>2. ASSUME v = Str(s) PROVE IsStr(v) /\ v[2] = s
  BY <1>2 DEF IsStr, Str
<1>3. ASSUME IsStr(v), v[2] = s PROVE v = Str(s)
  BY <1>1, <1>3
<1>. QED BY <1>2, <1>3

(* How the helper and the server ask for one of some strings.              *)
LEMMA OneOf ==
  ASSUME NEW v, Plain(v), NEW S
  PROVE  IsOneOf(v, S) <=> (\E s \in S : v = Str(s))
<1>1. ASSUME IsOneOf(v, S) PROVE \E s \in S : v = Str(s)
  BY <1>1, StrIs, Zenon DEF IsOneOf
<1>2. ASSUME NEW s \in S, v = Str(s) PROVE IsOneOf(v, S)
  <2>1. IsStr(v) /\ v[2] = s BY <1>2, StrIs
  <2>. QED BY <2>1 DEF IsOneOf
<1>. QED BY <1>1, <1>2

LEMMA OneOfTwo ==
  ASSUME NEW v, Plain(v), NEW a, NEW b
  PROVE  IsOneOf(v, {a, b}) <=> (v \in {Str(a), Str(b)})
<1>1. IsOneOf(v, {a, b}) <=> (\E s \in {a, b} : v = Str(s)) BY OneOf
<1>. QED BY <1>1, Zenon

(* Both sides take the same values for integers, of 64 bits.               *)
LEMMA Numbers ==
  ASSUME NEW v, Plain(v)
  PROVE  /\ Tool!IsInt(v) <=> Server!IsInteger(v)
         /\ Server!IsInteger(v) => v[2] \in MinInt64 .. MaxInt64
         /\ Tool!IsInt(v) => Tool!AsInt(v) = v[2]
         /\ Tool!IsPositive(v) <=> Server!Positive(v)
<1>1. v[1] = "int" => v[2] \in MinInt64 .. MaxInt64
  BY DEF Plain, IsStr, IsBool, IsList, IsMap, Nil
<1>2. MaxInt64 \in Nat BY WidthAssumption
<1>3. Tool!IsInt(v) <=> v[1] = "int"
  BY <1>1, <1>2 DEF Tool!IsInt, Tool!MinInt64, Tool!MaxUint64, MinInt64
<1>4. v[1] = "int" => Tool!AsInt(v) = v[2]
  BY <1>1, <1>2 DEF Tool!AsInt, MinInt64
<1>. QED BY <1>1, <1>3, <1>4 DEF Server!IsInteger, Tool!IsPositive, Server!Positive

-----------------------------------------------------------------------------
LEMMA SameCache ==
  ASSUME NEW v, Plain(At(v, "policy"))
  PROVE  Tool!Cache(v) = Server!CacheErrors(v)
<1>. USE ToolReading, ServerReading, KindsApart, SameUnknown
     DEF Tool!Cache, Server!CacheErrors, Tool!Flag, Server!Flag
<1>1. CASE v = Nil
  BY <1>1
<1>2. CASE Has(v, "policy")
  <2>1. IsOneOf(At(v, "policy"), {"none", "snapshot"})
          <=> (At(v, "policy") \in {Str("none"), Str("snapshot")})
    BY OneOfTwo
  <2>. QED BY <1>2, <2>1
<1>3. CASE v # Nil /\ ~Has(v, "policy")
  BY <1>3
<1>. QED BY <1>1, <1>2, <1>3

LEMMA SameFreshness ==
  ASSUME NEW v, Plain(At(v, "max_staleness_minutes"))
  PROVE  Tool!Freshness(v) = Server!Optional(v, "freshness", Server!FreshnessErrors)
<1>. USE ToolReading, ServerReading, KindsApart, SameUnknown, Numbers
     DEF Tool!Freshness, Server!Optional, Server!FreshnessErrors, Tool!Flag, Server!Flag
<1>1. CASE v = Nil
  BY <1>1
<1>2. CASE IsMap(v)
  BY <1>2
<1>3. CASE v # Nil /\ ~IsMap(v)
  BY <1>3
<1>. QED BY <1>1, <1>2, <1>3

LEMMA SamePagination ==
  ASSUME NEW v, Plain(At(v, "default_limit")), Plain(At(v, "max_limit"))
  PROVE  Tool!Pagination(v) = Server!Optional(v, "pagination", Server!PaginationErrors)
<1>. DEFINE default == At(v, "default_limit")
            max == At(v, "max_limit")
            known == Server!UnknownKeys(v, {"default_limit", "max_limit"}, "pagination", 0)
<1>1. CASE v = Nil
  BY <1>1, ToolReading, ServerReading, KindsApart DEF Tool!Pagination, Server!Optional
<1>2. CASE IsMap(v)
  <2>1. /\ Tool!IsPositive(default) <=> Server!Positive(default)
        /\ Tool!IsPositive(max) <=> Server!Positive(max)
        /\ Tool!IsPositive(default) => Tool!AsInt(default) = default[2]
        /\ Tool!IsPositive(max) => Tool!AsInt(max) = max[2]
    BY Numbers DEF Tool!IsPositive
  <2>2. Tool!Pagination(v) =
          known
          \cup Tool!Flag(~Tool!IsPositive(default)
                           \/ (Tool!IsPositive(max) /\ Tool!AsInt(default) > Tool!AsInt(max)),
                         "pagination", 0, "default_limit", "invalid_value")
          \cup Tool!Flag(Tool!IsPositive(default) /\ ~Tool!IsPositive(max),
                         "pagination", 0, "max_limit", "invalid_value")
    <3>1. v # Nil /\ Tool!IsMap(v) /\ v # Tool!Nil BY <1>2, KindsApart, ToolReading
    <3>2. /\ Tool!UnknownKeys(v, {"default_limit", "max_limit"}, "pagination", 0) = known
          /\ Tool!At(v, "default_limit") = default /\ Tool!At(v, "max_limit") = max
      BY SameUnknown, ToolReading
    <3>. QED BY <3>1, <3>2, Zenon DEF Tool!Pagination
  <2>3. Server!Optional(v, "pagination", Server!PaginationErrors) =
          known
          \cup CASE ~Server!Positive(default) -> {<<"pagination", 0, "default_limit", "invalid_value">>}
                 [] Server!Positive(default) /\ ~Server!Positive(max) ->
                      {<<"pagination", 0, "max_limit", "invalid_value">>}
                 [] OTHER -> Server!Flag(default[2] > max[2],
                                         "pagination", 0, "default_limit", "invalid_value")
    <3>1. v # Nil /\ Server!IsMap(v) /\ v # Server!Nil BY <1>2, KindsApart, ServerReading
    <3>2. Server!At(v, "default_limit") = default /\ Server!At(v, "max_limit") = max
      BY ServerReading
    <3>. QED BY <3>1, <3>2, Zenon DEF Server!Optional, Server!PaginationErrors
  <2>. HIDE DEF default, max, known
  <2>. QED BY <2>1, <2>2, <2>3 DEF Tool!Flag, Server!Flag
<1>3. CASE v # Nil /\ ~IsMap(v)
  BY <1>3, ToolReading, ServerReading, KindsApart DEF Tool!Pagination, Server!Optional
<1>. QED BY <1>1, <1>2, <1>3

LEMMA SameTenant ==
  ASSUME NEW t, NEW ds, Plain(At(t, "column"))
  PROVE  Tool!Tenant(t, ds) = Server!TenantErrors(t, ds)
<1>. DEFINE col == At(t, "column")
            known == Server!UnknownKeys(t, {"column"}, "tenant", 0)
<1>1. /\ Tool!At(t, "column") = col /\ Server!At(t, "column") = col
      /\ Tool!UnknownKeys(t, {"column"}, "tenant", 0) = known
      /\ Server!UnknownKeys(t, {"column"}, "tenant", 0) = known
      /\ Tool!Has(t, "column") = Has(t, "column") /\ Server!Has(t, "column") = Has(t, "column")
      /\ Tool!SafeColumn(col) = SafeColumn(col) /\ Server!SafeColumn(col) = SafeColumn(col)
      /\ Tool!Nil = Nil /\ Server!Nil = Nil /\ Tool!Absent = Absent /\ Server!Absent = Absent
      /\ Tool!Top = Top /\ Server!Top = Top /\ Server!Str(ds.tenant) = Str(ds.tenant)
  BY ToolReading, ServerReading, SameUnknown, Zenon
<1>2. SafeColumn(col) => ((col = Str(ds.tenant)) <=> (col[2] = ds.tenant))
  BY StrIs, KindsApart
<1>3. Has(t, "column") => t # Nil BY KindsApart
<1>. HIDE DEF col, known
<1>4. CASE ds.tenant = Absent /\ t = Nil
  BY <1>1, <1>4 DEF Tool!Tenant, Server!TenantErrors, Tool!Flag, Server!Flag
<1>5. CASE ds.tenant = Absent /\ t # Nil
  BY <1>1, <1>5 DEF Tool!Tenant, Server!TenantErrors, Tool!Flag, Server!Flag
<1>6. CASE ds.tenant # Absent /\ Has(t, "column")
  <2>1. t # Nil BY <1>3, <1>6
  <2>2. Tool!Tenant(t, ds) =
          known \cup (IF SafeColumn(col)
                      THEN Tool!Flag(col[2] # ds.tenant, "tenant", 0, "column", "tenant_mismatch")
                      ELSE {<<"tenant", 0, "column", "unsafe_identifier">>})
    BY <1>1, <1>6, <2>1, Zenon DEF Tool!Tenant
  <2>3. Server!TenantErrors(t, ds) =
          known
          \cup Server!Flag(~SafeColumn(col), "tenant", 0, "column", "unsafe_identifier")
          \cup Server!Flag(SafeColumn(col) /\ col # Str(ds.tenant),
                           "tenant", 0, "column", "tenant_mismatch")
    BY <1>1, <1>6, <2>1, Zenon DEF Server!TenantErrors
  <2>. QED BY <1>2, <2>2, <2>3 DEF Tool!Flag, Server!Flag
<1>7. CASE ds.tenant # Absent /\ ~Has(t, "column")
  BY <1>1, <1>7 DEF Tool!Tenant, Server!TenantErrors, Tool!Flag, Server!Flag
<1>. QED BY <1>4, <1>5, <1>6, <1>7

-----------------------------------------------------------------------------
(* Lists                                                                   *)

\* A set of values that is closed under taking what a list or a mapping holds.
Closed(V) ==
  /\ Nil \in V
  /\ \A v \in V : Plain(v)
  /\ \A v \in V : IsList(v) => v[2] \in Seq(V)
  /\ \A v \in V : IsMap(v) => \A key \in DOMAIN v[2] : v[2][key] \in V

(* Whatever is taken out of a value of V is one of V's.                    *)
LEMMA Inside ==
  ASSUME NEW V, Closed(V), NEW v \in V
  PROVE  /\ \A key : At(v, key) \in V
         /\ Items(v) \in Seq(V)
         /\ \A i \in DOMAIN Items(v) : Items(v)[i] \in V
<1>1. ASSUME NEW key PROVE At(v, key) \in V
  BY DEF Closed, At, Has
<1>2. Items(v) \in Seq(V)
  BY DEF Closed, Items
<1>3. \A i \in DOMAIN Items(v) : Items(v)[i] \in V
  BY <1>2
<1>. QED BY <1>1, <1>2, <1>3

LEMMA NamesAreStrings ==
  ASSUME NEW items, NEW key
  PROVE  \A i \in DOMAIN Names(items, key) : IsStr(Names(items, key)[i])
BY DEF Names

LEMMA NamesRead ==
  ASSUME NEW items, NEW key
  PROVE  /\ Tool!Names(items, key) = Names(items, key)
         /\ Server!Names(items, key) = Names(items, key)
BY ToolReading, ServerReading, Zenon DEF Tool!Names, Server!Names, Names

\* No list or mapping among them: those are equal to themselves only for the server.
Scalars(list) == \A i \in DOMAIN list : IsScalar(list[i])

LEMMA SameIsEqual ==
  ASSUME NEW a, NEW b, IsScalar(a) \/ IsScalar(b)
  PROVE  Tool!Same(a, b) <=> (a = b)
BY ToolReading DEF Tool!Same

LEMMA SameMember ==
  ASSUME NEW list, NEW v, Scalars(list)
  PROVE  Tool!ContainsAny(list, v) <=> Server!Member(list, v)
<1>1. \A i \in DOMAIN list : Tool!Same(list[i], v) <=> (list[i] = v)
  BY SameIsEqual DEF Scalars
<1>. QED BY <1>1 DEF Tool!ContainsAny, Server!Member

LEMMA SameDuplicates ==
  ASSUME NEW list, Scalars(list)
  PROVE  Tool!HasDuplicates(list) <=> Server!Duplicates(list)
<1>1. \A i, j \in DOMAIN list : Tool!Same(list[i], list[j]) <=> (list[i] = list[j])
  BY SameIsEqual DEF Scalars
<1>. QED BY <1>1 DEF Tool!HasDuplicates, Server!Duplicates

LEMMA NamesAreScalars ==
  ASSUME NEW items, NEW key
  PROVE  Scalars(Names(items, key))
BY NamesAreStrings, KindsApart DEF Scalars

LEMMA SameCount ==
  \A S : /\ Tool!Cardinality(S) = Cardinality(S)
         /\ Server!Cardinality(S) = Cardinality(S)
BY Zenon DEF Tool!Cardinality, Server!Cardinality, Cardinality

LEMMA SameLeaves ==
  ASSUME NEW a, NEW b, Scalars(a)
  PROVE  Tool!Leaves(a, b) <=> Server!Difference(a, b)
<1>. DEFINE tool(list, v) == {i \in DOMAIN list : Tool!Same(list[i], v)}
            server(list, v) == {i \in DOMAIN list : list[i] = v}
<1>1. ASSUME NEW i \in DOMAIN a
      PROVE  /\ Tool!IsScalar(a[i])
             /\ tool(a, a[i]) = server(a, a[i]) /\ tool(b, a[i]) = server(b, a[i])
  <2>1. IsScalar(a[i]) BY DEF Scalars
  <2>2. \A x : Tool!Same(x, a[i]) <=> (x = a[i]) BY <2>1, SameIsEqual
  <2>3. Tool!IsScalar(a[i]) BY <2>1, ToolReading
  <2>. QED BY <2>2, <2>3
<1>2. Tool!Leaves(a, b) <=>
        \E i \in DOMAIN a : Cardinality(tool(a, a[i])) > Cardinality(tool(b, a[i]))
  BY <1>1, SameCount DEF Tool!Leaves
<1>3. Server!Difference(a, b) <=>
        \E i \in DOMAIN a : Cardinality(server(a, a[i])) > Cardinality(server(b, a[i]))
  BY SameCount DEF Server!Difference
<1>. HIDE DEF tool, server
<1>. QED BY <1>1, <1>2, <1>3

\* A list or mapping among the wanted: neither side finds it among strings.
LEMMA SameLeavesOfStrings ==
  ASSUME NEW V, NEW a \in Seq(V), NEW b, Scalars(b)
  PROVE  Tool!Leaves(a, b) <=> Server!Difference(a, b)
<1>1. CASE Scalars(a)
  BY <1>1, SameLeaves
<1>2. CASE ~Scalars(a)
  <2>1. PICK i \in DOMAIN a : ~IsScalar(a[i]) BY <1>2 DEF Scalars
  <2>2. Tool!Leaves(a, b)
    <3>1. ~Tool!IsScalar(a[i]) BY <2>1, ToolReading
    <3>. QED BY <3>1, <2>1, Zenon DEF Tool!Leaves
  <2>. DEFINE held == {j \in DOMAIN a : a[j] = a[i]}
              known == {j \in DOMAIN b : b[j] = a[i]}
  <2>3. known = {} BY <2>1 DEF Scalars
  <2>4. Cardinality(known) = 0 BY <2>3, FS_EmptySet
  <2>5. IsFiniteSet(held)
    <3>1. IsFiniteSet(1 .. Len(a)) BY FS_Interval
    <3>2. held \subseteq 1 .. Len(a) OBVIOUS
    <3>. QED BY <3>1, <3>2, FS_Subset
  <2>6. Cardinality(held) > 0
    <3>1. i \in held BY <2>1
    <3>2. Cardinality(held) \in Nat /\ Cardinality(held) # 0
      BY <2>5, <3>1, FS_CardinalityType, FS_EmptySet
    <3>. QED BY <3>2
  <2>7. Server!Difference(a, b)
    <3>1. Cardinality(held) > Cardinality(known) BY <2>4, <2>6
    <3>. QED BY <3>1, <2>1, SameCount DEF Server!Difference
  <2>. QED BY <2>2, <2>7
<1>. QED BY <1>1, <1>2

-----------------------------------------------------------------------------
(* Params                                                                  *)

LEMMA StrApart ==
  \A s, t : s # t => Str(s) # Str(t)
<1>1. \A s : Str(s)[2] = s BY DEF Str
<1>. QED BY <1>1

LEMMA SameTypeRule ==
  ASSUME NEW p, NEW i, Plain(At(p, "type"))
  PROVE  Tool!ParamTypeRule(p, i) = Server!TypeErr(p, i)
<1>. DEFINE type == At(p, "type")
<1>1. /\ Tool!At(p, "type") = type /\ Server!At(p, "type") = type
      /\ Tool!Items(Tool!At(p, "enum")) = Items(At(p, "enum"))
      /\ Server!Items(Server!At(p, "enum")) = Items(At(p, "enum"))
      /\ Tool!Str("enum") = Str("enum") /\ Server!Str("enum") = Str("enum")
      /\ Tool!IsOneOf(type, Tool!ParamTypes) = IsOneOf(type, Tool!ParamTypes)
      /\ Server!IsOneOf(type, {"string", "integer", "date", "boolean"})
           = IsOneOf(type, {"string", "integer", "date", "boolean"})
  BY ToolReading, ServerReading, Zenon
<1>2. /\ (type = Str("enum")) <=> (IsStr(type) /\ type[2] = "enum")
      /\ IsOneOf(type, Tool!ParamTypes) <=> (IsStr(type) /\ type[2] \in Tool!ParamTypes)
      /\ IsOneOf(type, {"string", "integer", "date", "boolean"})
           <=> (IsStr(type) /\ type[2] \in {"string", "integer", "date", "boolean"})
  BY StrIs DEF IsOneOf
<1>. HIDE DEF type
<1>. USE <1>1, <1>2
<1>3. CASE type = Str("enum")
  BY <1>3 DEF Tool!ParamTypeRule, Server!TypeErr, Tool!Flag, Server!Flag
<1>4. CASE IsStr(type) /\ type[2] \in {"string", "integer", "date", "boolean"}
  BY <1>4 DEF Tool!ParamTypeRule, Server!TypeErr, Tool!Flag, Server!Flag, Tool!ParamTypes
<1>5. CASE ~(IsStr(type) /\ type[2] \in {"string", "integer", "date", "boolean"}) /\ type # Str("enum")
  BY <1>5 DEF Tool!ParamTypeRule, Server!TypeErr, Tool!Flag, Server!Flag, Tool!ParamTypes
<1>. QED BY <1>3, <1>4, <1>5

\* What both sides say of a param's aliases.
AliasFindings(p, i) ==
  LET a == Server!At(p, "aliases")
  IN  IF Server!IsMap(a) THEN Server!AliasesErr(p, a, i)
      ELSE Server!Flag(a # Server!Nil, "params", i, "aliases", "invalid_type")

LEMMA SameAliases ==
  ASSUME NEW p, NEW i, Plain(At(p, "type")), Scalars(Items(At(p, "enum")))
  PROVE  Tool!Aliases(p, i) = AliasFindings(p, i)
<1>. DEFINE type == At(p, "type")
            a == At(p, "aliases")
            enum == At(p, "enum")
            wrong == {<<"params", i, "aliases", "invalid_type">>}
            bad == {<<"params", i, "aliases", "invalid_value">>}
<1>1. /\ Tool!At(p, "type") = type /\ Server!At(p, "type") = type
      /\ Tool!At(p, "aliases") = a /\ Server!At(p, "aliases") = a
      /\ Tool!At(p, "enum") = enum /\ Server!At(p, "enum") = enum
      /\ Tool!Nil = Nil /\ Server!Nil = Nil
      /\ Tool!IsMap(a) = IsMap(a) /\ Server!IsMap(a) = IsMap(a)
      /\ Tool!IsList(enum) = IsList(enum) /\ Server!IsList(enum) = IsList(enum)
      /\ Tool!Str("enum") = Str("enum") /\ Server!Str("enum") = Str("enum")
      /\ Server!Str("string") = Str("string")
      /\ Tool!IsOneOf(type, {"string", "enum"}) = IsOneOf(type, {"string", "enum"})
  BY ToolReading, ServerReading, Zenon
<1>2. IsOneOf(type, {"string", "enum"}) <=> (type = Str("string") \/ type = Str("enum"))
  BY OneOfTwo
<1>3. CASE ~IsMap(a)
  <2>1. CASE a = Nil
    BY <1>1, <1>3, <2>1, Zenon DEF Tool!Aliases, AliasFindings, Server!Flag
  <2>2. CASE a # Nil
    BY <1>1, <1>3, <2>2, Zenon DEF Tool!Aliases, AliasFindings, Server!Flag
  <2>. QED BY <2>1, <2>2
<1>4. CASE IsMap(a)
  <2>. DEFINE odd == \E k \in DOMAIN a[2] : ~IsStr(a[2][k])
              outside == \E k \in DOMAIN a[2] : ~Server!Member(enum[2], a[2][k])
              untyped == ~(type = Str("string") \/ type = Str("enum"))
              unlisted == type = Str("enum") /\ IsList(enum) /\ outside
  <2>1. a # Nil BY <1>4, KindsApart
  <2>2. IsList(enum) => \A k : Tool!ContainsAny(enum[2], a[2][k]) <=> Server!Member(enum[2], a[2][k])
    BY SameMember, KindsApart
  <2>3. Tool!Aliases(p, i) = Tool!Flag(odd, "params", i, "aliases", "invalid_type")
                             \cup Tool!Flag(untyped \/ unlisted, "params", i, "aliases", "invalid_value")
    <3>1. Tool!Aliases(p, i) =
            Tool!Flag(\E k \in DOMAIN a[2] : ~Tool!IsStr(a[2][k]), "params", i, "aliases", "invalid_type")
            \cup Tool!Flag(\/ ~IsOneOf(type, {"string", "enum"})
                           \/ /\ IsList(enum)
                              /\ type = Str("enum")
                              /\ \E k \in DOMAIN a[2] : ~Tool!ContainsAny(enum[2], a[2][k]),
                           "params", i, "aliases", "invalid_value")
      BY <1>1, <1>4, <2>1, Zenon DEF Tool!Aliases
    <3>2. odd <=> (\E k \in DOMAIN a[2] : ~Tool!IsStr(a[2][k])) BY ToolReading
    <3>3. (untyped \/ unlisted) <=>
            (\/ ~IsOneOf(type, {"string", "enum"})
             \/ /\ IsList(enum)
                /\ type = Str("enum")
                /\ \E k \in DOMAIN a[2] : ~Tool!ContainsAny(enum[2], a[2][k]))
      BY <1>2, <2>2
    <3>. QED BY <3>1, <3>2, <3>3, Zenon DEF Tool!Flag
  <2>4. AliasFindings(p, i) = Server!Flag(odd, "params", i, "aliases", "invalid_type")
                              \cup Server!Flag(untyped, "params", i, "aliases", "invalid_value")
                              \cup Server!Flag(unlisted, "params", i, "aliases", "invalid_value")
    <3>. DEFINE targets == {a[2][k] : k \in DOMAIN a[2]}
    <3>1. AliasFindings(p, i) =
            Server!Flag(\E v \in targets : ~Server!IsStr(v), "params", i, "aliases", "invalid_type")
            \cup Server!Flag(~(type = Str("enum")) /\ type # Str("string"),
                             "params", i, "aliases", "invalid_value")
            \cup Server!Flag(/\ type = Str("enum") /\ IsList(enum)
                             /\ \E v \in targets : ~Server!Member(enum[2], v),
                             "params", i, "aliases", "invalid_value")
      BY <1>1, <1>4, Zenon DEF AliasFindings, Server!AliasesErr
    <3>2. odd <=> (\E v \in targets : ~Server!IsStr(v)) BY ServerReading
    <3>3. outside <=> (\E v \in targets : ~Server!Member(enum[2], v)) OBVIOUS
    <3>4. untyped <=> (~(type = Str("enum")) /\ type # Str("string")) OBVIOUS
    <3>. QED BY <3>1, <3>2, <3>3, <3>4, Zenon DEF Server!Flag
  <2>. HIDE DEF odd, untyped, unlisted
  <2>. QED BY <2>3, <2>4 DEF Tool!Flag, Server!Flag
<1>. QED BY <1>3, <1>4

-----------------------------------------------------------------------------
(* The columns of a dataset                                                *)

LEMMA AbsentIsNoType == Absent \notin ColumnTypes
BY Zenon DEF Absent, ColumnTypes

\* What the rules for endpoints know of a dataset without findings.
Typed(ds) == \A n \in DOMAIN ds.types : ds.types[n] \in ColumnTypes

LEMMA SameColumnType ==
  ASSUME NEW ds, Typed(ds), NEW v
  PROVE  /\ (Tool!TypeOf(ds, v) = Absent) <=> (Server!ColumnType(ds, v) = {})
         /\ Tool!TypeOf(ds, v) # Absent => Server!ColumnType(ds, v) = {Tool!TypeOf(ds, v)}
         /\ \A t \in ColumnTypes : (Tool!TypeOf(ds, v) = t) <=> (Server!ColumnType(ds, v) = {t})
<1>1. Tool!IsStr(v) = IsStr(v) /\ Server!IsStr(v) = IsStr(v) /\ Tool!Absent = Absent
  BY ToolReading, ServerReading, Zenon
<1>2. CASE IsStr(v) /\ v[2] \in DOMAIN ds.types
  <2>1. Tool!TypeOf(ds, v) = ds.types[v[2]] BY <1>1, <1>2, Zenon DEF Tool!TypeOf
  <2>2. Server!ColumnType(ds, v) = {ds.types[v[2]]} BY <1>1, <1>2, Zenon DEF Server!ColumnType
  <2>3. ds.types[v[2]] \in ColumnTypes BY <1>2 DEF Typed
  <2>. QED BY <2>1, <2>2, <2>3, AbsentIsNoType
<1>3. CASE ~(IsStr(v) /\ v[2] \in DOMAIN ds.types)
  <2>1. Tool!TypeOf(ds, v) = Absent BY <1>1, <1>3, Zenon DEF Tool!TypeOf
  <2>2. Server!ColumnType(ds, v) = {} BY <1>1, <1>3, Zenon DEF Server!ColumnType
  <2>. QED BY <2>1, <2>2, AbsentIsNoType
<1>. QED BY <1>2, <1>3

-----------------------------------------------------------------------------
(* Defaults                                                                *)

\* What both sides agree on: whether a param's default is reported.
ToolDefault(p, filters, ds) ==
  \/ At(p, "default") # Nil /\ ~Tool!DefaultFits(p)
  \/ Tool!OutOfRange(p, filters, ds)

\* The same at the server.
ServerDefault(p, filters, ds) ==
  \/ At(p, "default") # Nil /\ ~Server!ValidDefault(p, At(p, "default"))
  \/ /\ At(p, "type") = Str("integer")
     /\ ~(Server!IntegerOf(At(p, "default")) \subseteq Server!ParamRange(p, filters, ds))

\* A param whose name and enum hold no list or mapping.
FlatParam(p) == IsScalar(At(p, "name")) /\ Scalars(Items(At(p, "enum")))

LEMMA SameFit ==
  ASSUME NEW p, FlatParam(p), At(p, "type") # Str("integer"), Plain(At(p, "default")),
         Plain(At(p, "type"))
  PROVE  Tool!DefaultFits(p) <=> Server!ValidDefault(p, At(p, "default"))
<1>. DEFINE type == At(p, "type")
            d == At(p, "default")
            items == Items(At(p, "enum"))
<1>1. /\ Tool!At(p, "type") = type /\ Server!At(p, "type") = type
      /\ Tool!At(p, "default") = d /\ Server!At(p, "default") = d
      /\ Tool!Items(Tool!At(p, "enum")) = items /\ Server!Items(Server!At(p, "enum")) = items
      /\ \A s : Tool!Str(s) = Str(s) /\ Server!Str(s) = Str(s)
      /\ Tool!IsStr(d) = IsStr(d) /\ Server!IsStr(d) = IsStr(d)
      /\ Tool!IsBool(d) = IsBool(d) /\ Server!IsBool(d) = IsBool(d)
      /\ Server!IsOneOf(d, IsoDates) = IsOneOf(d, IsoDates)
  BY ToolReading, ServerReading, Zenon
<1>2. Tool!ContainsAny(items, d) <=> Server!Member(items, d)
  BY SameMember DEF FlatParam
<1>. HIDE DEF type, d, items
<1>3. Tool!DefaultFits(p) <=>
        /\ type = Str("string") => IsStr(d)
        /\ type = Str("date") => IsStr(d) /\ d[2] \in IsoDates
        /\ type = Str("enum") => Tool!ContainsAny(items, d)
        /\ type = Str("boolean") => IsBool(d)
  BY <1>1 DEF Tool!DefaultFits, type
<1>4. /\ Str("string") # Str("date") /\ Str("string") # Str("enum") /\ Str("string") # Str("boolean")
      /\ Str("date") # Str("enum") /\ Str("date") # Str("boolean") /\ Str("enum") # Str("boolean")
      /\ Str("string") # Str("integer") /\ Str("date") # Str("integer")
      /\ Str("enum") # Str("integer") /\ Str("boolean") # Str("integer")
  BY StrApart
<1>5. CASE type = Str("string")
  <2>1. Server!ValidDefault(p, d) <=> IsStr(d) BY <1>1, <1>4, <1>5 DEF Server!ValidDefault
  <2>. QED BY <1>3, <1>4, <1>5, <2>1 DEF d
<1>6. CASE type = Str("date")
  <2>1. Server!ValidDefault(p, d) <=> IsOneOf(d, IsoDates)
    BY <1>1, <1>4, <1>6 DEF Server!ValidDefault
  <2>. QED BY <1>3, <1>4, <1>6, <2>1 DEF IsOneOf, d
<1>7. CASE type = Str("enum")
  <2>1. Server!ValidDefault(p, d) <=> Server!Member(items, d)
    BY <1>1, <1>4, <1>7 DEF Server!ValidDefault
  <2>. QED BY <1>2, <1>3, <1>4, <1>7, <2>1 DEF d
<1>8. CASE type = Str("boolean")
  <2>1. Server!ValidDefault(p, d) <=> IsBool(d) BY <1>1, <1>4, <1>8 DEF Server!ValidDefault
  <2>. QED BY <1>3, <1>4, <1>8, <2>1 DEF d
<1>9. CASE type \notin {Str("string"), Str("date"), Str("enum"), Str("boolean")}
  <2>1. Server!ValidDefault(p, d) BY <1>1, <1>9 DEF Server!ValidDefault, type
  <2>. QED BY <1>3, <1>9, <2>1 DEF d
<1>. QED BY <1>5, <1>6, <1>7, <1>8, <1>9

LEMMA SameNarrow ==
  ASSUME NEW p, NEW filters, NEW ds, Typed(ds), IsScalar(At(p, "name")), NEW j \in DOMAIN filters
  PROVE  (/\ Tool!IsMap(filters[j])
          /\ Tool!Same(Tool!At(filters[j], "param"), Tool!At(p, "name"))
          /\ Tool!TypeOf(ds, Tool!At(filters[j], "column")) = "INTEGER")
         <=>
         (/\ Server!IsMap(filters[j])
          /\ Server!At(filters[j], "param") = Server!At(p, "name")
          /\ Server!ColumnType(ds, Server!At(filters[j], "column")) = {"INTEGER"})
<1>. DEFINE col == At(filters[j], "column")
            param == At(filters[j], "param")
            name == At(p, "name")
<1>1. /\ Tool!IsMap(filters[j]) = IsMap(filters[j]) /\ Server!IsMap(filters[j]) = IsMap(filters[j])
      /\ Tool!At(filters[j], "param") = param /\ Server!At(filters[j], "param") = param
      /\ Tool!At(p, "name") = name /\ Server!At(p, "name") = name
      /\ Tool!At(filters[j], "column") = col /\ Server!At(filters[j], "column") = col
  BY ToolReading, ServerReading, Zenon
<1>2. Tool!Same(param, name) <=> (param = name)
  BY SameIsEqual
<1>3. "INTEGER" \in ColumnTypes BY DEF ColumnTypes
<1>4. (Tool!TypeOf(ds, col) = "INTEGER") <=> (Server!ColumnType(ds, col) = {"INTEGER"})
  BY <1>3, SameColumnType
<1>. HIDE DEF col, param, name
<1>. QED BY <1>1, <1>2, <1>4

LEMMA SameIntegerDefault ==
  ASSUME NEW p, NEW filters, NEW ds, Typed(ds), IsScalar(At(p, "name")),
         At(p, "type") = Str("integer"), Plain(At(p, "default")), Plain(At(p, "max"))
  PROVE  ToolDefault(p, filters, ds) <=> ServerDefault(p, filters, ds)
<1>. DEFINE d == At(p, "default")
            max == At(p, "max")
            narrow == \E j \in DOMAIN filters :
                        /\ Server!IsMap(filters[j])
                        /\ Server!At(filters[j], "param") = Server!At(p, "name")
                        /\ Server!ColumnType(ds, Server!At(filters[j], "column")) = {"INTEGER"}
            range == IF narrow THEN MinInt32 .. MaxInt32 ELSE MinInt64 .. MaxInt64
            bounded(n) == Server!IsInteger(max) => n <= max[2]
<1>1. /\ Tool!At(p, "type") = Str("integer") /\ Server!At(p, "type") = Str("integer")
      /\ Tool!At(p, "default") = d /\ Server!At(p, "default") = d
      /\ Tool!At(p, "max") = max /\ Server!At(p, "max") = max
      /\ \A s : Tool!Str(s) = Str(s) /\ Server!Str(s) = Str(s)
      /\ Tool!IsStr(d) = IsStr(d) /\ Server!IsStr(d) = IsStr(d)
  BY ToolReading, ServerReading, Zenon
<1>2. /\ Tool!IsInt(max) <=> Server!IsInteger(max)
      /\ Tool!IsInt(max) => Tool!AsInt(max) = max[2] /\ max[2] \in Int
      /\ Tool!IsInt(d) <=> Server!IsInteger(d)
      /\ Tool!IsInt(d) => Tool!AsInt(d) = d[2] /\ d[2] \in MinInt64 .. MaxInt64
  BY Numbers, WidthAssumption DEF MinInt64
<1>3. /\ MinInt32 .. MaxInt32 \subseteq MinInt64 .. MaxInt64
      /\ MinInt64 .. MaxInt64 \subseteq Int
  BY WidthAssumption DEF MinInt32, MinInt64
<1>4. range \subseteq MinInt64 .. MaxInt64 BY <1>3
<1>5. Server!ParamRange(p, filters, ds) = range
  BY Zenon DEF Server!ParamRange, Server!MinInt32, Server!MinInt64, MinInt32, MinInt64
<1>6. Tool!OutOfRange(p, filters, ds) <=>
        (Tool!IsIntegerDefault(d) /\ Tool!IntegerDefault(d) \notin range)
  <2>1. narrow <=>
          \E j \in DOMAIN filters :
            /\ Tool!IsMap(filters[j])
            /\ Tool!Same(Tool!At(filters[j], "param"), Tool!At(p, "name"))
            /\ Tool!TypeOf(ds, Tool!At(filters[j], "column")) = "INTEGER"
    BY SameNarrow
  <2>2. range = IF \E j \in DOMAIN filters :
                     /\ Tool!IsMap(filters[j])
                     /\ Tool!Same(Tool!At(filters[j], "param"), Tool!At(p, "name"))
                     /\ Tool!TypeOf(ds, Tool!At(filters[j], "column")) = "INTEGER"
                THEN Tool!MinInt32 .. MaxInt32 ELSE Tool!MinInt64 .. MaxInt64
    BY <2>1, Zenon DEF Tool!MinInt32, Tool!MinInt64, MinInt32, MinInt64
  <2>. HIDE DEF range
  <2>. QED BY <1>1, <2>2, Zenon DEF Tool!OutOfRange
<1>7. Str("integer") # Str("string") /\ Str("integer") # Str("date")
      /\ Str("integer") # Str("enum") /\ Str("integer") # Str("boolean")
  BY StrApart
<1>8. Tool!DefaultFits(p) <=>
        (Tool!IsIntegerDefault(d) /\ (Tool!IsInt(max) => Tool!IntegerDefault(d) <= Tool!AsInt(max)))
  BY <1>1, <1>7 DEF Tool!DefaultFits
<1>9. Server!ValidDefault(p, d)
      <=> \E n \in Server!IntegerOf(d) : ~Server!IsInteger(max) \/ n <= max[2]
  BY <1>1, <1>7 DEF Server!ValidDefault
<1>10. ServerDefault(p, filters, ds) <=>
         \/ d # Nil /\ ~Server!ValidDefault(p, d)
         \/ ~(Server!IntegerOf(d) \subseteq range)
  BY <1>5, Zenon DEF ServerDefault
<1>11. ToolDefault(p, filters, ds) <=>
         \/ d # Nil /\ ~Tool!DefaultFits(p)
         \/ Tool!OutOfRange(p, filters, ds)
  BY Zenon DEF ToolDefault
<1>12. CASE Server!IsInteger(d)
  <2>1. /\ Tool!IsIntegerDefault(d) /\ Tool!IntegerDefault(d) = d[2]
    BY <1>2, <1>12 DEF Tool!IsIntegerDefault, Tool!IntegerDefault
  <2>2. Server!IntegerOf(d) = {d[2]}
    <3>1. ~IsStr(d) BY <1>12 DEF Server!IsInteger, IsStr
    <3>. QED BY <1>1, <1>12, <3>1 DEF Server!IntegerOf
  <2>. HIDE DEF d, max, range, bounded
  <2>. QED BY <1>2, <1>6, <1>8, <1>9, <1>10, <1>11, <2>1, <2>2
<1>13. CASE IsStr(d) /\ d[2] \in DOMAIN Numerals
  <2>. DEFINE n == Numerals[d[2]]
  <2>1. n \in Int /\ d # Nil /\ ~Server!IsInteger(d)
    BY <1>13, NumeralAssumption DEF IsStr, Nil, Server!IsInteger
  <2>2. Tool!IsIntegerDefault(d) <=> n \in MinInt64 .. MaxInt64
    BY <1>1, <1>2, <1>13, <2>1 DEF Tool!IsIntegerDefault, Tool!MinInt64, MinInt64
  <2>3. Tool!IntegerDefault(d) = n
    BY <1>2, <2>1 DEF Tool!IntegerDefault
  <2>4. Server!IntegerOf(d) = {n}
    BY <1>1, <1>13, <2>1 DEF Server!IntegerOf
  <2>. HIDE DEF d, max, range, n
  <2>. QED BY <1>2, <1>4, <1>6, <1>8, <1>9, <1>10, <1>11, <2>1, <2>2, <2>3, <2>4
<1>14. CASE ~Server!IsInteger(d) /\ ~(IsStr(d) /\ d[2] \in DOMAIN Numerals)
  <2>1. ~Tool!IsIntegerDefault(d)
    BY <1>1, <1>2, <1>14 DEF Tool!IsIntegerDefault
  <2>2. Server!IntegerOf(d) = {}
    BY <1>1, <1>14 DEF Server!IntegerOf
  <2>. HIDE DEF d, max, range
  <2>. QED BY <1>6, <1>8, <1>9, <1>10, <1>11, <2>1, <2>2
<1>. QED BY <1>12, <1>13, <1>14

LEMMA SameDefault ==
  ASSUME NEW p, NEW filters, NEW ds, Typed(ds), FlatParam(p),
         Plain(At(p, "type")), Plain(At(p, "default")), Plain(At(p, "max"))
  PROVE  ToolDefault(p, filters, ds) <=> ServerDefault(p, filters, ds)
<1>1. CASE At(p, "type") = Str("integer")
  BY <1>1, SameIntegerDefault DEF FlatParam
<1>2. CASE At(p, "type") # Str("integer")
  <2>1. ~Tool!OutOfRange(p, filters, ds)
    <3>1. Tool!At(p, "type") = At(p, "type") /\ Tool!Str("integer") = Str("integer")
      BY ToolReading, Zenon
    <3>. QED BY <1>2, <3>1, Zenon DEF Tool!OutOfRange
  <2>2. Tool!DefaultFits(p) <=> Server!ValidDefault(p, At(p, "default")) BY <1>2, SameFit
  <2>. QED BY <1>2, <2>1, <2>2, Zenon DEF ToolDefault, ServerDefault
<1>. QED BY <1>1, <1>2

\* Whether the server finds an integer default outside of the range of its filters.
OutOfRangeAtServer(p, filters, ds) ==
  /\ Server!At(p, "type") = Server!Str("integer")
  /\ ~(Server!IntegerOf(Server!At(p, "default")) \subseteq Server!ParamRange(p, filters, ds))

\* The finding about a default that does not fit, or none.
RangeFinding(cond, i) == IF cond THEN {<<"params", i, "default", "invalid_default">>} ELSE {}

(* A param, the range of its default included.                             *)
LEMMA SameParam ==
  ASSUME NEW V, Closed(V), NEW p \in V, NEW i, NEW filters, NEW ds, Typed(ds), FlatParam(p)
  PROVE  Tool!Param(p, i) \cup RangeFinding(Tool!OutOfRange(p, filters, ds), i)
         = Server!ParamErrors(p, i) \cup RangeFinding(OutOfRangeAtServer(p, filters, ds), i)
<1>. DEFINE keys == {"name", "type", "required", "default", "enum", "max", "aliases"}
            name == At(p, "name")
            d == At(p, "default")
            known == Server!UnknownKeys(p, keys, "params", i)
            named == Server!Flag(~SafeIdent(name), "params", i, "name", "unsafe_identifier")
            typed == Server!TypeErr(p, i)
            aliased == AliasFindings(p, i)
            invalid == {<<"params", i, "default", "invalid_default">>}
<1>1. Plain(At(p, "type")) /\ Plain(d) /\ Plain(At(p, "max"))
  BY Inside DEF Closed
<1>2. /\ Tool!IsMap(p) = IsMap(p) /\ Server!IsMap(p) = IsMap(p)
      /\ Tool!At(p, "name") = name /\ Server!At(p, "name") = name
      /\ Tool!At(p, "default") = d /\ Server!At(p, "default") = d
      /\ Tool!SafeIdent(name) = SafeIdent(name) /\ Server!SafeIdent(name) = SafeIdent(name)
      /\ Tool!Nil = Nil /\ Server!Nil = Nil /\ Tool!Self = Self /\ Server!Self = Self
      /\ Tool!UnknownKeys(p, keys, "params", i) = Server!UnknownKeys(p, keys, "params", i)
      /\ Server!At(p, "type") = At(p, "type") /\ Server!Str("integer") = Str("integer")
      /\ Tool!At(p, "type") = At(p, "type") /\ Tool!Str("integer") = Str("integer")
  BY ToolReading, ServerReading, SameUnknown, Zenon
<1>3. CASE IsMap(p)
  <2>1. Tool!Param(p, i) =
          known \cup named \cup typed
          \cup Tool!Flag(d # Nil /\ ~Tool!DefaultFits(p), "params", i, "default", "invalid_default")
          \cup aliased
    <3>1. Tool!ParamTypeRule(p, i) = typed BY <1>1, SameTypeRule
    <3>2. Tool!Aliases(p, i) = aliased BY <1>1, SameAliases DEF FlatParam
    <3>3. Tool!Flag(~SafeIdent(name), "params", i, "name", "unsafe_identifier") = named
      BY Zenon DEF Tool!Flag, Server!Flag
    <3>. QED BY <1>2, <1>3, <3>1, <3>2, <3>3, Zenon DEF Tool!Param
  <2>2. Server!ParamErrors(p, i) =
          known \cup named \cup typed
          \cup Server!Flag(d # Nil /\ ~Server!ValidDefault(p, d), "params", i, "default", "invalid_default")
          \cup aliased
    BY <1>2, <1>3, Zenon DEF Server!ParamErrors, AliasFindings
  <2>3. ToolDefault(p, filters, ds) <=> ServerDefault(p, filters, ds)
    BY <1>1, SameDefault
  <2>4. ToolDefault(p, filters, ds) <=>
          \/ d # Nil /\ ~Tool!DefaultFits(p)
          \/ Tool!OutOfRange(p, filters, ds)
    BY Zenon DEF ToolDefault
  <2>5. ServerDefault(p, filters, ds) <=>
          \/ d # Nil /\ ~Server!ValidDefault(p, d)
          \/ OutOfRangeAtServer(p, filters, ds)
    BY <1>2, Zenon DEF ServerDefault, OutOfRangeAtServer
  <2>. HIDE DEF d, known, named, typed, aliased
  <2>. QED BY <2>1, <2>2, <2>3, <2>4, <2>5 DEF Tool!Flag, Server!Flag, RangeFinding
<1>4. CASE ~IsMap(p)
  <2>1. Tool!Param(p, i) = {<<"params", i, Self, "invalid_type">>}
    BY <1>2, <1>4, Zenon DEF Tool!Param
  <2>2. Server!ParamErrors(p, i) = {<<"params", i, Self, "invalid_type">>}
    BY <1>2, <1>4, Zenon DEF Server!ParamErrors
  <2>3. At(p, "type") # Str("integer")
    BY <1>4 DEF At, Has, Nil, Str
  <2>4. ~Tool!OutOfRange(p, filters, ds) /\ ~OutOfRangeAtServer(p, filters, ds)
    BY <1>2, <2>3, Zenon DEF Tool!OutOfRange, OutOfRangeAtServer
  <2>. QED BY <2>1, <2>2, <2>4 DEF RangeFinding
<1>. QED BY <1>3, <1>4

LEMMA SameParams ==
  ASSUME NEW V, Closed(V), NEW params, NEW filters, NEW ds, Typed(ds),
         \A i \in DOMAIN params : params[i] \in V /\ FlatParam(params[i])
  PROVE  Tool!Params(params) \cup Tool!DefaultRanges(params, filters, ds)
         = (UNION {Server!ParamErrors(params[i], i) : i \in DOMAIN params})
           \cup Server!Flag(Server!Duplicates(Names(params, "name")), Top, 0, "params", "duplicate_param")
           \cup Server!DefaultRangeErrors(params, filters, ds)
<1>. DEFINE tool(i) == Tool!Param(params[i], i)
            server(i) == Server!ParamErrors(params[i], i)
            out(i) == Tool!OutOfRange(params[i], filters, ds)
            outs(i) == OutOfRangeAtServer(params[i], filters, ds)
            finding(i) == <<"params", i, "default", "invalid_default">>
            twice == Server!Flag(Server!Duplicates(Names(params, "name")), Top, 0, "params", "duplicate_param")
<1>1. \A i \in DOMAIN params :
        tool(i) \cup (IF out(i) THEN {finding(i)} ELSE {})
        = server(i) \cup (IF outs(i) THEN {finding(i)} ELSE {})
  BY SameParam DEF RangeFinding
<1>2. Tool!Params(params) = twice \cup UNION {tool(i) : i \in DOMAIN params}
  <2>1. Tool!HasDuplicates(Names(params, "name")) <=> Server!Duplicates(Names(params, "name"))
    BY NamesAreScalars, SameDuplicates
  <2>2. Tool!Names(params, "name") = Names(params, "name") /\ Tool!Top = Top
    BY NamesRead, ToolReading
  <2>3. Tool!Flag(Tool!HasDuplicates(Names(params, "name")), Top, 0, "params", "duplicate_param")
        = twice
    BY <2>1, Zenon DEF Tool!Flag, Server!Flag
  <2>. QED BY <2>2, <2>3, Zenon DEF Tool!Params
<1>3. Tool!DefaultRanges(params, filters, ds) = {finding(i) : i \in {j \in DOMAIN params : out(j)}}
  BY Zenon DEF Tool!DefaultRanges
<1>4. Server!DefaultRangeErrors(params, filters, ds) =
        UNION {IF outs(i) THEN {finding(i)} ELSE {} : i \in DOMAIN params}
  BY Zenon DEF Server!DefaultRangeErrors, OutOfRangeAtServer, Server!Flag
<1>. HIDE DEF tool, server, out, outs, finding, twice
<1>5. Tool!DefaultRanges(params, filters, ds) =
        UNION {IF out(i) THEN {finding(i)} ELSE {} : i \in DOMAIN params}
  BY <1>3
<1>6. (UNION {tool(i) : i \in DOMAIN params})
      \cup (UNION {IF out(i) THEN {finding(i)} ELSE {} : i \in DOMAIN params})
      = (UNION {server(i) : i \in DOMAIN params})
        \cup (UNION {IF outs(i) THEN {finding(i)} ELSE {} : i \in DOMAIN params})
  <2>1. (UNION {tool(i) : i \in DOMAIN params})
        \cup (UNION {IF out(i) THEN {finding(i)} ELSE {} : i \in DOMAIN params})
        = UNION {tool(i) \cup (IF out(i) THEN {finding(i)} ELSE {}) : i \in DOMAIN params}
    OBVIOUS
  <2>2. (UNION {server(i) : i \in DOMAIN params})
        \cup (UNION {IF outs(i) THEN {finding(i)} ELSE {} : i \in DOMAIN params})
        = UNION {server(i) \cup (IF outs(i) THEN {finding(i)} ELSE {}) : i \in DOMAIN params}
    OBVIOUS
  <2>3. {tool(i) \cup (IF out(i) THEN {finding(i)} ELSE {}) : i \in DOMAIN params}
        = {server(i) \cup (IF outs(i) THEN {finding(i)} ELSE {}) : i \in DOMAIN params}
    BY <1>1
  <2>. QED BY <2>1, <2>2, <2>3
<1>. QED BY <1>2, <1>4, <1>5, <1>6 DEF server, twice

-----------------------------------------------------------------------------
(* Combinations                                                            *)

\* The part of Server!EndpointErrors about combinations.
CombinationsAtServer(v, names) ==
  CASE v = Server!Nil -> {}
    [] Server!IsList(v) -> UNION {Server!CombinationErrors(v[2][i], i, names) : i \in DOMAIN v[2]}
    [] OTHER -> {<<Server!Top, 0, "combinations", "invalid_type">>}

LEMMA SameCombination ==
  ASSUME NEW combo, NEW i, NEW names, Scalars(names), Scalars(Items(combo))
  PROVE  Tool!Combination(combo, i, names) = Server!CombinationErrors(combo, i, names)
<1>1. /\ Tool!IsList(combo) = IsList(combo) /\ Server!IsList(combo) = IsList(combo)
      /\ Tool!Self = Self /\ Server!Self = Self
  BY ToolReading, ServerReading, Zenon
<1>2. CASE ~IsList(combo)
  BY <1>1, <1>2, Zenon DEF Tool!Combination, Server!CombinationErrors
<1>3. CASE IsList(combo)
  <2>1. Items(combo) = combo[2] BY <1>3, KindsApart
  <2>2. Tool!HasDuplicates(combo[2]) <=> Server!Duplicates(combo[2])
    BY <2>1, SameDuplicates
  <2>3. (\E j \in DOMAIN combo[2] : ~Tool!ContainsAny(names, combo[2][j]))
          <=> (\E j \in DOMAIN combo[2] : ~Server!Member(names, combo[2][j]))
    BY SameMember
  <2>4. Tool!Combination(combo, i, names) =
          Tool!Flag(\E j \in DOMAIN combo[2] : ~Tool!ContainsAny(names, combo[2][j]),
                    "combinations", i, Self, "unknown_param")
          \cup Tool!Flag(Tool!HasDuplicates(combo[2]), "combinations", i, Self, "duplicate_param")
    BY <1>1, <1>3, Zenon DEF Tool!Combination
  <2>5. Server!CombinationErrors(combo, i, names) =
          Server!Flag(\E j \in DOMAIN combo[2] : ~Server!Member(names, combo[2][j]),
                      "combinations", i, Self, "unknown_param")
          \cup Server!Flag(Server!Duplicates(combo[2]), "combinations", i, Self, "duplicate_param")
    BY <1>1, <1>3, Zenon DEF Server!CombinationErrors
  <2>. QED BY <2>2, <2>3, <2>4, <2>5, Zenon DEF Tool!Flag, Server!Flag
<1>. QED BY <1>2, <1>3

LEMMA SameCombinations ==
  ASSUME NEW v, NEW names, Scalars(names), \A i \in DOMAIN Items(v) : Scalars(Items(Items(v)[i]))
  PROVE  Tool!Combinations(v, names) = CombinationsAtServer(v, names)
<1>1. /\ Tool!IsList(v) = IsList(v) /\ Server!IsList(v) = IsList(v)
      /\ Tool!Nil = Nil /\ Server!Nil = Nil /\ Tool!Top = Top /\ Server!Top = Top
  BY ToolReading, ServerReading, Zenon
<1>2. CASE v = Nil
  <2>1. ~IsList(v) BY <1>2, KindsApart
  <2>. QED BY <1>1, <1>2, <2>1, Zenon DEF Tool!Combinations, CombinationsAtServer
<1>3. CASE IsList(v)
  <2>1. v # Nil /\ Items(v) = v[2] BY <1>3, KindsApart
  <2>2. \A i \in DOMAIN v[2] : Tool!Combination(v[2][i], i, names) = Server!CombinationErrors(v[2][i], i, names)
    BY <2>1, SameCombination
  <2>3. Tool!Combinations(v, names)
        = UNION {Tool!Combination(v[2][i], i, names) : i \in DOMAIN v[2]}
    BY <1>1, <1>3, <2>1, Zenon DEF Tool!Combinations
  <2>4. CombinationsAtServer(v, names)
        = UNION {Server!CombinationErrors(v[2][i], i, names) : i \in DOMAIN v[2]}
    BY <1>1, <1>3, <2>1, Zenon DEF CombinationsAtServer
  <2>. QED BY <2>2, <2>3, <2>4
<1>4. CASE v # Nil /\ ~IsList(v)
  BY <1>1, <1>4, Zenon DEF Tool!Combinations, CombinationsAtServer
<1>. QED BY <1>2, <1>3, <1>4

-----------------------------------------------------------------------------
(* Outputs and groups                                                      *)

LEMMA SameColumnInDataset ==
  ASSUME NEW v, NEW ds, Typed(ds), NEW parent, NEW i
  PROVE  Tool!ColumnInDataset(v, ds, parent, i) = Server!ColumnInDataset(v, ds, parent, i)
<1>1. /\ Tool!SafeColumn(v) = SafeColumn(v) /\ Server!SafeColumn(v) = SafeColumn(v)
      /\ Tool!Absent = Absent
  BY ToolReading, ServerReading, Zenon
<1>2. (Tool!TypeOf(ds, v) = Absent) <=> (Server!ColumnType(ds, v) = {})
  BY SameColumnType
<1>3. CASE SafeColumn(v)
  BY <1>1, <1>2, <1>3 DEF Tool!ColumnInDataset, Server!ColumnInDataset, Tool!Flag, Server!Flag
<1>4. CASE ~SafeColumn(v)
  BY <1>1, <1>4 DEF Tool!ColumnInDataset, Server!ColumnInDataset
<1>. QED BY <1>3, <1>4

LEMMA SameSelect ==
  ASSUME NEW s, NEW i, NEW ds, Typed(ds)
  PROVE  Tool!Select(s, i, ds) = Server!SelectErrors(s, i, ds)
<1>. DEFINE agg == At(s, "agg")
            as == At(s, "as")
            col == At(s, "column")
            keys == {"as", "column", "agg"}
<1>1. /\ Tool!IsMap(s) = IsMap(s) /\ Server!IsMap(s) = IsMap(s)
      /\ Tool!Self = Self /\ Server!Self = Self /\ Tool!Nil = Nil /\ Server!Nil = Nil
      /\ Tool!At(s, "agg") = agg /\ Server!At(s, "agg") = agg
      /\ Tool!At(s, "as") = as /\ Server!At(s, "as") = as
      /\ Tool!At(s, "column") = col /\ Server!At(s, "column") = col
      /\ Tool!UnknownKeys(s, keys, "query.select", i) = Server!UnknownKeys(s, keys, "query.select", i)
      /\ Tool!ColumnInDataset(col, ds, "query.select", i) = Server!ColumnInDataset(col, ds, "query.select", i)
      /\ Tool!SafeColumn(as) = SafeColumn(as) /\ Server!SafeColumn(as) = SafeColumn(as)
      /\ Tool!IsOneOf(agg, Tool!Aggs) = IsOneOf(agg, {"sum", "avg", "min", "max", "count"})
      /\ Server!IsOneOf(agg, {"sum", "avg", "min", "max", "count"})
           = IsOneOf(agg, {"sum", "avg", "min", "max", "count"})
  BY ToolReading, ServerReading, SameUnknown, SameColumnInDataset, Zenon DEF Tool!Aggs
<1>2. (Tool!TypeOf(ds, col) = "JSON") <=> (Server!ColumnType(ds, col) = {"JSON"})
  <2>1. "JSON" \in ColumnTypes BY DEF ColumnTypes
  <2>. QED BY <2>1, SameColumnType
<1>3. CASE ~IsMap(s)
  BY <1>1, <1>3, Zenon DEF Tool!Select, Server!SelectErrors
<1>4. CASE IsMap(s)
  <2>. DEFINE rest(json) ==
                Server!UnknownKeys(s, keys, "query.select", i)
                \cup Server!Flag(~SafeColumn(as), "query.select", i, "as", "unsafe_identifier")
                \cup Server!ColumnInDataset(col, ds, "query.select", i)
                \cup Server!Flag(agg # Nil /\ ~IsOneOf(agg, {"sum", "avg", "min", "max", "count"}),
                                 "query.select", i, "agg", "invalid_value")
                \cup json
  <2>1. Tool!Select(s, i, ds) =
          rest(Server!Flag(agg # Nil /\ Tool!TypeOf(ds, col) = "JSON",
                           "query.select", i, "agg", "invalid_agg_on_json"))
    BY <1>1, <1>4, Zenon DEF Tool!Select, Tool!Flag, Server!Flag
  <2>2. Server!SelectErrors(s, i, ds) =
          rest(Server!Flag(agg # Nil /\ Server!ColumnType(ds, col) = {"JSON"},
                           "query.select", i, "agg", "invalid_agg_on_json"))
    BY <1>1, <1>4, Zenon DEF Server!SelectErrors
  <2>3. Server!Flag(agg # Nil /\ Tool!TypeOf(ds, col) = "JSON",
                    "query.select", i, "agg", "invalid_agg_on_json")
        = Server!Flag(agg # Nil /\ Server!ColumnType(ds, col) = {"JSON"},
                      "query.select", i, "agg", "invalid_agg_on_json")
    BY <1>2, Zenon DEF Server!Flag
  <2>. HIDE DEF rest
  <2>. QED BY <2>1, <2>2, <2>3
<1>. QED BY <1>3, <1>4

\* The outputs without an aggregate.
Plainly(selects) ==
  Names([i \in {j \in DOMAIN selects : At(selects[j], "agg") = Nil} |-> selects[i]], "as")

\* group_by: false, which only the server takes for no grouping.
NotFalse(q) == At(q, "group_by") # Bool(FALSE)

LEMMA SameGroupBy ==
  ASSUME NEW V, Closed(V), NEW q, NEW selects, NEW selectAs, Scalars(selectAs),
         At(q, "group_by") \in V, NotFalse(q)
  PROVE  Tool!GroupBy(At(q, "group_by"), selects, selectAs)
         = Server!GroupByErrors(Server!GroupBy(q), selects, selectAs)
<1>. DEFINE v == At(q, "group_by")
            g == Server!GroupBy(q)
            hasAgg == \E i \in DOMAIN selects : At(selects[i], "agg") # Nil
<1>1. /\ Tool!Nil = Nil /\ Server!Nil = Nil /\ Server!At(q, "group_by") = v
      /\ Tool!Items(v) = Items(v)
      /\ \A x : Tool!IsList(x) = IsList(x) /\ Server!IsList(x) = IsList(x)
      /\ Server!List(<<>>) = List(<<>>) /\ Server!Bool(FALSE) = Bool(FALSE)
  BY ToolReading, ServerReading, Zenon DEF Server!List, List, Server!Bool, Bool
<1>2. /\ (\E i \in DOMAIN selects : Tool!At(selects[i], "agg") # Tool!Nil) <=> hasAgg
      /\ (\E i \in DOMAIN selects : Server!At(selects[i], "agg") # Server!Nil) <=> hasAgg
  BY ToolReading, ServerReading
<1>3. /\ Tool!Names([i \in {j \in DOMAIN selects : Tool!At(selects[j], "agg") = Tool!Nil} |-> selects[i]], "as")
           = Plainly(selects)
      /\ Server!Names([i \in {j \in DOMAIN selects : Server!At(selects[j], "agg") = Server!Nil} |-> selects[i]], "as")
           = Plainly(selects)
  <2>1. {j \in DOMAIN selects : Tool!At(selects[j], "agg") = Tool!Nil}
          = {j \in DOMAIN selects : At(selects[j], "agg") = Nil}
    BY ToolReading
  <2>2. {j \in DOMAIN selects : Server!At(selects[j], "agg") = Server!Nil}
          = {j \in DOMAIN selects : At(selects[j], "agg") = Nil}
    BY ServerReading
  <2>. QED BY <2>1, <2>2, NamesRead, Zenon DEF Plainly
<1>. HIDE DEF v, g, hasAgg
<1>4. CASE v = Nil
  <2>1. g = List(<<>>) BY <1>1, <1>4, Zenon DEF Server!GroupBy, g
  <2>2. IsList(g) /\ g[2] = <<>> BY <2>1 DEF IsList, List
  <2>3. Items(v) = <<>> /\ ~IsList(v) BY <1>4, KindsApart
  <2>4. Server!GroupByErrors(g, selects, selectAs) =
          Server!Flag(hasAgg, "query", 0, "group_by", "missing_group_by")
    BY <1>1, <1>2, <2>2, Zenon DEF Server!GroupByErrors, Server!Flag
  <2>5. Tool!GroupBy(v, selects, selectAs) =
          Tool!Flag(hasAgg, "query", 0, "group_by", "missing_group_by")
    BY <1>1, <1>2, <1>4, <2>3, Zenon DEF Tool!GroupBy, Tool!Flag
  <2>. QED BY <2>4, <2>5, Zenon DEF Tool!Flag, Server!Flag, v, g
<1>5. CASE v # Nil /\ ~IsList(v)
  <2>1. g = v
    <3>1. v # Bool(FALSE) BY DEF NotFalse, v
    <3>. QED BY <1>1, <1>5, <3>1, Zenon DEF Server!GroupBy, g
  <2>2. Server!GroupByErrors(g, selects, selectAs) = {<<"query", 0, "group_by", "invalid_type">>}
    BY <1>1, <1>5, <2>1, Zenon DEF Server!GroupByErrors
  <2>3. Tool!GroupBy(v, selects, selectAs) = {<<"query", 0, "group_by", "invalid_type">>}
    BY <1>1, <1>5, Zenon DEF Tool!GroupBy
  <2>. QED BY <2>2, <2>3 DEF v, g
<1>6. CASE v # Nil /\ IsList(v)
  <2>1. g = v
    <3>1. v # Bool(FALSE) BY DEF NotFalse, v
    <3>. QED BY <1>1, <1>6, <3>1, Zenon DEF Server!GroupBy, g
  <2>2. Items(v) = v[2] BY <1>6, KindsApart
  <2>3. CASE v[2] = <<>>
    <3>1. Server!GroupByErrors(g, selects, selectAs) =
            Server!Flag(hasAgg, "query", 0, "group_by", "missing_group_by")
      BY <1>1, <1>2, <1>6, <2>1, <2>3, Zenon DEF Server!GroupByErrors, Server!Flag
    <3>2. Tool!GroupBy(v, selects, selectAs) =
            Tool!Flag(hasAgg, "query", 0, "group_by", "missing_group_by")
      BY <1>1, <1>2, <1>6, <2>2, <2>3, Zenon DEF Tool!GroupBy, Tool!Flag
    <3>. QED BY <3>1, <3>2, Zenon DEF Tool!Flag, Server!Flag, v, g
  <2>4. CASE v[2] # <<>>
    <3>1. Server!GroupByErrors(g, selects, selectAs) =
            Server!Flag(\E i \in DOMAIN v[2] : ~Server!Member(selectAs, v[2][i]),
                        "query", 0, "group_by", "unknown_column")
            \cup Server!Flag(Server!Difference(Plainly(selects), v[2]),
                             "query", 0, "group_by", "ungrouped_column")
      BY <1>1, <1>3, <1>6, <2>1, <2>4, Zenon DEF Server!GroupByErrors
    <3>2. Tool!GroupBy(v, selects, selectAs) =
            Tool!Flag(\E i \in DOMAIN v[2] : ~Tool!ContainsAny(selectAs, v[2][i]),
                      "query", 0, "group_by", "unknown_column")
            \cup Tool!Flag(Tool!Leaves(Plainly(selects), v[2]),
                           "query", 0, "group_by", "ungrouped_column")
      BY <1>1, <1>3, <1>6, <2>2, <2>4, Zenon DEF Tool!GroupBy
    <3>3. (\E i \in DOMAIN v[2] : ~Server!Member(selectAs, v[2][i]))
            <=> (\E i \in DOMAIN v[2] : ~Tool!ContainsAny(selectAs, v[2][i]))
      BY SameMember
    <3>4. Tool!Leaves(Plainly(selects), v[2]) <=> Server!Difference(Plainly(selects), v[2])
      BY SameLeaves, NamesAreScalars DEF Plainly
    <3>. QED BY <3>1, <3>2, <3>3, <3>4, Zenon DEF Tool!Flag, Server!Flag, v, g
  <2>. QED BY <2>3, <2>4
<1>. QED BY <1>4, <1>5, <1>6

-----------------------------------------------------------------------------
(* Filters and order                                                       *)

LEMMA SameParamType ==
  ASSUME NEW params, NEW v
  PROVE  /\ Tool!Declares(params, v) <=> (IsStr(v) /\ v \in DOMAIN Server!ParamTypesOf(params))
         /\ Tool!Declares(params, v) => Tool!ParamType(params, v) = Server!ParamTypesOf(params)[v]
         /\ ~Tool!Declares(params, v) => Tool!ParamType(params, v) = Nil
<1>. DEFINE last(name) == CHOOSE i \in DOMAIN params :
                            /\ At(params[i], "name") = name
                            /\ \A j \in DOMAIN params : j > i => At(params[j], "name") # name
            names == {At(params[i], "name") : i \in {j \in DOMAIN params : IsStr(At(params[j], "name"))}}
<1>1. Tool!Declares(params, v) <=> \E i \in DOMAIN params : IsStr(v) /\ At(params[i], "name") = v
  BY ToolReading DEF Tool!Declares
<1>2. Server!ParamTypesOf(params) = [name \in names |-> At(params[last(name)], "type")]
  BY Zenon DEF Server!ParamTypesOf, Server!At, At, Server!Has, Has, Server!IsMap, IsMap,
               Server!Nil, Nil, Server!IsStr, IsStr
<1>3. Tool!Declares(params, v) => Tool!ParamType(params, v) = At(params[last(v)], "type")
  BY Zenon DEF Tool!ParamType, Tool!At, At, Tool!Has, Has, Tool!IsMap, IsMap, Tool!Nil, Nil
<1>4. ~Tool!Declares(params, v) => Tool!ParamType(params, v) = Nil
  BY Zenon DEF Tool!ParamType, Tool!Nil, Nil
<1>. HIDE DEF last
<1>5. Tool!Declares(params, v) <=> (IsStr(v) /\ v \in names) BY <1>1
<1>6. DOMAIN Server!ParamTypesOf(params) = names BY <1>2
<1>7. v \in names => Server!ParamTypesOf(params)[v] = At(params[last(v)], "type") BY <1>2
<1>. QED BY <1>3, <1>4, <1>5, <1>6, <1>7

LEMMA Greatest ==
  ASSUME NEW n \in Nat, NEW S \in SUBSET (1 .. n), S # {}
  PROVE  \E p \in S : \A q \in S : q <= p
<1>. DEFINE T == {n - q : q \in S}
<1>1. T \subseteq Nat /\ T # {} OBVIOUS
<1>2. PICK t \in T : \A u \in T : <<u, t>> \notin OpToRel(<, Nat)
  BY <1>1, WFMin, NatLessThanWellFounded
<1>3. PICK p \in S : t = n - p BY <1>2
<1>4. ASSUME NEW q \in S PROVE q <= p
  <2>1. n - q \in T OBVIOUS
  <2>2. p \in 1 .. n /\ q \in 1 .. n OBVIOUS
  <2>. HIDE DEF T
  <2>3. n - q \in Nat /\ n - p \in Nat /\ p \in Int /\ q \in Int BY <2>2
  <2>4. <<n - q, n - p>> \notin OpToRel(<, Nat) BY <1>2, <1>3, <2>1
  <2>5. ~(n - q < n - p) BY <2>3, <2>4 DEF OpToRel
  <2>. QED BY <2>3, <2>5
<1>. QED BY <1>4

LEMMA DeclaredTypeInside ==
  ASSUME NEW V, Closed(V), NEW params \in Seq(V), NEW v, Tool!Declares(params, v)
  PROVE  Tool!ParamType(params, v) \in V
<1>. DEFINE of == {i \in DOMAIN params : At(params[i], "name") = v}
            last == CHOOSE i \in DOMAIN params :
                      /\ At(params[i], "name") = v
                      /\ \A j \in DOMAIN params : j > i => At(params[j], "name") # v
<1>1. of # {} BY ToolReading DEF Tool!Declares
<1>2. PICK i \in of : \A j \in of : j <= i
  <2>1. Len(params) \in Nat /\ of \in SUBSET (1 .. Len(params)) OBVIOUS
  <2>. HIDE DEF of
  <2>. QED BY <1>1, <2>1, Greatest
<1>3. /\ i \in DOMAIN params /\ At(params[i], "name") = v
      /\ \A j \in DOMAIN params : j > i => At(params[j], "name") # v
  BY <1>2
<1>4. last \in DOMAIN params BY <1>3, Zenon
<1>5. Tool!ParamType(params, v) = At(params[last], "type")
  BY Zenon DEF Tool!ParamType, Tool!At, At, Tool!Has, Has, Tool!IsMap, IsMap, Tool!Nil, Nil
<1>6. params[last] \in V BY <1>4
<1>. QED BY <1>5, <1>6, Inside

LEMMA SameFits ==
  ASSUME NEW ptype, Plain(ptype), NEW ctype
  PROVE  (IsOneOf(ptype, DOMAIN Tool!Filterable) /\ ctype \notin Tool!Filterable[ptype[2]])
         <=> ~Server!FitsFilter(ptype, ctype)
<1>1. /\ \A s : Server!Str(s) = Str(s)
      /\ DOMAIN Tool!Filterable = {"string", "enum", "integer", "date", "boolean"}
  BY ServerReading DEF Tool!Filterable
<1>2. \A s : (ptype = Str(s)) <=> (IsStr(ptype) /\ ptype[2] = s)
  BY StrIs
<1>3. Str("string") # Str("integer") /\ Str("string") # Str("date") /\ Str("string") # Str("boolean")
      /\ Str("enum") # Str("integer") /\ Str("enum") # Str("date") /\ Str("enum") # Str("boolean")
      /\ Str("integer") # Str("date") /\ Str("integer") # Str("boolean") /\ Str("date") # Str("boolean")
  BY StrApart
<1>4. IsOneOf(ptype, DOMAIN Tool!Filterable) <=>
        ptype \in {Str("string"), Str("enum"), Str("integer"), Str("date"), Str("boolean")}
  BY <1>1, <1>2 DEF IsOneOf
<1>5. CASE ptype = Str("string")
  <2>1. Server!FitsFilter(ptype, ctype) <=> ctype = "VARCHAR"
    BY <1>1, <1>3, <1>5 DEF Server!FitsFilter
  <2>2. Tool!Filterable[ptype[2]] = {"VARCHAR"} BY <1>2, <1>5 DEF Tool!Filterable
  <2>. QED BY <1>4, <1>5, <2>1, <2>2
<1>6. CASE ptype = Str("enum")
  <2>1. Server!FitsFilter(ptype, ctype) <=> ctype = "VARCHAR"
    BY <1>1, <1>3, <1>6 DEF Server!FitsFilter
  <2>2. Tool!Filterable[ptype[2]] = {"VARCHAR"} BY <1>2, <1>6 DEF Tool!Filterable
  <2>. QED BY <1>4, <1>6, <2>1, <2>2
<1>7. CASE ptype = Str("integer")
  <2>1. Server!FitsFilter(ptype, ctype) <=> ctype \in {"INTEGER", "BIGINT", "DOUBLE"}
    BY <1>1, <1>3, <1>7 DEF Server!FitsFilter
  <2>2. Tool!Filterable[ptype[2]] = {"INTEGER", "BIGINT", "DOUBLE"}
    BY <1>2, <1>7 DEF Tool!Filterable
  <2>. QED BY <1>4, <1>7, <2>1, <2>2
<1>8. CASE ptype = Str("date")
  <2>1. Server!FitsFilter(ptype, ctype) <=> ctype \in {"DATE", "TIMESTAMP"}
    BY <1>1, <1>3, <1>8 DEF Server!FitsFilter
  <2>2. Tool!Filterable[ptype[2]] = {"DATE", "TIMESTAMP"} BY <1>2, <1>8 DEF Tool!Filterable
  <2>. QED BY <1>4, <1>8, <2>1, <2>2
<1>9. CASE ptype = Str("boolean")
  <2>1. Server!FitsFilter(ptype, ctype) <=> ctype = "BOOLEAN"
    BY <1>1, <1>3, <1>9 DEF Server!FitsFilter
  <2>2. Tool!Filterable[ptype[2]] = {"BOOLEAN"} BY <1>2, <1>9 DEF Tool!Filterable
  <2>. QED BY <1>4, <1>9, <2>1, <2>2
<1>10. CASE ptype \notin {Str("string"), Str("enum"), Str("integer"), Str("date"), Str("boolean")}
  <2>1. Server!FitsFilter(ptype, ctype) BY <1>1, <1>10 DEF Server!FitsFilter
  <2>. QED BY <1>4, <1>10, <2>1
<1>. QED BY <1>5, <1>6, <1>7, <1>8, <1>9, <1>10

LEMMA SameFilter ==
  ASSUME NEW V, Closed(V), NEW f, NEW i, NEW params \in Seq(V), NEW ds, Typed(ds)
  PROVE  Tool!Filter(f, i, params, ds) = Server!FilterErrors(f, i, ds, Server!ParamTypesOf(params))
<1>. DEFINE col == At(f, "column")
            op == At(f, "op")
            param == At(f, "param")
            keys == {"column", "op", "param"}
            types == Server!ParamTypesOf(params)
            ptype == Tool!ParamType(params, param)
            ctype == Tool!TypeOf(ds, col)
            declared == Tool!Declares(params, param)
            ranged == IsOneOf(op, {"gte", "lte"})
            known == Server!UnknownKeys(f, keys, "query.filters", i)
            there == Server!ColumnInDataset(col, ds, "query.filters", i)
            tenant == Server!Flag(ds.tenant # Absent /\ col = Str(ds.tenant),
                                  "query.filters", i, "column", "tenant_filter_forbidden")
            oped == Server!Flag(~IsOneOf(op, {"eq", "gte", "lte"}),
                                "query.filters", i, "op", "invalid_value")
            undeclared == Server!Flag(~declared, "query.filters", i, "param", "unknown_param")
            unfit == IsOneOf(ptype, DOMAIN Tool!Filterable) /\ ctype # Absent
                       /\ ctype \notin Tool!Filterable[ptype[2]]
            unfitServer == declared /\ \E c \in Server!ColumnType(ds, col) : ~Server!FitsFilter(types[param], c)
            boolean == ranged /\ ptype = Str("boolean")
            booleanServer == declared /\ ranged /\ types[param] = Str("boolean")
<1>1. /\ Tool!IsMap(f) = IsMap(f) /\ Server!IsMap(f) = IsMap(f)
      /\ Tool!Self = Self /\ Server!Self = Self /\ Tool!Absent = Absent /\ Server!Absent = Absent
      /\ Tool!At(f, "column") = col /\ Server!At(f, "column") = col
      /\ Tool!At(f, "op") = op /\ Server!At(f, "op") = op
      /\ Tool!At(f, "param") = param /\ Server!At(f, "param") = param
      /\ Tool!Str(ds.tenant) = Str(ds.tenant) /\ Server!Str(ds.tenant) = Str(ds.tenant)
      /\ Tool!Str("boolean") = Str("boolean") /\ Server!Str("boolean") = Str("boolean")
      /\ Tool!UnknownKeys(f, keys, "query.filters", i) = known
      /\ Server!UnknownKeys(f, keys, "query.filters", i) = known
      /\ Server!ColumnInDataset(col, ds, "query.filters", i) = there
      /\ Tool!ColumnInDataset(col, ds, "query.filters", i) = there
      /\ Server!IsStr(param) = IsStr(param)
      /\ Tool!IsOneOf(ptype, DOMAIN Tool!Filterable) = IsOneOf(ptype, DOMAIN Tool!Filterable)
  BY ToolReading, ServerReading, SameUnknown, SameColumnInDataset, Zenon
<1>2. /\ Tool!IsOneOf(op, Tool!FilterOps) = IsOneOf(op, {"eq", "gte", "lte"})
      /\ Server!IsOneOf(op, {"eq", "gte", "lte"}) = IsOneOf(op, {"eq", "gte", "lte"})
      /\ Tool!IsOneOf(op, Tool!FilterOps \ {"eq"}) = ranged
      /\ Server!IsOneOf(op, {"gte", "lte"}) = ranged
  <2>1. Tool!FilterOps = {"eq", "gte", "lte"} /\ Tool!FilterOps \ {"eq"} = {"gte", "lte"}
    BY DEF Tool!FilterOps
  <2>. QED BY <2>1, ToolReading, ServerReading, Zenon
<1>3. /\ declared <=> (IsStr(param) /\ param \in DOMAIN types)
      /\ declared => ptype = types[param]
      /\ ~declared => ptype = Nil
  BY SameParamType
<1>4. Plain(ptype)
  <2>1. CASE declared
    BY <2>1, DeclaredTypeInside DEF Closed
  <2>2. CASE ~declared
    BY <2>2, <1>3 DEF Plain
  <2>. QED BY <2>1, <2>2
<1>5. unfit <=> unfitServer
  <2>1. /\ (ctype = Absent) <=> (Server!ColumnType(ds, col) = {})
        /\ ctype # Absent => Server!ColumnType(ds, col) = {ctype}
    BY SameColumnType
  <2>2. CASE declared /\ ctype # Absent
    BY <1>3, <1>4, <2>1, <2>2, SameFits
  <2>3. CASE ctype = Absent
    BY <2>1, <2>3
  <2>4. CASE ~declared
    <3>1. ~IsOneOf(ptype, DOMAIN Tool!Filterable) BY <1>3, <2>4, KindsApart
    <3>. QED BY <2>4, <3>1
  <2>. QED BY <2>2, <2>3, <2>4
<1>6. boolean <=> booleanServer
  <2>1. Nil # Str("boolean") BY DEF Nil, Str
  <2>. QED BY <1>3, <2>1
<1>7. CASE ~IsMap(f)
  BY <1>1, <1>7, Zenon DEF Tool!Filter, Server!FilterErrors
<1>8. CASE IsMap(f)
  <2>1. Tool!Filter(f, i, params, ds) =
          known \cup there \cup tenant \cup oped \cup undeclared
          \cup Server!Flag(unfit, "query.filters", i, "param", "incompatible_filter")
          \cup Server!Flag(boolean, "query.filters", i, "op", "incompatible_filter")
    BY <1>1, <1>2, <1>8, Zenon DEF Tool!Filter, Tool!Flag, Server!Flag
  <2>2. Server!FilterErrors(f, i, ds, types) =
          known \cup there \cup tenant \cup oped \cup undeclared
          \cup Server!Flag(unfitServer, "query.filters", i, "param", "incompatible_filter")
          \cup Server!Flag(booleanServer, "query.filters", i, "op", "incompatible_filter")
    BY <1>1, <1>2, <1>3, <1>8, Zenon DEF Server!FilterErrors, Server!Flag
  <2>3. /\ Server!Flag(unfit, "query.filters", i, "param", "incompatible_filter")
           = Server!Flag(unfitServer, "query.filters", i, "param", "incompatible_filter")
        /\ Server!Flag(boolean, "query.filters", i, "op", "incompatible_filter")
           = Server!Flag(booleanServer, "query.filters", i, "op", "incompatible_filter")
    BY <1>5, <1>6, Zenon DEF Server!Flag
  <2>. QED BY <2>1, <2>2, <2>3, Zenon
<1>. QED BY <1>7, <1>8

LEMMA SameOrder ==
  ASSUME NEW V, Closed(V), NEW o \in V, NEW i, NEW selectAs, Scalars(selectAs)
  PROVE  Tool!Order(o, i, selectAs) = Server!OrderErrors(o, i, selectAs)
<1>. DEFINE col == At(o, "column")
            way == At(o, "dir")
            keys == {"column", "dir"}
            known == Server!UnknownKeys(o, keys, "query.order_by", i)
<1>1. /\ Tool!IsMap(o) = IsMap(o) /\ Server!IsMap(o) = IsMap(o)
      /\ Tool!Self = Self /\ Server!Self = Self /\ Tool!Nil = Nil /\ Server!Nil = Nil
      /\ Tool!At(o, "column") = col /\ Server!At(o, "column") = col
      /\ Tool!At(o, "dir") = way /\ Server!At(o, "dir") = way
      /\ Tool!IsStr(col) = IsStr(col) /\ Server!IsStr(col) = IsStr(col)
      /\ Server!Str("asc") = Str("asc") /\ Server!Str("desc") = Str("desc")
      /\ Tool!IsOneOf(way, {"asc", "desc"}) = IsOneOf(way, {"asc", "desc"})
      /\ Tool!UnknownKeys(o, keys, "query.order_by", i) = known
      /\ Server!UnknownKeys(o, keys, "query.order_by", i) = known
  BY ToolReading, ServerReading, SameUnknown, Zenon
<1>2. Tool!ContainsAny(selectAs, col) <=> Server!Member(selectAs, col)
  BY SameMember
<1>3. IsOneOf(way, {"asc", "desc"}) <=> way \in {Str("asc"), Str("desc")}
  <2>1. Plain(way) BY Inside DEF Closed
  <2>. QED BY <2>1, OneOfTwo
<1>4. CASE ~IsMap(o)
  BY <1>1, <1>4, Zenon DEF Tool!Order, Server!OrderErrors
<1>5. CASE IsMap(o)
  <2>1. Tool!Order(o, i, selectAs) =
          known
          \cup Tool!Flag(~IsStr(col) \/ ~Tool!ContainsAny(selectAs, col),
                         "query.order_by", i, "column", "unknown_column")
          \cup Tool!Flag(way # Nil /\ ~IsOneOf(way, {"asc", "desc"}),
                         "query.order_by", i, "dir", "invalid_value")
    BY <1>1, <1>5, Zenon DEF Tool!Order
  <2>2. Server!OrderErrors(o, i, selectAs) =
          known
          \cup Server!Flag(~(IsStr(col) /\ Server!Member(selectAs, col)),
                           "query.order_by", i, "column", "unknown_column")
          \cup Server!Flag(way \notin {Nil, Str("asc"), Str("desc")},
                           "query.order_by", i, "dir", "invalid_value")
    BY <1>1, <1>5, Zenon DEF Server!OrderErrors
  <2>. HIDE DEF known, col, way
  <2>. QED BY <1>2, <1>3, <2>1, <2>2 DEF Tool!Flag, Server!Flag
<1>. QED BY <1>4, <1>5

\* The parts of Server!QueryErrors about filters and about order_by.
FiltersAtServer(v, ds, types) ==
  CASE v = Server!Nil -> {}
    [] Server!IsList(v) -> UNION {Server!FilterErrors(v[2][i], i, ds, types) : i \in DOMAIN v[2]}
    [] OTHER -> {<<"query", 0, "filters", "invalid_type">>}

OrderAtServer(v, selectAs) ==
  CASE v = Server!Nil -> {}
    [] Server!IsList(v) -> UNION {Server!OrderErrors(v[2][i], i, selectAs) : i \in DOMAIN v[2]}
    [] OTHER -> {<<"query", 0, "order_by", "invalid_type">>}

LEMMA SameFilters ==
  ASSUME NEW V, Closed(V), NEW v \in V, NEW params \in Seq(V), NEW ds, Typed(ds)
  PROVE  Tool!Filters(v, params, ds) = FiltersAtServer(v, ds, Server!ParamTypesOf(params))
<1>. DEFINE types == Server!ParamTypesOf(params)
<1>1. /\ Tool!IsList(v) = IsList(v) /\ Server!IsList(v) = IsList(v)
      /\ Tool!Nil = Nil /\ Server!Nil = Nil
  BY ToolReading, ServerReading, Zenon
<1>2. CASE v = Nil
  <2>1. ~IsList(v) BY <1>2, KindsApart
  <2>. QED BY <1>1, <1>2, <2>1, Zenon DEF Tool!Filters, FiltersAtServer
<1>3. CASE IsList(v)
  <2>1. v # Nil BY <1>3, KindsApart
  <2>2. \A i \in DOMAIN v[2] : Tool!Filter(v[2][i], i, params, ds) = Server!FilterErrors(v[2][i], i, ds, types)
    BY SameFilter
  <2>3. Tool!Filters(v, params, ds)
        = UNION {Tool!Filter(v[2][i], i, params, ds) : i \in DOMAIN v[2]}
    BY <1>1, <1>3, <2>1, Zenon DEF Tool!Filters
  <2>4. FiltersAtServer(v, ds, types)
        = UNION {Server!FilterErrors(v[2][i], i, ds, types) : i \in DOMAIN v[2]}
    BY <1>1, <1>3, <2>1, Zenon DEF FiltersAtServer
  <2>. HIDE DEF types
  <2>5. Tool!Filters(v, params, ds) = FiltersAtServer(v, ds, types)
    BY <2>2, <2>3, <2>4
  <2>. QED BY <2>5 DEF types
<1>4. CASE v # Nil /\ ~IsList(v)
  BY <1>1, <1>4, Zenon DEF Tool!Filters, FiltersAtServer
<1>. QED BY <1>2, <1>3, <1>4

LEMMA SameOrderBy ==
  ASSUME NEW V, Closed(V), NEW v \in V, NEW selectAs, Scalars(selectAs)
  PROVE  Tool!OrderBy(v, selectAs) = OrderAtServer(v, selectAs)
<1>1. /\ Tool!IsList(v) = IsList(v) /\ Server!IsList(v) = IsList(v)
      /\ Tool!Nil = Nil /\ Server!Nil = Nil
  BY ToolReading, ServerReading, Zenon
<1>2. CASE v = Nil
  <2>1. ~IsList(v) BY <1>2, KindsApart
  <2>. QED BY <1>1, <1>2, <2>1, Zenon DEF Tool!OrderBy, OrderAtServer
<1>3. CASE IsList(v)
  <2>1. v # Nil BY <1>3, KindsApart
  <2>2. \A i \in DOMAIN v[2] : v[2][i] \in V BY <1>3 DEF Closed
  <2>3. \A i \in DOMAIN v[2] : Tool!Order(v[2][i], i, selectAs) = Server!OrderErrors(v[2][i], i, selectAs)
    BY <2>2, SameOrder
  <2>4. Tool!OrderBy(v, selectAs) = UNION {Tool!Order(v[2][i], i, selectAs) : i \in DOMAIN v[2]}
    BY <1>1, <1>3, <2>1, Zenon DEF Tool!OrderBy
  <2>5. OrderAtServer(v, selectAs)
        = UNION {Server!OrderErrors(v[2][i], i, selectAs) : i \in DOMAIN v[2]}
    BY <1>1, <1>3, <2>1, Zenon DEF OrderAtServer
  <2>. QED BY <2>3, <2>4, <2>5
<1>4. CASE v # Nil /\ ~IsList(v)
  BY <1>1, <1>4, Zenon DEF Tool!OrderBy, OrderAtServer
<1>. QED BY <1>2, <1>3, <1>4

(* The query of an endpoint: outputs, grouping, filters and order.         *)
LEMMA SameQuery ==
  ASSUME NEW V, Closed(V), NEW q \in V, NotFalse(q),
         NEW params \in Seq(V), NEW selectAs, Scalars(selectAs), NEW ds, Typed(ds)
  PROVE  Tool!Query(q, params, selectAs, ds)
         = Server!QueryErrors(q, ds, Server!ParamTypesOf(params), selectAs)
<1>. DEFINE types == Server!ParamTypesOf(params)
            selects == Items(At(q, "select"))
            keys == {"group_by", "select", "filters", "order_by"}
            known == Server!UnknownKeys(q, keys, "query", 0)
            filtered == FiltersAtServer(At(q, "filters"), ds, types)
            ordered == OrderAtServer(At(q, "order_by"), selectAs)
            grouped == Server!GroupByErrors(Server!GroupBy(q), selects, selectAs)
            twice == Server!Flag(Server!Duplicates(selectAs), "query", 0, "select", "duplicate_column")
            each == UNION {Server!SelectErrors(selects[i], i, ds) : i \in DOMAIN selects}
            missing == {<<"query", 0, "select", "missing">>}
<1>1. /\ Tool!IsMap(q) = IsMap(q) /\ Server!IsMap(q) = IsMap(q)
      /\ Tool!Top = Top /\ Server!Top = Top
      /\ Tool!At(q, "select") = At(q, "select") /\ Server!At(q, "select") = At(q, "select")
      /\ Tool!At(q, "group_by") = At(q, "group_by")
      /\ Tool!At(q, "filters") = At(q, "filters") /\ Server!At(q, "filters") = At(q, "filters")
      /\ Tool!At(q, "order_by") = At(q, "order_by") /\ Server!At(q, "order_by") = At(q, "order_by")
      /\ Tool!Items(At(q, "select")) = selects /\ Server!Items(At(q, "select")) = selects
      /\ Tool!UnknownKeys(q, keys, "query", 0) = known
      /\ Server!UnknownKeys(q, keys, "query", 0) = known
  BY ToolReading, ServerReading, SameUnknown, Zenon
<1>2. At(q, "group_by") \in V /\ At(q, "filters") \in V /\ At(q, "order_by") \in V
  BY Inside
<1>3. CASE ~IsMap(q)
  BY <1>1, <1>3, Zenon DEF Tool!Query, Server!QueryErrors
<1>4. CASE IsMap(q)
  <2>1. Tool!Filters(At(q, "filters"), params, ds) = filtered BY <1>2, SameFilters
  <2>2. Tool!OrderBy(At(q, "order_by"), selectAs) = ordered BY <1>2, SameOrderBy
  <2>3. Tool!GroupBy(At(q, "group_by"), selects, selectAs) = grouped
    <3>. HIDE DEF selects
    <3>. QED BY <1>2, SameGroupBy
  <2>4. Tool!Selects(q, selectAs, ds) =
          IF selects = <<>> THEN missing ELSE twice \cup each \cup grouped
    <3>1. Tool!Flag(Tool!HasDuplicates(selectAs), "query", 0, "select", "duplicate_column") = twice
      BY SameDuplicates, Zenon DEF Tool!Flag, Server!Flag
    <3>2. (UNION {Tool!Select(selects[i], i, ds) : i \in DOMAIN selects}) = each
      <4>1. \A i \in DOMAIN selects : Tool!Select(selects[i], i, ds) = Server!SelectErrors(selects[i], i, ds)
        BY SameSelect
      <4>. HIDE DEF selects
      <4>. QED BY <4>1
    <3>. HIDE DEF twice, each, grouped
    <3>. QED BY <1>1, <2>3, <3>1, <3>2, Zenon DEF Tool!Selects
  <2>5. Tool!Query(q, params, selectAs, ds) =
          known \cup (IF selects = <<>> THEN missing ELSE twice \cup each \cup grouped)
          \cup filtered \cup ordered
    <3>. HIDE DEF twice, each, grouped, filtered, ordered
    <3>. QED BY <1>1, <1>4, <2>1, <2>2, <2>4, Zenon DEF Tool!Query
  <2>6. Server!QueryErrors(q, ds, types, selectAs) =
          known \cup (IF selects = <<>> THEN missing ELSE twice \cup each \cup grouped)
          \cup filtered \cup ordered
    <3>. DEFINE picked == Server!Items(Server!At(q, "select"))
    <3>1. Server!QueryErrors(q, ds, types, selectAs) =
            IF ~Server!IsMap(q)
            THEN {<<Server!Top, 0, "query", "missing">>}
            ELSE Server!UnknownKeys(q, keys, "query", 0)
                 \cup (IF picked = <<>>
                       THEN missing
                       ELSE Server!Flag(Server!Duplicates(selectAs), "query", 0, "select", "duplicate_column")
                            \cup (UNION {Server!SelectErrors(picked[i], i, ds) : i \in DOMAIN picked})
                            \cup Server!GroupByErrors(Server!GroupBy(q), picked, selectAs))
                 \cup FiltersAtServer(Server!At(q, "filters"), ds, types)
                 \cup OrderAtServer(Server!At(q, "order_by"), selectAs)
      BY Zenon DEF Server!QueryErrors, Server!EachOf, FiltersAtServer, OrderAtServer
    <3>2. picked = selects BY <1>1, Zenon
    <3>3. /\ FiltersAtServer(Server!At(q, "filters"), ds, types) = filtered
          /\ OrderAtServer(Server!At(q, "order_by"), selectAs) = ordered
          /\ Server!UnknownKeys(q, keys, "query", 0) = known
      BY <1>1, Zenon
    <3>. HIDE DEF picked, types, selects, filtered, ordered, known, missing
    <3>4. (UNION {Server!SelectErrors(picked[i], i, ds) : i \in DOMAIN picked}) = each
      BY <3>2
    <3>5. Server!GroupByErrors(Server!GroupBy(q), picked, selectAs) = grouped
      BY <3>2, Zenon
    <3>. HIDE DEF each, grouped, twice
    <3>6. Server!Flag(Server!Duplicates(selectAs), "query", 0, "select", "duplicate_column") = twice
      BY Zenon DEF twice
    <3>. QED BY <1>1, <1>4, <3>1, <3>2, <3>3, <3>4, <3>5, <3>6, Zenon
  <2>. QED BY <2>5, <2>6, Zenon
<1>. QED BY <1>3, <1>4

-----------------------------------------------------------------------------
(* Endpoints                                                               *)

LEMMA NothingThere == DOMAIN <<>> = {}
OBVIOUS

LEMMA SameColumns ==
  ASSUME NEW V, Closed(V), NEW v \in V, NEW selectAs, Scalars(selectAs)
  PROVE  Tool!ColumnsRule(v, selectAs) = Server!ColumnsErrors(v, selectAs)
<1>1. /\ Tool!Items(v) = Items(v) /\ Server!Items(v) = Items(v)
      /\ Tool!Top = Top /\ Server!Top = Top
  BY ToolReading, ServerReading, Zenon
<1>2. CASE Items(v) = <<>>
  BY <1>1, <1>2, Zenon DEF Tool!ColumnsRule, Server!ColumnsErrors
<1>3. CASE Items(v) # <<>>
  <2>1. v[2] \in Seq(V)
    <3>1. IsList(v) BY <1>3, KindsApart
    <3>. QED BY <3>1 DEF Closed
  <2>2. Tool!Leaves(v[2], selectAs) <=> Server!Difference(v[2], selectAs)
    BY <2>1, SameLeavesOfStrings
  <2>3. Tool!Leaves(selectAs, v[2]) <=> Server!Difference(selectAs, v[2])
    BY SameLeaves
  <2>. QED
    BY <1>1, <1>3, <2>2, <2>3, Zenon DEF Tool!ColumnsRule, Server!ColumnsErrors, Tool!Flag, Server!Flag
<1>. QED BY <1>2, <1>3

LEMMA SameIdentifier ==
  ASSUME NEW v, NEW field
  PROVE  Tool!Identifier(v, field) = Server!IdentifierField(v, field)
<1>1. /\ Tool!IsStr(v) = IsStr(v) /\ Server!IsStr(v) = IsStr(v)
      /\ Tool!SafeIdent(v) = SafeIdent(v) /\ Server!SafeIdent(v) = SafeIdent(v)
      /\ Tool!Top = Top /\ Server!Top = Top
  BY ToolReading, ServerReading, Zenon
<1>2. SafeIdent(v) => IsStr(v) BY KindsApart
<1>3. CASE SafeIdent(v)
  BY <1>1, <1>2, <1>3, Zenon DEF Tool!Identifier, Server!IdentifierField, Tool!Flag
<1>4. CASE IsStr(v) /\ ~SafeIdent(v)
  BY <1>1, <1>4, Zenon DEF Tool!Identifier, Server!IdentifierField, Tool!Flag
<1>5. CASE ~IsStr(v)
  BY <1>1, <1>2, <1>5, Zenon DEF Tool!Identifier, Server!IdentifierField
<1>. QED BY <1>3, <1>4, <1>5

\* What the two sides read alike in an endpoint, save for their numbers.
FlatEndpoint(raw) ==
  /\ NotFalse(At(raw, "query"))
  /\ \A i \in DOMAIN Items(At(raw, "params")) : FlatParam(Items(At(raw, "params"))[i])
  /\ \A i \in DOMAIN Items(At(raw, "combinations")) : Scalars(Items(Items(At(raw, "combinations"))[i]))

\* The part of Server!EndpointErrors about params.
EachParamAtServer(v) ==
  CASE v = Server!Nil -> {}
    [] Server!IsList(v) -> UNION {Server!ParamErrors(v[2][i], i) : i \in DOMAIN v[2]}
    [] OTHER -> {<<Server!Top, 0, "params", "invalid_type">>}

LEMMA EachParam ==
  ASSUME NEW v
  PROVE  EachParamAtServer(v) =
           Tool!Flag(v # Nil /\ ~IsList(v), Top, 0, "params", "invalid_type")
           \cup UNION {Server!ParamErrors(Items(v)[i], i) : i \in DOMAIN Items(v)}
<1>1. Server!Nil = Nil /\ Server!IsList(v) = IsList(v) /\ Server!Top = Top
  BY ServerReading, Zenon
<1>2. CASE IsList(v)
  <2>1. v # Nil /\ Items(v) = v[2] BY <1>2, KindsApart
  <2>2. EachParamAtServer(v) = UNION {Server!ParamErrors(v[2][i], i) : i \in DOMAIN v[2]}
    BY <1>1, <1>2, <2>1, Zenon DEF EachParamAtServer
  <2>. QED BY <1>2, <2>1, <2>2 DEF Tool!Flag
<1>3. CASE ~IsList(v)
  <2>1. Items(v) = <<>> BY <1>3, KindsApart
  <2>2. (UNION {Server!ParamErrors(Items(v)[i], i) : i \in DOMAIN Items(v)}) = {}
    BY <2>1, NothingThere
  <2>3. EachParamAtServer(v) = IF v = Nil THEN {} ELSE {<<Top, 0, "params", "invalid_type">>}
    BY <1>1, <1>3, Zenon DEF EachParamAtServer
  <2>. QED BY <1>3, <2>2, <2>3 DEF Tool!Flag
<1>. QED BY <1>2, <1>3

LEMMA SameHeader ==
  ASSUME NEW V, Closed(V), NEW raw \in V
  PROVE  Tool!Header(raw) =
           Server!UnknownKeys(raw, Tool!EndpointKeys, Top, 0)
           \cup Server!IdentifierField(At(raw, "name"), "name")
           \cup Server!Flag(~Server!IsInteger(At(raw, "version")), Top, 0, "version", "invalid_type")
           \cup Server!Flag(~IsNonEmpty(At(raw, "owner")), Top, 0, "owner", "missing")
           \cup Server!Flag(At(raw, "serving_mode") \notin {Nil, Str("local_table"), Str("remote_scan")},
                            Top, 0, "serving_mode", "invalid_value")
           \cup Tool!Flag(At(raw, "params") # Nil /\ ~IsList(At(raw, "params")),
                          Top, 0, "params", "invalid_type")
<1>. DEFINE mode == At(raw, "serving_mode")
            params == At(raw, "params")
            version == At(raw, "version")
            owner == At(raw, "owner")
<1>1. /\ Tool!Top = Top /\ Tool!Nil = Nil
      /\ Tool!At(raw, "name") = At(raw, "name") /\ Tool!At(raw, "version") = version
      /\ Tool!At(raw, "owner") = owner /\ Tool!At(raw, "serving_mode") = mode
      /\ Tool!At(raw, "params") = params /\ Tool!IsList(params) = IsList(params)
      /\ Tool!IsNonEmpty(owner) = IsNonEmpty(owner)
      /\ Tool!UnknownKeys(raw, Tool!EndpointKeys, Top, 0) = Server!UnknownKeys(raw, Tool!EndpointKeys, Top, 0)
      /\ Tool!Identifier(At(raw, "name"), "name") = Server!IdentifierField(At(raw, "name"), "name")
      /\ Tool!IsOneOf(mode, Tool!ServingModes) = IsOneOf(mode, {"local_table", "remote_scan"})
  BY ToolReading, SameUnknown, SameIdentifier, Zenon DEF Tool!ServingModes
<1>2. Plain(version) /\ Plain(mode) BY Inside DEF Closed
<1>3. Tool!IsInt(version) <=> Server!IsInteger(version) BY <1>2, Numbers
<1>4. (mode # Nil /\ ~IsOneOf(mode, {"local_table", "remote_scan"}))
        <=> (mode \notin {Nil, Str("local_table"), Str("remote_scan")})
  BY <1>2, OneOfTwo
<1>5. /\ Tool!Flag(~Tool!IsInt(version), Top, 0, "version", "invalid_type")
         = Server!Flag(~Server!IsInteger(version), Top, 0, "version", "invalid_type")
      /\ Tool!Flag(~IsNonEmpty(owner), Top, 0, "owner", "missing")
         = Server!Flag(~IsNonEmpty(owner), Top, 0, "owner", "missing")
      /\ Tool!Flag(mode # Nil /\ ~IsOneOf(mode, {"local_table", "remote_scan"}),
                   Top, 0, "serving_mode", "invalid_value")
         = Server!Flag(mode \notin {Nil, Str("local_table"), Str("remote_scan")},
                       Top, 0, "serving_mode", "invalid_value")
  BY <1>3, <1>4, Zenon DEF Tool!Flag, Server!Flag
<1>. HIDE DEF mode, params, version, owner
<1>6. Tool!Header(raw) =
        Server!UnknownKeys(raw, Tool!EndpointKeys, Top, 0)
        \cup Server!IdentifierField(At(raw, "name"), "name")
        \cup Tool!Flag(~Tool!IsInt(version), Top, 0, "version", "invalid_type")
        \cup Tool!Flag(~IsNonEmpty(owner), Top, 0, "owner", "missing")
        \cup Tool!Flag(mode # Nil /\ ~IsOneOf(mode, {"local_table", "remote_scan"}),
                       Top, 0, "serving_mode", "invalid_value")
        \cup Tool!Flag(params # Nil /\ ~IsList(params), Top, 0, "params", "invalid_type")
  BY <1>1, Zenon DEF Tool!Header
<1>. QED BY <1>5, <1>6, Zenon DEF mode, params, version, owner

LEMMA ToolEndpoint ==
  ASSUME NEW raw, NEW ds
  PROVE  LET params == Items(At(raw, "params"))
             q == At(raw, "query")
             selectAs == Names(Items(At(q, "select")), "as")
         IN  Tool!ValidateEndpoint(raw, ds) =
               Tool!Header(raw)
               \cup Tool!Freshness(At(raw, "freshness"))
               \cup Tool!Tenant(At(raw, "tenant"), ds)
               \cup Tool!Params(params)
               \cup Tool!DefaultRanges(params, Items(At(q, "filters")), ds)
               \cup Tool!Combinations(At(raw, "combinations"), Names(params, "name"))
               \cup Tool!Query(q, params, selectAs, ds)
               \cup Tool!ColumnsRule(At(raw, "columns"), selectAs)
               \cup Tool!Pagination(At(raw, "pagination"))
               \cup Tool!Cache(At(raw, "cache"))
<1>1. /\ \A v, key : Tool!At(v, key) = At(v, key)
      /\ \A v : Tool!Items(v) = Items(v)
      /\ \A items, key : Tool!Names(items, key) = Names(items, key)
  BY ToolReading, NamesRead
<1>. QED BY <1>1 DEF Tool!ValidateEndpoint

LEMMA ServerEndpoint ==
  ASSUME NEW raw, NEW ds
  PROVE  LET params == Items(At(raw, "params"))
             q == At(raw, "query")
             names == Names(params, "name")
             selectAs == Names(Items(At(q, "select")), "as")
         IN  Server!EndpointErrors(raw, ds) =
               Server!UnknownKeys(raw, Tool!EndpointKeys, Top, 0)
               \cup Server!IdentifierField(At(raw, "name"), "name")
               \cup Server!Flag(~Server!IsInteger(At(raw, "version")), Top, 0, "version", "invalid_type")
               \cup Server!Flag(~IsNonEmpty(At(raw, "owner")), Top, 0, "owner", "missing")
               \cup Server!Flag(At(raw, "serving_mode") \notin {Nil, Str("local_table"), Str("remote_scan")},
                                Top, 0, "serving_mode", "invalid_value")
               \cup Server!Optional(At(raw, "freshness"), "freshness", Server!FreshnessErrors)
               \cup Server!TenantErrors(At(raw, "tenant"), ds)
               \cup EachParamAtServer(At(raw, "params"))
               \cup Server!Flag(Server!Duplicates(names), Top, 0, "params", "duplicate_param")
               \cup Server!DefaultRangeErrors(params, Items(At(q, "filters")), ds)
               \cup CombinationsAtServer(At(raw, "combinations"), names)
               \cup Server!QueryErrors(q, ds, Server!ParamTypesOf(params), selectAs)
               \cup Server!ColumnsErrors(At(raw, "columns"), selectAs)
               \cup Server!Optional(At(raw, "pagination"), "pagination", Server!PaginationErrors)
               \cup Server!CacheErrors(At(raw, "cache"))
<1>1. /\ \A v, key : Server!At(v, key) = At(v, key)
      /\ \A v : Server!Items(v) = Items(v)
      /\ \A items, key : Server!Names(items, key) = Names(items, key)
      /\ \A v : Server!IsNonEmpty(v) = IsNonEmpty(v)
      /\ \A s : Server!Str(s) = Str(s)
      /\ Server!Nil = Nil /\ Server!Top = Top
  BY ServerReading, NamesRead
<1>2. Server!EndpointErrors(raw, ds) =
        LET params == Server!Items(Server!At(raw, "params"))
            q == Server!At(raw, "query")
            names == Server!Names(params, "name")
            selectAs == Server!Names(Server!Items(Server!At(q, "select")), "as")
        IN  Server!UnknownKeys(raw, Tool!EndpointKeys, Server!Top, 0)
            \cup Server!IdentifierField(Server!At(raw, "name"), "name")
            \cup Server!Flag(~Server!IsInteger(Server!At(raw, "version")), Server!Top, 0, "version", "invalid_type")
            \cup Server!Flag(~Server!IsNonEmpty(Server!At(raw, "owner")), Server!Top, 0, "owner", "missing")
            \cup Server!Flag(Server!At(raw, "serving_mode")
                               \notin {Server!Nil, Server!Str("local_table"), Server!Str("remote_scan")},
                             Server!Top, 0, "serving_mode", "invalid_value")
            \cup Server!Optional(Server!At(raw, "freshness"), "freshness", Server!FreshnessErrors)
            \cup Server!TenantErrors(Server!At(raw, "tenant"), ds)
            \cup EachParamAtServer(Server!At(raw, "params"))
            \cup Server!Flag(Server!Duplicates(names), Server!Top, 0, "params", "duplicate_param")
            \cup Server!DefaultRangeErrors(params, Server!Items(Server!At(q, "filters")), ds)
            \cup CombinationsAtServer(Server!At(raw, "combinations"), names)
            \cup Server!QueryErrors(q, ds, Server!ParamTypesOf(params), selectAs)
            \cup Server!ColumnsErrors(Server!At(raw, "columns"), selectAs)
            \cup Server!Optional(Server!At(raw, "pagination"), "pagination", Server!PaginationErrors)
            \cup Server!CacheErrors(Server!At(raw, "cache"))
  BY Zenon DEF Server!EndpointErrors, Server!EachOf, EachParamAtServer, CombinationsAtServer, Tool!EndpointKeys
<1>. QED BY <1>1, <1>2

(* An endpoint, given what its dataset is.                                 *)
LEMMA SameEndpoint ==
  ASSUME NEW V, Closed(V), NEW raw \in V, FlatEndpoint(raw), NEW ds, Typed(ds)
  PROVE  Tool!ValidateEndpoint(raw, ds) = Server!EndpointErrors(raw, ds)
<1>. DEFINE params == Items(At(raw, "params"))
            q == At(raw, "query")
            names == Names(params, "name")
            selectAs == Names(Items(At(q, "select")), "as")
            filters == Items(At(q, "filters"))
            each == UNION {Server!ParamErrors(params[i], i) : i \in DOMAIN params}
            twice == Server!Flag(Server!Duplicates(names), Top, 0, "params", "duplicate_param")
            ranges == Server!DefaultRangeErrors(params, filters, ds)
            untyped == Tool!Flag(At(raw, "params") # Nil /\ ~IsList(At(raw, "params")),
                                 Top, 0, "params", "invalid_type")
<1>1. \A key : At(raw, key) \in V BY Inside
<1>2. /\ params \in Seq(V)
      /\ \A i \in DOMAIN params : params[i] \in V /\ FlatParam(params[i])
      /\ q \in V /\ NotFalse(q) /\ Scalars(names) /\ Scalars(selectAs)
      /\ \A i \in DOMAIN Items(At(raw, "combinations")) : Scalars(Items(Items(At(raw, "combinations"))[i]))
  BY <1>1, Inside, NamesAreScalars DEF FlatEndpoint
<1>3. \A key, f : Plain(At(At(raw, key), f)) BY <1>1, Inside DEF Closed
<1>4. Tool!Freshness(At(raw, "freshness"))
      = Server!Optional(At(raw, "freshness"), "freshness", Server!FreshnessErrors)
  BY <1>3, SameFreshness
<1>5. Tool!Tenant(At(raw, "tenant"), ds) = Server!TenantErrors(At(raw, "tenant"), ds)
  BY <1>3, SameTenant
<1>6. Tool!Params(params) \cup Tool!DefaultRanges(params, filters, ds) = each \cup twice \cup ranges
  <2>. HIDE DEF params, filters
  <2>. QED BY <1>2, SameParams
<1>7. Tool!Combinations(At(raw, "combinations"), names)
      = CombinationsAtServer(At(raw, "combinations"), names)
  <2>. HIDE DEF names
  <2>. QED BY <1>2, SameCombinations
<1>8. Tool!Query(q, params, selectAs, ds)
      = Server!QueryErrors(q, ds, Server!ParamTypesOf(params), selectAs)
  <2>. HIDE DEF params, q, selectAs
  <2>. QED BY <1>2, SameQuery
<1>9. Tool!ColumnsRule(At(raw, "columns"), selectAs)
      = Server!ColumnsErrors(At(raw, "columns"), selectAs)
  <2>. HIDE DEF selectAs
  <2>. QED BY <1>1, <1>2, SameColumns
<1>10. Tool!Pagination(At(raw, "pagination"))
       = Server!Optional(At(raw, "pagination"), "pagination", Server!PaginationErrors)
  BY <1>3, SamePagination
<1>11. Tool!Cache(At(raw, "cache")) = Server!CacheErrors(At(raw, "cache"))
  BY <1>3, SameCache
<1>12. EachParamAtServer(At(raw, "params")) = untyped \cup each
  BY EachParam, Zenon
<1>. DEFINE known == Server!UnknownKeys(raw, Tool!EndpointKeys, Top, 0)
            named == Server!IdentifierField(At(raw, "name"), "name")
            version == Server!Flag(~Server!IsInteger(At(raw, "version")), Top, 0, "version", "invalid_type")
            owner == Server!Flag(~IsNonEmpty(At(raw, "owner")), Top, 0, "owner", "missing")
            mode == Server!Flag(At(raw, "serving_mode") \notin {Nil, Str("local_table"), Str("remote_scan")},
                                Top, 0, "serving_mode", "invalid_value")
            fresh == Server!Optional(At(raw, "freshness"), "freshness", Server!FreshnessErrors)
            tenant == Server!TenantErrors(At(raw, "tenant"), ds)
            combos == CombinationsAtServer(At(raw, "combinations"), names)
            query == Server!QueryErrors(q, ds, Server!ParamTypesOf(params), selectAs)
            columns == Server!ColumnsErrors(At(raw, "columns"), selectAs)
            paged == Server!Optional(At(raw, "pagination"), "pagination", Server!PaginationErrors)
            cached == Server!CacheErrors(At(raw, "cache"))
            toolParams == Tool!Params(params)
            toolRanges == Tool!DefaultRanges(params, filters, ds)
<1>13. Tool!Header(raw) = known \cup named \cup version \cup owner \cup mode \cup untyped
  BY SameHeader
<1>14. Tool!ValidateEndpoint(raw, ds) =
         (known \cup named \cup version \cup owner \cup mode \cup untyped) \cup fresh \cup tenant
         \cup toolParams \cup toolRanges
         \cup combos \cup query \cup columns \cup paged \cup cached
  BY <1>4, <1>5, <1>7, <1>8, <1>9, <1>10, <1>11, <1>13, ToolEndpoint, Zenon
<1>15. Server!EndpointErrors(raw, ds) =
         known \cup named \cup version \cup owner \cup mode \cup fresh \cup tenant
         \cup (untyped \cup each) \cup twice \cup ranges
         \cup combos \cup query \cup columns \cup paged \cup cached
  BY <1>12, ServerEndpoint, Zenon
<1>16. toolParams \cup toolRanges = each \cup twice \cup ranges BY <1>6
<1>. HIDE DEF known, named, version, owner, mode, untyped, fresh, tenant, combos, query, columns,
              paged, cached, each, twice, ranges, toolParams, toolRanges
<1>. QED BY <1>14, <1>15, <1>16

-----------------------------------------------------------------------------
(* Datasets                                                                *)

LEMMA SameFlag ==
  \A cond, parent, i, field, code :
    Tool!Flag(cond, parent, i, field, code) = Server!Flag(cond, parent, i, field, code)
BY Zenon DEF Tool!Flag, Server!Flag

LEMMA SameSource ==
  ASSUME NEW m, m = Nil, NEW s, IsMap(s), Plain(At(s, "type")), Plain(At(s, "interval_seconds"))
  PROVE  Tool!SnapshotOrigin(m, s) = Server!SnapshotOriginErrors(m, s)
<1>. DEFINE type == At(s, "type")
            interval == At(s, "interval_seconds")
            known == Server!UnknownKeys(s, {"type", "bucket", "prefix", "interval_seconds"}, "source", 0)
            untyped == Server!Flag(type # Str("databricks"), "source", 0, "type", "invalid_value")
            missing(k) == Server!Flag(~IsNonEmpty(At(s, k)), "source", 0, k, "missing")
            odd == Server!Flag(interval # Nil /\ ~Server!Positive(interval),
                               "source", 0, "interval_seconds", "invalid_value")
<1>1. /\ Tool!At(s, "type") = type /\ Server!At(s, "type") = type
      /\ Tool!At(s, "interval_seconds") = interval /\ Server!At(s, "interval_seconds") = interval
      /\ \A k : Tool!At(s, k) = At(s, k) /\ Server!At(s, k) = At(s, k)
      /\ Tool!UnknownKeys(s, Tool!SourceKeys, "source", 0)
           = Server!UnknownKeys(s, Tool!SourceKeys, "source", 0)
      /\ Tool!Nil = Nil /\ Server!Nil = Nil /\ Server!Str("databricks") = Str("databricks")
      /\ Tool!IsOneOf(type, {"databricks"}) = IsOneOf(type, {"databricks"})
      /\ \A v : Tool!IsNonEmpty(v) = IsNonEmpty(v) /\ Server!IsNonEmpty(v) = IsNonEmpty(v)
      /\ Tool!IsMap(s) = IsMap(s) /\ Server!IsMap(s) = IsMap(s)
      /\ Tool!IsNonEmpty(m) = IsNonEmpty(m) /\ Server!IsNonEmpty(m) = IsNonEmpty(m)
      /\ Tool!IsStr(m) = IsStr(m) /\ Server!IsStr(m) = IsStr(m)
  BY ToolReading, ServerReading, SameUnknown, Zenon
<1>2. IsOneOf(type, {"databricks"}) <=> (type = Str("databricks"))
  <2>1. IsOneOf(type, {"databricks"}) <=> (\E t \in {"databricks"} : type = Str(t)) BY OneOf
  <2>. QED BY <2>1, Zenon
<1>3. Tool!IsPositive(interval) <=> Server!Positive(interval) BY Numbers
<1>4. m = Nil /\ IsMap(s) /\ s # Nil /\ ~IsNonEmpty(m) /\ ~IsStr(m)
  BY KindsApart DEF Nil, IsNonEmpty, IsStr
<1>5. Tool!SnapshotOrigin(m, s) =
        Tool!UnknownKeys(s, Tool!SourceKeys, "source", 0)
        \cup Tool!Flag(~Tool!IsOneOf(type, {"databricks"}), "source", 0, "type", "invalid_value")
        \cup (UNION {Tool!Flag(~Tool!IsNonEmpty(Tool!At(s, k)), "source", 0, k, "missing") :
                       k \in {"bucket", "prefix"}})
        \cup Tool!Flag(interval # Nil /\ ~Tool!IsPositive(interval),
                       "source", 0, "interval_seconds", "invalid_value")
  BY <1>1, <1>4, Zenon DEF Tool!SnapshotOrigin
<1>6. UNION {Tool!Flag(~Tool!IsNonEmpty(Tool!At(s, k)), "source", 0, k, "missing") :
                       k \in {"bucket", "prefix"}}
      = missing("bucket") \cup missing("prefix")
  <2>. DEFINE tool(k) == Tool!Flag(~Tool!IsNonEmpty(Tool!At(s, k)), "source", 0, k, "missing")
  <2>1. \A k : tool(k) = missing(k) BY <1>1, SameFlag, Zenon
  <2>. HIDE DEF tool, missing
  <2>2. UNION {tool(k) : k \in {"bucket", "prefix"}} = missing("bucket") \cup missing("prefix")
    BY <2>1
  <2>. QED BY <2>2 DEF tool
<1>7. Tool!UnknownKeys(s, Tool!SourceKeys, "source", 0) = known
  BY <1>1, Zenon DEF Tool!SourceKeys
<1>8. /\ Tool!Flag(~Tool!IsOneOf(type, {"databricks"}), "source", 0, "type", "invalid_value") = untyped
      /\ Tool!Flag(interval # Nil /\ ~Tool!IsPositive(interval),
                   "source", 0, "interval_seconds", "invalid_value") = odd
  BY <1>1, <1>2, <1>3, SameFlag, Zenon
<1>9. Tool!SnapshotOrigin(m, s)
      = known \cup untyped \cup missing("bucket") \cup missing("prefix") \cup odd
  <2>. DEFINE a == missing("bucket")
              b == missing("prefix")
  <2>1. Tool!SnapshotOrigin(m, s) = known \cup untyped \cup (a \cup b) \cup odd
    BY <1>5, <1>6, <1>7, <1>8, Zenon
  <2>. HIDE DEF known, untyped, missing, odd, a, b
  <2>2. known \cup untyped \cup (a \cup b) \cup odd
        = known \cup untyped \cup a \cup b \cup odd OBVIOUS
  <2>. QED BY <2>1, <2>2 DEF a, b
<1>10. Server!SnapshotOriginErrors(m, s) = Server!SourceErrors(s)
  BY <1>1, <1>4, Zenon DEF Server!SnapshotOriginErrors
<1>11. Server!SourceErrors(s)
       = known \cup untyped \cup missing("bucket") \cup missing("prefix") \cup odd
  BY <1>1, Zenon DEF Server!SourceErrors
<1>. QED BY <1>9, <1>10, <1>11

LEMMA SameOrigin ==
  ASSUME NEW m, NEW s, Plain(At(s, "type")), Plain(At(s, "interval_seconds"))
  PROVE  Tool!SnapshotOrigin(m, s) = Server!SnapshotOriginErrors(m, s)
<1>1. /\ Tool!Nil = Nil /\ Server!Nil = Nil /\ Tool!Top = Top /\ Server!Top = Top
      /\ Tool!IsNonEmpty(m) = IsNonEmpty(m) /\ Server!IsNonEmpty(m) = IsNonEmpty(m)
      /\ Tool!IsStr(m) = IsStr(m) /\ Server!IsStr(m) = IsStr(m)
      /\ Tool!IsMap(s) = IsMap(s) /\ Server!IsMap(s) = IsMap(s)
  BY ToolReading, ServerReading, Zenon
<1>2. /\ IsNonEmpty(m) => IsStr(m) /\ m # Nil
      /\ IsStr(m) => m # Nil
      /\ IsMap(s) => s # Nil
  BY KindsApart
<1>3. CASE m = Nil /\ IsMap(s)
  BY <1>3, SameSource
<1>4. CASE IsNonEmpty(m) /\ s = Nil
  BY <1>1, <1>2, <1>4, Zenon DEF Tool!SnapshotOrigin, Server!SnapshotOriginErrors
<1>5. CASE IsStr(m) /\ IsMap(s)
  BY <1>1, <1>2, <1>5, Zenon DEF Tool!SnapshotOrigin, Server!SnapshotOriginErrors
<1>6. CASE m = Nil /\ s = Nil
  BY <1>1, <1>2, <1>6, Zenon DEF Tool!SnapshotOrigin, Server!SnapshotOriginErrors
<1>7. CASE /\ ~(m = Nil /\ IsMap(s)) /\ ~(IsNonEmpty(m) /\ s = Nil)
           /\ ~(IsStr(m) /\ IsMap(s)) /\ ~(m = Nil /\ s = Nil)
  BY <1>1, <1>7, Zenon DEF Tool!SnapshotOrigin, Server!SnapshotOriginErrors
<1>. QED BY <1>3, <1>4, <1>5, <1>6, <1>7

LEMMA SameTenantColumn ==
  ASSUME NEW col, NEW schema
  PROVE  Tool!TenantColumn(col, schema)
         = Server!TenantColumnErrors(col, Names(Items(schema), "name"))
<1>. DEFINE names == Names(Items(schema), "name")
<1>1. /\ Tool!Nil = Nil /\ Server!Nil = Nil /\ Tool!Top = Top /\ Server!Top = Top
      /\ Tool!SafeColumn(col) = SafeColumn(col) /\ Server!SafeColumn(col) = SafeColumn(col)
      /\ Tool!IsStr(col) = IsStr(col) /\ Server!IsStr(col) = IsStr(col)
  BY ToolReading, ServerReading, Zenon
<1>2. Tool!SchemaNames(schema) = names
  BY ToolReading, NamesRead DEF Tool!SchemaNames
<1>3. Tool!ContainsAny(names, col) <=> Server!Member(names, col)
  BY NamesAreScalars, SameMember
<1>4. SafeColumn(col) => IsStr(col) /\ col # Nil BY KindsApart
<1>5. IsStr(col) => col # Nil BY KindsApart
<1>. HIDE DEF names
<1>6. CASE SafeColumn(col)
  <2>1. Tool!TenantColumn(col, schema)
        = Tool!Flag(~Tool!ContainsAny(names, col), Top, 0, "tenant_column", "unknown_column")
    BY <1>1, <1>2, <1>4, <1>6, Zenon DEF Tool!TenantColumn
  <2>2. Server!TenantColumnErrors(col, names)
        = Server!Flag(~Server!Member(names, col), Top, 0, "tenant_column", "unknown_column")
    BY <1>1, <1>4, <1>6, Zenon DEF Server!TenantColumnErrors
  <2>3. Tool!TenantColumn(col, schema) = Server!TenantColumnErrors(col, names)
    BY <2>1, <2>2, <1>3 DEF Tool!Flag, Server!Flag
  <2>. QED BY <2>3 DEF names
<1>7. CASE ~SafeColumn(col)
  <2>1. Tool!TenantColumn(col, schema) = Server!TenantColumnErrors(col, names)
    BY <1>1, <1>2, <1>5, <1>7 DEF Tool!TenantColumn, Server!TenantColumnErrors, Server!Flag
  <2>. QED BY <2>1 DEF names
<1>. QED BY <1>6, <1>7

LEMMA SameSchema ==
  ASSUME NEW schema
  PROVE  Tool!Schema(schema) = Server!SchemaErrors(schema, Names(Items(schema), "name"))
<1>. DEFINE cols == Items(schema)
            names == Names(cols, "name")
            tool(i) == Tool!Flag(~Tool!SafeColumn(Tool!At(cols[i], "name")),
                                 "schema", i, "name", "unsafe_identifier")
                       \cup Tool!Flag(~Tool!IsOneOf(Tool!At(cols[i], "type"), Tool!ColumnTypes),
                                      "schema", i, "type", "unsupported_type")
            server(i) == Server!ColumnErrors(cols[i], i)
            twice == Server!Flag(Server!Duplicates(names), Top, 0, "schema", "duplicate_column")
<1>1. /\ Tool!Items(schema) = cols /\ Server!Items(schema) = cols
      /\ Tool!Top = Top /\ Server!Top = Top
      /\ Tool!ColumnTypes = ColumnTypes /\ Server!ColumnTypes = ColumnTypes
  BY ToolReading, ServerReading, Zenon DEF Tool!ColumnTypes, Server!ColumnTypes, ColumnTypes
<1>2. Tool!SchemaNames(schema) = names
  BY ToolReading, NamesRead DEF Tool!SchemaNames
<1>3. Tool!HasDuplicates(names) <=> Server!Duplicates(names)
  BY NamesAreScalars, SameDuplicates
<1>4. \A i : tool(i) = server(i)
  <2>. SUFFICES ASSUME NEW i PROVE tool(i) = server(i) OBVIOUS
  <2>1. /\ Tool!SafeColumn(Tool!At(cols[i], "name")) = Server!SafeColumn(Server!At(cols[i], "name"))
        /\ Tool!IsOneOf(Tool!At(cols[i], "type"), Tool!ColumnTypes)
             = Server!IsOneOf(Server!At(cols[i], "type"), Server!ColumnTypes)
    BY <1>1, ToolReading, ServerReading, Zenon
  <2>. HIDE DEF cols
  <2>. QED BY <2>1, SameFlag, Zenon DEF Server!ColumnErrors
<1>5. cols # <<>> => schema[2] = cols BY KindsApart
<1>6. CASE cols = <<>>
  <2>. HIDE DEF names
  <2>1. Tool!Schema(schema) = {<<Top, 0, "schema", "missing">>}
    BY <1>1, <1>6, Zenon DEF Tool!Schema
  <2>2. Server!SchemaErrors(schema, names) = {<<Top, 0, "schema", "missing">>}
    BY <1>1, <1>6, Zenon DEF Server!SchemaErrors
  <2>. QED BY <2>1, <2>2 DEF names
<1>7. CASE cols # <<>>
  <2>1. Tool!Schema(schema) =
          (UNION {tool(i) : i \in DOMAIN cols})
          \cup Tool!Flag(Tool!HasDuplicates(names), Top, 0, "schema", "duplicate_column")
    <3>. HIDE DEF cols, names
    <3>. QED BY <1>1, <1>2, <1>7, Zenon DEF Tool!Schema
  <2>2. Server!SchemaErrors(schema, names) =
          (UNION {server(i) : i \in DOMAIN cols}) \cup twice
    <3>. HIDE DEF cols, names
    <3>. QED BY <1>1, <1>5, <1>7, Zenon DEF Server!SchemaErrors
  <2>3. Tool!Flag(Tool!HasDuplicates(names), Top, 0, "schema", "duplicate_column") = twice
    <3>. HIDE DEF names
    <3>. QED BY <1>3, SameFlag DEF Tool!Flag, Server!Flag
  <2>4. UNION {tool(i) : i \in DOMAIN cols} = UNION {server(i) : i \in DOMAIN cols}
    <3>. HIDE DEF tool, server
    <3>. QED BY <1>4
  <2>. QED BY <2>1, <2>2, <2>3, <2>4, Zenon
<1>. QED BY <1>6, <1>7

\* What a document that is a mapping holds: the values of V.
Holds(doc, V) == \A key : At(doc, key) \in V

(* A dataset.                                                              *)
LEMMA SameDataset ==
  ASSUME NEW V, Closed(V), NEW raw, Holds(raw, V)
  PROVE  Tool!DatasetRules(raw) = Server!DatasetErrors(raw)
<1>. DEFINE schema == At(raw, "schema")
            names == Names(Items(schema), "name")
            source == At(raw, "source")
            known == Server!UnknownKeys(raw, Tool!DatasetKeys, Top, 0)
<1>1. /\ \A key : Tool!At(raw, key) = At(raw, key) /\ Server!At(raw, key) = At(raw, key)
      /\ Tool!Top = Top /\ Server!Top = Top
      /\ Tool!UnknownKeys(raw, Tool!DatasetKeys, Top, 0) = known
      /\ Server!Items(schema) = Items(schema)
      /\ Server!Names(Items(schema), "name") = names
  BY ToolReading, ServerReading, SameUnknown, NamesRead, Zenon
<1>2. Plain(At(source, "type")) /\ Plain(At(source, "interval_seconds"))
  <2>1. source \in V BY DEF Holds
  <2>. QED BY <2>1, Inside DEF Closed
<1>3. Tool!SnapshotOrigin(At(raw, "manifest"), source)
      = Server!SnapshotOriginErrors(At(raw, "manifest"), source)
  BY <1>2, SameOrigin
<1>4. Tool!TenantColumn(At(raw, "tenant_column"), schema)
      = Server!TenantColumnErrors(At(raw, "tenant_column"), names)
  BY SameTenantColumn
<1>5. Tool!Schema(schema) = Server!SchemaErrors(schema, names)
  BY SameSchema
<1>6. Tool!Identifier(At(raw, "id"), "id") = Server!IdentifierField(At(raw, "id"), "id")
  BY SameIdentifier
<1>7. Tool!DatasetRules(raw) =
        known \cup Tool!Identifier(At(raw, "id"), "id")
        \cup Tool!SnapshotOrigin(At(raw, "manifest"), source)
        \cup Tool!TenantColumn(At(raw, "tenant_column"), schema)
        \cup Tool!Schema(schema)
  BY <1>1, Zenon DEF Tool!DatasetRules
<1>8. Server!DatasetErrors(raw) =
        known \cup Server!IdentifierField(At(raw, "id"), "id")
        \cup Server!SnapshotOriginErrors(At(raw, "manifest"), source)
        \cup Server!TenantColumnErrors(At(raw, "tenant_column"), names)
        \cup Server!SchemaErrors(schema, names)
  BY <1>1, Zenon DEF Server!DatasetErrors, Tool!DatasetKeys
<1>. QED BY <1>3, <1>4, <1>5, <1>6, <1>7, <1>8, Zenon

-----------------------------------------------------------------------------
(* Documents                                                               *)

LEMMA SameDocuments ==
  /\ Tool!Missing = Missing /\ Tool!Unreadable = Unreadable /\ Tool!Empty = Empty
  /\ Server!Missing = Missing /\ Server!Unreadable = Unreadable /\ Server!Empty = Empty
  /\ \A d, sub : Tool!Files(d, sub) = Files(d, sub) /\ Server!Files(d, sub) = Files(d, sub)
  /\ \A d, path : Tool!FileAt(d, path) = FileAt(d, path) /\ Server!FileAt(d, path) = FileAt(d, path)
<1>1. /\ Tool!Missing = Missing /\ Tool!Unreadable = Unreadable /\ Tool!Empty = Empty
      /\ Server!Missing = Missing /\ Server!Unreadable = Unreadable /\ Server!Empty = Empty
  BY Zenon DEF Tool!Missing, Missing, Tool!Unreadable, Unreadable, Tool!Empty, Empty,
               Server!Missing, Server!Unreadable, Server!Empty
<1>2. \A d, sub : Tool!Files(d, sub) = Files(d, sub) /\ Server!Files(d, sub) = Files(d, sub)
  BY <1>1, Zenon DEF Tool!Files, Files, Server!Files
<1>3. \A d, path : Tool!FileAt(d, path) = FileAt(d, path) /\ Server!FileAt(d, path) = FileAt(d, path)
  BY <1>1, Zenon DEF Tool!FileAt, FileAt, Server!FileAt
<1>. QED BY <1>1, <1>2, <1>3

\* What one of V's values or the lack of one is.  A null document is Empty.
Documents(V) == (V \ {Nil}) \cup {Missing, Unreadable, Empty}

LEMMA SameReadFile ==
  ASSUME NEW doc, doc # Nil
  PROVE  /\ Tool!IsMapping(doc) <=> Server!ReadYaml(doc) = {}
         /\ ~Tool!IsMapping(doc) => Tool!ReadMapping(doc) = Server!ReadYaml(doc)
<1>1. /\ Tool!Missing = Missing /\ Tool!Unreadable = Unreadable /\ Tool!Empty = Empty
      /\ Server!Missing = Missing /\ Server!Unreadable = Unreadable /\ Server!Empty = Empty
      /\ Tool!IsMap(doc) = IsMap(doc) /\ Server!IsMap(doc) = IsMap(doc)
      /\ Tool!Nil = Nil /\ Tool!Top = Top /\ Server!Top = Top /\ Tool!Self = Self /\ Server!Self = Self
  BY SameDocuments, ToolReading, ServerReading, Zenon
<1>2. /\ doc \in {Missing, Unreadable} => doc # Empty /\ ~IsMap(doc)
      /\ doc = Empty => doc \notin {Missing, Unreadable}
  BY DEF Missing, Unreadable, Empty, IsMap
<1>. USE <1>1, <1>2
<1>3. CASE doc \in {Missing, Unreadable}
  BY <1>3 DEF Tool!IsMapping, Tool!ReadMapping, Server!ReadYaml
<1>4. CASE doc = Empty \/ IsMap(doc)
  BY <1>4 DEF Tool!IsMapping, Tool!ReadMapping, Server!ReadYaml
<1>5. CASE doc \notin {Missing, Unreadable} /\ ~(doc = Empty \/ IsMap(doc))
  BY <1>5 DEF Tool!IsMapping, Tool!ReadMapping, Server!ReadYaml, Tool!Flag
<1>. QED BY <1>3, <1>4, <1>5

LEMMA MappingHolds ==
  ASSUME NEW V, Closed(V), NEW doc \in Documents(V)
  PROVE  /\ doc # Nil
         /\ Holds(doc, V)
<1>1. doc # Nil BY DEF Documents, Missing, Unreadable, Empty, Nil
<1>2. CASE doc \in V
  <2>1. \A key : At(doc, key) \in V BY <1>2, Inside
  <2>. QED BY <1>1, <2>1 DEF Holds
<1>3. CASE doc \in {Missing, Unreadable, Empty}
  <2>1. ~IsMap(doc) BY <1>3 DEF Missing, Unreadable, Empty, IsMap
  <2>2. \A key : At(doc, key) = Nil BY <2>1 DEF At, Has
  <2>3. Nil \in V BY DEF Closed
  <2>. QED BY <1>1, <2>2, <2>3 DEF Holds
<1>. QED BY <1>1, <1>2, <1>3 DEF Documents

(* A dataset's file, which may be missing, unreadable, empty or no mapping.*)
LEMMA SameDatasetFile ==
  ASSUME NEW V, Closed(V), NEW doc \in Documents(V)
  PROVE  Tool!ValidateDataset(doc) = Server!ParseDataset(doc)
<1>1. doc # Nil /\ Holds(doc, V) BY MappingHolds
<1>2. Tool!DatasetRules(doc) = Server!DatasetErrors(doc) BY <1>1, SameDataset
<1>3. CASE Tool!IsMapping(doc)
  <2>1. Server!ReadYaml(doc) = {} BY <1>1, <1>3, SameReadFile
  <2>. QED BY <1>2, <1>3, <2>1, Zenon DEF Tool!ValidateDataset, Server!ParseDataset
<1>4. CASE ~Tool!IsMapping(doc)
  <2>1. Server!ReadYaml(doc) # {} /\ Tool!ReadMapping(doc) = Server!ReadYaml(doc)
    BY <1>1, <1>4, SameReadFile
  <2>. QED BY <1>4, <2>1, Zenon DEF Tool!ValidateDataset, Server!ParseDataset
<1>. QED BY <1>3, <1>4

-----------------------------------------------------------------------------
(* What a dataset without findings is to the endpoints                     *)

LEMMA FlagFreeTool ==
  \A cond, parent, i, field, code : Tool!Flag(cond, parent, i, field, code) = {} => ~cond
BY DEF Tool!Flag

\* The columns of a schema without findings.
LEMMA ColumnsChecked ==
  ASSUME NEW schema, Tool!Schema(schema) = {}
  PROVE  \A i \in DOMAIN Items(schema) :
           /\ SafeColumn(At(Items(schema)[i], "name"))
           /\ IsOneOf(At(Items(schema)[i], "type"), ColumnTypes)
<1>. DEFINE cols == Items(schema)
            name(i) == Tool!Flag(~Tool!SafeColumn(Tool!At(cols[i], "name")),
                                 "schema", i, "name", "unsafe_identifier")
            type(i) == Tool!Flag(~Tool!IsOneOf(Tool!At(cols[i], "type"), Tool!ColumnTypes),
                                 "schema", i, "type", "unsupported_type")
            twice == Tool!Flag(Tool!HasDuplicates(Tool!SchemaNames(schema)),
                               Top, 0, "schema", "duplicate_column")
<1>1. /\ Tool!Items(schema) = cols
      /\ Tool!Top = Top
      /\ Tool!ColumnTypes = ColumnTypes
  BY ToolReading, Zenon DEF Tool!ColumnTypes, ColumnTypes
<1>2. cols # <<>>
  BY <1>1 DEF Tool!Schema
<1>3. Tool!Schema(schema) = (UNION {name(i) \cup type(i) : i \in DOMAIN cols}) \cup twice
  <2>. HIDE DEF cols
  <2>. QED BY <1>1, <1>2, Zenon DEF Tool!Schema
<1>4. \A i \in DOMAIN cols : name(i) = {} /\ type(i) = {}
  <2>. HIDE DEF cols, name, type, twice
  <2>. QED BY <1>3
<1>5. \A i \in DOMAIN cols : /\ Tool!SafeColumn(Tool!At(cols[i], "name"))
                             /\ Tool!IsOneOf(Tool!At(cols[i], "type"), Tool!ColumnTypes)
  <2>. HIDE DEF cols
  <2>. QED BY <1>4, FlagFreeTool, Zenon
<1>. HIDE DEF cols
<1>6. \A i \in DOMAIN cols : SafeColumn(At(cols[i], "name")) /\ IsOneOf(At(cols[i], "type"), ColumnTypes)
  BY <1>1, <1>5, ToolReading
<1>. QED BY <1>6 DEF cols

LEMMA DatasetChecked ==
  ASSUME NEW raw, Tool!DatasetRules(raw) = {}
  PROVE  /\ SafeIdent(At(raw, "id"))
         /\ At(raw, "tenant_column") = Nil \/ SafeColumn(At(raw, "tenant_column"))
         /\ \A i \in DOMAIN Items(At(raw, "schema")) :
              /\ SafeColumn(At(Items(At(raw, "schema"))[i], "name"))
              /\ IsOneOf(At(Items(At(raw, "schema"))[i], "type"), ColumnTypes)
<1>. DEFINE col == At(raw, "tenant_column")
            schema == At(raw, "schema")
<1>1. /\ Tool!Identifier(Tool!At(raw, "id"), "id") = {}
      /\ Tool!TenantColumn(Tool!At(raw, "tenant_column"), Tool!At(raw, "schema")) = {}
      /\ Tool!Schema(Tool!At(raw, "schema")) = {}
  BY DEF Tool!DatasetRules
<1>2. /\ \A key : Tool!At(raw, key) = At(raw, key)
      /\ Tool!Nil = Nil
      /\ \A v : Tool!SafeColumn(v) = SafeColumn(v) /\ Tool!SafeIdent(v) = SafeIdent(v)
  BY ToolReading, Zenon
<1>3. SafeIdent(At(raw, "id"))
  <2>1. Tool!Identifier(At(raw, "id"), "id") = {} BY <1>1, <1>2
  <2>. DEFINE id == At(raw, "id")
  <2>2. Tool!Identifier(id, "id") = {} BY <2>1
  <2>. HIDE DEF id
  <2>3. SafeIdent(id) BY <1>2, <2>2 DEF Tool!Identifier, Tool!Flag
  <2>. QED BY <2>3 DEF id
<1>4. col = Nil \/ SafeColumn(col)
  <2>1. Tool!TenantColumn(col, schema) = {} BY <1>1, <1>2
  <2>. HIDE DEF col, schema
  <2>. QED BY <1>2, <2>1 DEF Tool!TenantColumn
<1>5. Tool!Schema(schema) = {} BY <1>1, <1>2
<1>. QED BY <1>3, <1>4, <1>5, ColumnsChecked

LEMMA SameDatasetBuilt ==
  ASSUME NEW V, Closed(V), NEW raw, Holds(raw, V), Tool!DatasetRules(raw) = {}
  PROVE  /\ Tool!BuildDataset(raw) = Server!Dataset(raw)
         /\ Typed(Tool!BuildDataset(raw))
<1>. DEFINE cols == Items(At(raw, "schema"))
            name(i) == At(cols[i], "name")
            type(i) == At(cols[i], "type")
            col == At(raw, "tenant_column")
<1>1. /\ \A v, key : Tool!At(v, key) = At(v, key) /\ Server!At(v, key) = At(v, key)
      /\ Tool!Items(At(raw, "schema")) = cols /\ Server!Items(At(raw, "schema")) = cols
      /\ Tool!Absent = Absent /\ Server!Absent = Absent /\ Server!Nil = Nil
      /\ \A s : Server!Str(s) = Str(s)
      /\ Tool!IsNonEmpty(col) = IsNonEmpty(col)
  BY ToolReading, ServerReading, Zenon
<1>2. \A i \in DOMAIN cols : IsStr(name(i)) /\ Plain(name(i)) /\ type(i)[2] \in ColumnTypes
  <2>. SUFFICES ASSUME NEW i \in DOMAIN cols
                PROVE  IsStr(name(i)) /\ Plain(name(i)) /\ type(i)[2] \in ColumnTypes
    OBVIOUS
  <2>1. SafeColumn(name(i)) /\ IsOneOf(type(i), ColumnTypes) BY DatasetChecked
  <2>2. At(raw, "schema") \in V BY DEF Holds
  <2>3. cols[i] \in V BY <2>2, Inside
  <2>4. Plain(name(i)) BY <2>3, Inside DEF Closed
  <2>. QED BY <2>1, <2>4, KindsApart DEF IsOneOf
<1>3. \A n : \A i \in DOMAIN cols : (name(i)[2] = n) <=> (name(i) = Str(n))
  BY <1>2, StrIs
<1>4. Tool!StringOr(col, Absent) = IF col = Nil THEN Absent ELSE col[2]
  <2>1. col = Nil \/ IsStr(col) BY DatasetChecked, KindsApart
  <2>. HIDE DEF col
  <2>2. col = Nil => ~IsNonEmpty(col) BY KindsApart
  <2>. QED BY <1>1, <2>1, <2>2 DEF Tool!StringOr, IsNonEmpty
<1>5. Tool!BuildDataset(raw) =
        [id |-> At(raw, "id")[2],
         tenant |-> Tool!StringOr(col, Absent),
         types |-> [n \in {name(i)[2] : i \in DOMAIN cols} |->
                      type(CHOOSE i \in DOMAIN cols : name(i)[2] = n)[2]]]
  BY <1>1 DEF Tool!BuildDataset
<1>6. Server!Dataset(raw) =
        [id |-> At(raw, "id")[2],
         tenant |-> IF col = Nil THEN Absent ELSE col[2],
         types |-> [n \in {name(i)[2] : i \in DOMAIN cols} |->
                      type(CHOOSE i \in DOMAIN cols : name(i) = Str(n))[2]]]
  <2>. DEFINE sname(i) == Server!At(cols[i], "name")
              stype(i) == Server!At(cols[i], "type")
              there(n) == CHOOSE i \in DOMAIN cols : sname(i) = Server!Str(n)
              placed(n) == CHOOSE i \in DOMAIN cols : name(i) = Str(n)
  <2>1. Server!Dataset(raw) =
          [id |-> At(raw, "id")[2],
           tenant |-> IF col = Nil THEN Absent ELSE col[2],
           types |-> [n \in {sname(i)[2] : i \in DOMAIN cols} |-> stype(there(n))[2]]]
    <3>. DEFINE c == cols
    <3>1. Server!Items(Server!At(raw, "schema")) = c BY <1>1
    <3>. HIDE DEF c
    <3>2. Server!Dataset(raw) =
          [id |-> Server!At(raw, "id")[2],
           tenant |-> IF Server!At(raw, "tenant_column") = Server!Nil THEN Server!Absent
                      ELSE Server!At(raw, "tenant_column")[2],
           types |-> [n \in {Server!At(c[i], "name")[2] : i \in DOMAIN c} |->
                       Server!At(c[CHOOSE i \in DOMAIN c : Server!At(c[i], "name") = Server!Str(n)], "type")[2]]]
      <4>. DEFINE b == Server!Items(Server!At(raw, "schema"))
      <4>1. Server!Dataset(raw) =
              [id |-> Server!At(raw, "id")[2],
               tenant |-> IF Server!At(raw, "tenant_column") = Server!Nil THEN Server!Absent
                          ELSE Server!At(raw, "tenant_column")[2],
               types |-> [n \in {Server!At(b[i], "name")[2] : i \in DOMAIN b} |->
                           Server!At(b[CHOOSE i \in DOMAIN b : Server!At(b[i], "name") = Server!Str(n)], "type")[2]]]
        BY DEF Server!Dataset
      <4>2. b = c BY <3>1
      <4>. HIDE DEF b
      <4>. QED BY <4>1, <4>2
    <3>. QED BY <1>1, <3>2, Zenon DEF c
  <2>2. \A i : sname(i) = name(i) /\ stype(i) = type(i) BY <1>1, Zenon
  <2>3. \A n : Server!Str(n) = Str(n) BY <1>1
  <2>. HIDE DEF sname, stype, name, type, cols, col
  <2>4. \A n : there(n) = placed(n) BY <2>2, <2>3
  <2>. HIDE DEF there, placed
  <2>5. [n \in {sname(i)[2] : i \in DOMAIN cols} |-> stype(there(n))[2]]
        = [n \in {name(i)[2] : i \in DOMAIN cols} |-> type(placed(n))[2]]
    BY <2>2, <2>4
  <2>. QED BY <2>1, <2>5, Zenon DEF placed
<1>7. \A n : (CHOOSE i \in DOMAIN cols : name(i)[2] = n) = (CHOOSE i \in DOMAIN cols : name(i) = Str(n))
  BY <1>3
<1>8. \A i \in DOMAIN cols : (CHOOSE j \in DOMAIN cols : name(j)[2] = name(i)[2]) \in DOMAIN cols
  OBVIOUS
<1>9. Tool!BuildDataset(raw) = Server!Dataset(raw)
  <2>. DEFINE place(n) == CHOOSE i \in DOMAIN cols : name(i)[2] = n
              placed(n) == CHOOSE i \in DOMAIN cols : name(i) = Str(n)
  <2>1. \A n : place(n) = placed(n) BY <1>7
  <2>2. Tool!BuildDataset(raw) =
          [id |-> At(raw, "id")[2], tenant |-> Tool!StringOr(col, Absent),
           types |-> [n \in {name(i)[2] : i \in DOMAIN cols} |-> type(place(n))[2]]]
    BY <1>5
  <2>3. Server!Dataset(raw) =
          [id |-> At(raw, "id")[2], tenant |-> IF col = Nil THEN Absent ELSE col[2],
           types |-> [n \in {name(i)[2] : i \in DOMAIN cols} |-> type(placed(n))[2]]]
    BY <1>6
  <2>. HIDE DEF place, placed, name, type, col, cols
  <2>. QED BY <1>4, <2>1, <2>2, <2>3
<1>10. Typed(Tool!BuildDataset(raw))
  <2>. DEFINE place(n) == CHOOSE i \in DOMAIN cols : name(i)[2] = n
  <2>1. Tool!BuildDataset(raw).types =
          [n \in {name(i)[2] : i \in DOMAIN cols} |-> type(place(n))[2]]
    BY <1>5
  <2>2. \A i \in DOMAIN cols : place(name(i)[2]) \in DOMAIN cols BY <1>8
  <2>. HIDE DEF place, name, type, cols
  <2>. QED BY <1>2, <2>1, <2>2 DEF Typed
<1>. QED BY <1>9, <1>10

-----------------------------------------------------------------------------
(* The files of a directory                                                *)

LEMMA SameIn == \A file, found : /\ Tool!In(file, found) = In(file, found)
                                 /\ Server!In(file, found) = In(file, found)
BY Zenon DEF Tool!In, Server!In, In

LEMMA SameClash ==
  ASSUME NEW files, NEW passed \in SUBSET Nat, NEW key, NEW what, NEW code
  PROVE  Server!DuplicateErrors(files, passed, key, what, code)
         = In(<<what, 0>>, Tool!Flag(Tool!Clash(files, passed, key), Top, 0, what, code))
<1>. DEFINE twice == \E i, j \in passed : i < j /\ At(files[i], key) = At(files[j], key)
<1>1. Tool!Clash(files, passed, key) <=> twice
  <2>1. Tool!Clash(files, passed, key)
          <=> (\E i, j \in passed : i # j /\ At(files[i], key) = At(files[j], key))
    BY ToolReading DEF Tool!Clash
  <2>2. ASSUME NEW i \in passed, NEW j \in passed, i # j, At(files[i], key) = At(files[j], key)
        PROVE  twice
    <3>1. i < j \/ j < i BY <2>2
    <3>. QED BY <2>2, <3>1
  <2>3. ASSUME NEW i \in passed, NEW j \in passed, i < j, At(files[i], key) = At(files[j], key)
        PROVE  i # j /\ At(files[i], key) = At(files[j], key)
    BY <2>3
  <2>. QED BY <2>1, <2>2, <2>3
<1>2. (\E i, j \in passed : i < j /\ Server!At(files[i], key) = Server!At(files[j], key)) <=> twice
  BY ServerReading
<1>3. Server!DuplicateErrors(files, passed, key, what, code)
      = In(<<what, 0>>, Server!Flag(twice, Top, 0, what, code))
  <2>1. /\ Server!Top = Top
        /\ \A v, k : Server!At(v, k) = At(v, k)
    BY ServerReading, Zenon
  <2>. DEFINE found == \E i, j \in passed : i < j /\ Server!At(files[i], key)
       = Server!At(files[j], key)
  <2>2. Server!DuplicateErrors(files, passed, key, what, code)
        = Server!In(<<what, 0>>, Server!Flag(found, Server!Top, 0, what, code))
    BY Zenon DEF Server!DuplicateErrors
  <2>3. found <=> twice BY <1>2
  <2>. HIDE DEF found, twice
  <2>4. Server!Flag(found, Top, 0, what, code) = Server!Flag(twice, Top, 0, what, code)
    BY <2>3 DEF Server!Flag
  <2>. QED BY <2>1, <2>2, <2>4, SameIn, Zenon
<1>4. Server!Flag(twice, Top, 0, what, code)
      = Tool!Flag(Tool!Clash(files, passed, key), Top, 0, what, code)
  <2>. HIDE DEF twice
  <2>. QED BY <1>1 DEF Tool!Flag, Server!Flag
<1>. QED BY <1>3, <1>4, Zenon

\* Among files of which no two share a name, the first of a name is the last.
Apart(files, passed, key) ==
  \A i, j \in passed : At(files[i], key)[2] = At(files[j], key)[2] => i = j

LEMMA ApartUnlessClash ==
  ASSUME NEW files, NEW passed, NEW key, ~Tool!Clash(files, passed, key),
         \A i \in passed : At(files[i], key) = Str(At(files[i], key)[2])
  PROVE  Apart(files, passed, key)
<1>1. \A i, j \in passed : i # j => At(files[i], key) # At(files[j], key)
  BY ToolReading DEF Tool!Clash
<1>. QED BY <1>1 DEF Apart

LEMMA OnlyFirst ==
  ASSUME NEW files, NEW passed \in SUBSET Nat, NEW key, Apart(files, passed, key), NEW i \in passed
  PROVE  Server!First(files, passed, key, At(files[i], key)[2]) = i
<1>. DEFINE name == At(files[i], key)[2]
            is(k) == /\ At(files[k], key)[2] = name
                     /\ \A j \in passed : j < k => At(files[j], key)[2] # name
<1>1. \A k \in passed : is(k) => k = i BY DEF Apart
<1>2. Server!First(files, passed, key, name) = CHOOSE k \in passed : is(k)
  BY ServerReading DEF Server!First
<1>3. \A j \in passed : At(files[j], key)[2] = name => j = i BY DEF Apart
<1>4. ~(i < i)
  OBVIOUS
<1>5. is(i) BY <1>3, <1>4
<1>. HIDE DEF is, name
<1>6. (CHOOSE k \in passed : is(k)) = i BY <1>1, <1>5
<1>. QED BY <1>2, <1>6 DEF name

\* The documents of a directory's files.
Readable(files, V) == DOMAIN files \subseteq Nat /\ \A i \in DOMAIN files : files[i] \in Documents(V)

\* The dataset files without findings.
Passed(files) == {i \in DOMAIN files : Tool!ValidateDataset(files[i]) = {}}

LEMMA PassedDataset ==
  ASSUME NEW V, Closed(V), NEW files, Readable(files, V), NEW i \in Passed(files)
  PROVE  /\ At(files[i], "id") = Str(At(files[i], "id")[2])
         /\ Tool!BuildDataset(files[i]) = Server!Dataset(files[i])
         /\ Typed(Tool!BuildDataset(files[i]))
<1>1. files[i] \in Documents(V) /\ Tool!ValidateDataset(files[i]) = {} BY DEF Passed, Readable
<1>2. files[i] # Nil /\ Holds(files[i], V) BY <1>1, MappingHolds
<1>3. Tool!DatasetRules(files[i]) = {}
  <2>1. CASE Tool!IsMapping(files[i])
    BY <1>1, <2>1, Zenon DEF Tool!ValidateDataset
  <2>2. CASE ~Tool!IsMapping(files[i])
    <3>1. Tool!ReadMapping(files[i]) = {} BY <1>1, <2>2, Zenon DEF Tool!ValidateDataset
    <3>2. Server!ReadYaml(files[i]) # {} /\ Tool!ReadMapping(files[i]) = Server!ReadYaml(files[i])
      BY <1>2, <2>2, SameReadFile
    <3>. QED BY <3>1, <3>2
  <2>. QED BY <2>1, <2>2
<1>4. SafeIdent(At(files[i], "id")) BY <1>3, DatasetChecked
<1>5. Plain(At(files[i], "id")) BY <1>2 DEF Holds, Closed
<1>6. At(files[i], "id") = Str(At(files[i], "id")[2]) BY <1>4, <1>5, StrIs, KindsApart
<1>. QED BY <1>2, <1>3, <1>6, SameDatasetBuilt

\* The datasets that the server knows by their ids.
DatasetsById(files) ==
  LET raw == Server!ByName(files, Passed(files), "id")
  IN  [id \in DOMAIN raw |-> Server!Dataset(raw[id])]

(* Both sides know the same datasets, unless two share an id.              *)
LEMMA SameDatasets ==
  ASSUME NEW V, Closed(V), NEW files, Readable(files, V), ~Tool!Clash(files, Passed(files), "id")
  PROVE  /\ Tool!LoadDatasets(files).byId = DatasetsById(files)
         /\ \A id \in DOMAIN DatasetsById(files) : Typed(DatasetsById(files)[id])
<1>. DEFINE passed == Passed(files)
            id(i) == At(files[i], "id")[2]
            last(name) == CHOOSE i \in passed : id(i) = name /\ \A j \in passed : id(j) = name => j <= i
            byId == Tool!LoadDatasets(files).byId
<1>1. /\ \A v, key : Tool!At(v, key) = At(v, key)
      /\ \A v, key : Server!At(v, key) = At(v, key)
  BY ToolReading, ServerReading, Zenon
<1>2. Apart(files, passed, "id") BY PassedDataset, ApartUnlessClash
<1>3. \A i \in passed : last(id(i)) = i
  <2>. SUFFICES ASSUME NEW i \in passed PROVE last(id(i)) = i OBVIOUS
  <2>. DEFINE is(k) == id(k) = id(i) /\ \A j \in passed : id(j) = id(i) => j <= k
  <2>1. \A k \in passed : is(k) => k = i BY <1>2 DEF Apart
  <2>2. i \in Nat BY DEF Passed, Readable
  <2>3. \A j \in passed : id(j) = id(i) => j = i BY <1>2 DEF Apart
  <2>4. is(i) BY <2>2, <2>3
  <2>. HIDE DEF is, passed
  <2>5. (CHOOSE k \in passed : is(k)) = i BY <2>1, <2>4
  <2>. QED BY <2>5 DEF is
<1>4. byId = [name \in {id(i) : i \in passed} |-> Tool!BuildDataset(files[last(name)])]
  <2>. DEFINE toolId(i) == Tool!At(files[i], "id")[2]
              toolLast(name) == CHOOSE i \in passed :
                                  toolId(i) = name /\ \A j \in passed : toolId(j) = name => j <= i
  <2>1. byId = [name \in {toolId(i) : i \in passed} |-> Tool!BuildDataset(files[toolLast(name)])]
    BY DEF Tool!LoadDatasets, Passed
  <2>2. \A i : toolId(i) = id(i) BY <1>1
  <2>. HIDE DEF toolId, id, passed, byId
  <2>3. \A name : toolLast(name) = last(name) BY <2>2
  <2>. HIDE DEF toolLast, last
  <2>. QED BY <2>1, <2>2, <2>3
<1>. DEFINE raw == Server!ByName(files, passed, "id")
<1>5. /\ DOMAIN raw = {id(i) : i \in passed}
      /\ \A i \in passed : raw[id(i)] = files[i]
  <2>1. raw = [name \in {id(i) : i \in passed} |-> files[Server!First(files, passed, "id", name)]]
    BY <1>1 DEF Server!ByName
  <2>2. \A i \in passed : Server!First(files, passed, "id", id(i)) = i
    <3>1. passed \in SUBSET Nat BY DEF Passed, Readable
    <3>. QED BY <1>2, <3>1, OnlyFirst
  <2>. HIDE DEF raw, id, passed
  <2>. QED BY <2>1, <2>2
<1>6. DatasetsById(files) = [name \in DOMAIN raw |-> Server!Dataset(raw[name])]
  BY DEF DatasetsById
<1>7. \A i \in passed : /\ Tool!BuildDataset(files[i]) = Server!Dataset(files[i])
                        /\ Typed(Tool!BuildDataset(files[i]))
  BY PassedDataset
<1>. HIDE DEF raw, id, passed, last, byId
<1>8. byId = DatasetsById(files)
  BY <1>3, <1>4, <1>5, <1>6, <1>7
<1>9. \A name \in DOMAIN DatasetsById(files) : Typed(DatasetsById(files)[name])
  BY <1>5, <1>6, <1>7
<1>. QED BY <1>8, <1>9 DEF byId

LEMMA SameDatasetFindings ==
  ASSUME NEW V, Closed(V), NEW files, Readable(files, V)
  PROVE  LET errors == [i \in DOMAIN files |-> Server!ParseDataset(files[i])]
             parsed == Server!Parsed(files, errors)
         IN  /\ parsed = Passed(files)
             /\ Tool!LoadDatasets(files).found
                = (UNION {Server!In(<<"datasets", i>>, errors[i]) : i \in DOMAIN files})
                  \cup Server!DuplicateErrors(files, parsed, "id", "datasets", "duplicate_dataset")
<1>. DEFINE errors == [i \in DOMAIN files |-> Server!ParseDataset(files[i])]
            parsed == Server!Parsed(files, errors)
            passed == Passed(files)
            each == UNION {Server!In(<<"datasets", i>>, errors[i]) : i \in DOMAIN files}
            twice == In(<<"datasets", 0>>,
                        Tool!Flag(Tool!Clash(files, passed, "id"), Top, 0, "datasets", "duplicate_dataset"))
<1>1. \A i \in DOMAIN files : errors[i] = Tool!ValidateDataset(files[i])
  BY SameDatasetFile DEF Readable
<1>2. parsed = passed BY <1>1 DEF Server!Parsed, Passed
<1>3. passed \subseteq Nat BY DEF Passed, Readable
<1>4. Server!DuplicateErrors(files, passed, "id", "datasets", "duplicate_dataset") = twice
  <2>. HIDE DEF passed
  <2>. QED BY <1>3, SameClash
<1>5. Tool!InEach("datasets", files, Tool!ValidateDataset) = each
  <2>1. Tool!InEach("datasets", files, Tool!ValidateDataset)
        = UNION {Tool!In(<<"datasets", i>>, Tool!ValidateDataset(files[i])) : i \in DOMAIN files}
    BY DEF Tool!InEach
  <2>2. \A i \in DOMAIN files : Tool!In(<<"datasets", i>>, Tool!ValidateDataset(files[i]))
                                = Server!In(<<"datasets", i>>, errors[i])
    BY <1>1, SameIn
  <2>. DEFINE tool(i) == Tool!In(<<"datasets", i>>, Tool!ValidateDataset(files[i]))
              server(i) == Server!In(<<"datasets", i>>, errors[i])
  <2>3. \A i \in DOMAIN files : tool(i) = server(i) BY <2>2
  <2>. HIDE DEF tool, server
  <2>4. UNION {tool(i) : i \in DOMAIN files} = UNION {server(i) : i \in DOMAIN files} BY <2>3
  <2>. QED BY <2>1, <2>4 DEF tool, server
<1>6. Tool!LoadDatasets(files).found
      = Tool!InEach("datasets", files, Tool!ValidateDataset)
        \cup Tool!In(<<"datasets", 0>>,
                     Tool!Flag(Tool!Clash(files, passed, "id"), Tool!Top, 0, "datasets", "duplicate_dataset"))
  BY DEF Tool!LoadDatasets, Passed
<1>7. Tool!LoadDatasets(files).found = each \cup twice
  <2>1. Tool!Top = Top BY ToolReading
  <2>. QED BY <1>5, <1>6, <2>1, SameIn, Zenon
<1>. QED BY <1>2, <1>4, <1>7, Zenon

-----------------------------------------------------------------------------
LEMMA FlagFree ==
  ASSUME NEW cond, NEW parent, NEW i, NEW field, NEW code,
         Server!Flag(cond, parent, i, field, code) = {}
  PROVE  ~cond
BY DEF Server!Flag

LEMMA EmptyDomain == DOMAIN <<>> = {}
<1>1. <<>> \in Seq({}) /\ Len(<<>>) = 0
  OBVIOUS
<1>2. DOMAIN <<>> = 1 .. 0
  BY <1>1
<1>. QED
  BY <1>2

-----------------------------------------------------------------------------
(* One endpoint, whose dataset has the tenant column ds.tenant.            *)

(* An endpoint without findings binds the tenant column of its dataset.    *)
LEMMA TenantBound ==
  ASSUME NEW t, NEW ds, Server!TenantErrors(t, ds) = {}
  PROVE  IF ds.tenant = Absent THEN t = Nil
         ELSE Has(t, "column") /\ At(t, "column") = Str(ds.tenant)
<1>1. CASE ds.tenant = Absent
  BY <1>1, FlagFree, ServerReading DEF Server!TenantErrors
<1>2. CASE ds.tenant # Absent /\ ~Has(t, "column")
  BY <1>2, ServerReading DEF Server!TenantErrors
<1>3. CASE ds.tenant # Absent /\ Has(t, "column")
  <2>1. /\ Server!Flag(~Server!SafeColumn(At(t, "column")), "tenant", 0, "column", "unsafe_identifier") = {}
        /\ Server!Flag(Server!SafeColumn(At(t, "column")) /\ At(t, "column") # Str(ds.tenant),
                       "tenant", 0, "column", "tenant_mismatch") = {}
    BY <1>3, ServerReading DEF Server!TenantErrors
  <2>. QED
    BY <1>3, <2>1, FlagFree
<1>. QED
  BY <1>1, <1>2, <1>3

LEMMA FilterElsewhere ==
  ASSUME NEW f, NEW i, NEW ds, NEW types, ds.tenant # Absent,
         Server!FilterErrors(f, i, ds, types) = {}
  PROVE  At(f, "column") # Str(ds.tenant)
<1>1. Server!Flag(ds.tenant # Absent /\ At(f, "column") = Str(ds.tenant),
                  "query.filters", i, "column", "tenant_filter_forbidden") = {}
  BY ServerReading DEF Server!FilterErrors
<1>. QED
  BY <1>1, FlagFree

LEMMA FiltersElsewhere ==
  ASSUME NEW q, NEW ds, NEW types, NEW selectAs, ds.tenant # Absent,
         Server!QueryErrors(q, ds, types, selectAs) = {}
  PROVE  \A f \in Elements(Items(At(q, "filters"))) : At(f, "column") # Str(ds.tenant)
<1>. DEFINE v == At(q, "filters")
            rules(f, i) == Server!FilterErrors(f, i, ds, types)
<1>1. Server!EachOf(v, "query", "filters", rules) = {}
  BY ServerReading DEF Server!QueryErrors
<1>2. CASE IsList(v)
  <2>a. v # Server!Nil /\ Server!IsList(v)
    <3>. HIDE DEF v
    <3>1. Server!Nil[1] = "nil"
      BY DEF Server!Nil
    <3>. QED
      BY <1>2, <3>1 DEF IsList, Server!IsList
  <2>1. UNION {rules(v[2][i], i) : i \in DOMAIN v[2]} = {}
    <3>. HIDE DEF v
    <3>. QED
      BY <1>1, <2>a DEF Server!EachOf
  <2>2. \A i \in DOMAIN v[2] : rules(v[2][i], i) = {}
    BY <2>1
  <2>3. \A i \in DOMAIN v[2] : At(v[2][i], "column") # Str(ds.tenant)
    BY <2>2, FilterElsewhere
  <2>. QED
    BY <1>2, <2>3 DEF Elements, Items
<1>3. CASE ~IsList(v)
  <2>1. Items(v) = <<>>
    BY <1>3 DEF Items
  <2>. HIDE DEF v
  <2>b. DOMAIN Items(v) = {}
    BY <2>1, EmptyDomain
  <2>2. Elements(Items(v)) = {}
    BY <2>b DEF Elements
  <2>. QED
    BY <2>2 DEF v
<1>. QED
  BY <1>2, <1>3

LEMMA EndpointPinned ==
  ASSUME NEW raw, NEW ds, Server!EndpointErrors(raw, ds) = {}
  PROVE  /\ Server!TenantErrors(At(raw, "tenant"), ds) = {}
         /\ ds.tenant # Absent =>
              \A f \in Elements(Items(At(At(raw, "query"), "filters"))) :
                 At(f, "column") # Str(ds.tenant)
<1>. DEFINE params == Server!Items(Server!At(raw, "params"))
            q == Server!At(raw, "query")
            selectAs == Server!Names(Server!Items(Server!At(q, "select")), "as")
<1>1. Server!TenantErrors(Server!At(raw, "tenant"), ds) = {}
  BY DEF Server!EndpointErrors
<1>2. Server!QueryErrors(q, ds, Server!ParamTypesOf(params), selectAs) = {}
  BY DEF Server!EndpointErrors
<1>. HIDE DEF params, selectAs
<1>. QED
  BY <1>1, <1>2, FiltersElsewhere, ServerReading

-----------------------------------------------------------------------------
(* The files that parsed, by name: the first of each name is one of them.  *)

LEMMA FilePlaces ==
  ASSUME NEW sub
  PROVE  DOMAIN Server!Files(dir, sub) \subseteq Nat
BY ListingAssumption DEF Server!Files

LEMMA FirstParsed ==
  ASSUME NEW files, NEW parsed \in SUBSET Nat, NEW key, NEW i \in parsed
  PROVE  LET name == At(files[i], key)[2]
         IN  Server!First(files, parsed, key, name) \in parsed
<1>. DEFINE name == At(files[i], key)[2]
            same == {j \in parsed : At(files[j], key)[2] = name}
<1>1. same \subseteq Nat /\ same # {}
  OBVIOUS
<1>2. PICK first \in same : \A j \in same : <<j, first>> \notin OpToRel(<, Nat)
  BY <1>1, WFMin, NatLessThanWellFounded
<1>3. \A j \in same : ~ (j < first)
  BY <1>1, <1>2 DEF OpToRel
<1>4. \E first_ \in parsed :
        /\ At(files[first_], key)[2] = name
        /\ \A j \in parsed : j < first_ => At(files[j], key)[2] # name
  BY <1>2, <1>3
<1>. QED
  BY <1>4, ServerReading DEF Server!First

-----------------------------------------------------------------------------
(* The directory as a whole.                                               *)

LEMMA NothingIn ==
  ASSUME NEW file, NEW found, Server!In(file, found) = {}
  PROVE  found = {}
BY DEF Server!In

\* What a catalog without errors knows of an endpoint: its file was accepted
\* for the dataset it names.
Accepted(ep, datasets) ==
  /\ At(ep, "dataset")[2] \in DOMAIN datasets
  /\ Server!EndpointErrors(ep, datasets[At(ep, "dataset")[2]]) = {}

LEMMA ParsedIsAccepted ==
  ASSUME NEW doc, NEW datasets, Server!ParseEndpoint(doc, datasets) = {}
  PROVE  Accepted(doc, datasets)
<1>1. Server!ReadYaml(doc) = {}
  BY DEF Server!ParseEndpoint
<1>2. Server!IsStr(Server!At(doc, "dataset"))
  BY <1>1 DEF Server!ParseEndpoint
<1>3. Server!At(doc, "dataset")[2] \in DOMAIN datasets
  BY <1>1, <1>2 DEF Server!ParseEndpoint
<1>. QED
  BY <1>1, <1>2, <1>3, ServerReading DEF Server!ParseEndpoint, Accepted

LEMMA ServedIsAccepted ==
  ASSUME NEW files, NEW parsed \in SUBSET Nat, NEW datasets,
         \A i \in parsed : Server!ParseEndpoint(files[i], datasets) = {},
         NEW name \in DOMAIN Server!ByName(files, parsed, "name")
  PROVE  Accepted(Server!ByName(files, parsed, "name")[name], datasets)
<1>1. PICK i \in parsed : name = At(files[i], "name")[2]
  BY ServerReading DEF Server!ByName
<1>2. Server!First(files, parsed, "name", name) \in parsed
  BY <1>1, FirstParsed
<1>3. Server!ByName(files, parsed, "name")[name] = files[Server!First(files, parsed, "name", name)]
  BY DEF Server!ByName
<1>. QED
  BY <1>2, <1>3, ParsedIsAccepted

LEMMA LoadedIsAccepted ==
  ASSUME Server!Load(dir).errors = {}
  PROVE  LET catalog == Server!Load(dir)
         IN  /\ \A name \in DOMAIN catalog.endpoints :
                  Accepted(catalog.endpoints[name], catalog.datasets)
             /\ catalog.auth # "required" => ~Server!PublicTenant(catalog.endpoints)
<1>. DEFINE project == Server!FileAt(dir, "offloader.yml")
            sub(key, default) == IF Server!At(project, key) = Server!Nil THEN default ELSE Server!At(project, key)[2]
            dsFiles == Server!Files(dir, sub("datasets_dir", "datasets"))
            dsErrors == [i \in DOMAIN dsFiles |-> Server!ParseDataset(dsFiles[i])]
            raw == Server!ByName(dsFiles, Server!Parsed(dsFiles, dsErrors), "id")
            datasets == [id \in DOMAIN raw |-> Server!Dataset(raw[id])]
            epFiles == Server!Files(dir, sub("endpoints_dir", "endpoints"))
            epErrors == [i \in DOMAIN epFiles |-> Server!ParseEndpoint(epFiles[i], datasets)]
            endpoints == Server!ByName(epFiles, Server!Parsed(epFiles, epErrors), "name")
            auth == Server!At(project, "auth")
<1>1. CASE Server!ProjectErrors(project) # {}
  <2>1. Server!Load(dir).endpoints = <<>> /\ Server!Load(dir).auth = "required"
    BY <1>1 DEF Server!Load
  <2>. QED
    BY <2>1, EmptyDomain
<1>2. CASE Server!ProjectErrors(project) = {}
  <2>1. /\ Server!Load(dir).endpoints = endpoints
        /\ Server!Load(dir).datasets = datasets
        /\ Server!Load(dir).auth = IF auth = Server!Str("none") THEN "none" ELSE "required"
        /\ Server!In(<<"offloader.yml", 0>>, Server!AuthErrors(auth, endpoints)) = {}
    BY <1>2 DEF Server!Load
  <2>2. Server!AuthErrors(auth, endpoints) = {}
    BY <2>1, NothingIn
  <2>3. auth = Server!Str("none") => ~Server!PublicTenant(endpoints)
    BY <2>2, FlagFree DEF Server!AuthErrors
  <2>4. \A name \in DOMAIN endpoints : Accepted(endpoints[name], datasets)
    <3>1. /\ Server!Parsed(epFiles, epErrors) \in SUBSET Nat
          /\ \A i \in Server!Parsed(epFiles, epErrors) : Server!ParseEndpoint(epFiles[i], datasets) = {}
      <4>1. DOMAIN epFiles \subseteq Nat
        BY FilePlaces
      <4>. HIDE DEF epFiles, datasets
      <4>. QED
        BY <4>1 DEF Server!Parsed
    <3>. HIDE DEF epFiles, datasets, epErrors
    <3>. QED
      BY <3>1, ServedIsAccepted
  <2>. QED
    BY <2>1, <2>3, <2>4
<1>. QED
  BY <1>1, <1>2

(* In every state, whatever the directory holds, a catalog that loads      *)
(* without errors keeps tenants apart: each endpoint over a dataset with a *)
(* tenant column binds it, no filter is on it and nobody is anonymous.     *)
THEOREM TenantsApart == Spec => []TenantIsolation
<1>1. TenantIsolation
  <2>. DEFINE catalog == Server!Load(dir)
  <2>. SUFFICES ASSUME catalog.errors = {}, NEW name \in DOMAIN catalog.endpoints
                PROVE  LET ep == catalog.endpoints[name]
                           column == catalog.datasets[At(ep, "dataset")[2]].tenant
                       IN  IF column = Absent
                           THEN At(ep, "tenant") = Nil
                           ELSE /\ At(At(ep, "tenant"), "column") = Str(column)
                                /\ catalog.auth = "required"
                                /\ \A f \in Elements(Items(At(At(ep, "query"), "filters"))) :
                                     At(f, "column") # Str(column)
    BY DEF TenantIsolation, Accepts, Isolated
  <2>. DEFINE ep == catalog.endpoints[name]
              ds == catalog.datasets[At(ep, "dataset")[2]]
  <2>1. Accepted(ep, catalog.datasets)
    BY LoadedIsAccepted
  <2>2. /\ Server!TenantErrors(At(ep, "tenant"), ds) = {}
        /\ ds.tenant # Absent =>
             \A f \in Elements(Items(At(At(ep, "query"), "filters"))) :
                At(f, "column") # Str(ds.tenant)
    BY <2>1, EndpointPinned DEF Accepted
  <2>3. IF ds.tenant = Absent THEN At(ep, "tenant") = Nil
        ELSE Has(At(ep, "tenant"), "column") /\ At(At(ep, "tenant"), "column") = Str(ds.tenant)
    BY <2>2, TenantBound
  <2>4. ds.tenant # Absent => catalog.auth = "required"
    BY <2>3, LoadedIsAccepted, ServerReading DEF Server!PublicTenant
  <2>. QED
    BY <2>2, <2>3, <2>4
<1>. QED
  BY <1>1, PTL

-----------------------------------------------------------------------------
(* Endpoint files                                                          *)

(* An endpoint's file, whose dataset may be unknown.                       *)
LEMMA SameEndpointFile ==
  ASSUME NEW V, Closed(V), NEW doc \in Documents(V), FlatEndpoint(doc),
         NEW datasets, \A id \in DOMAIN datasets : Typed(datasets[id])
  PROVE  Tool!EndpointFile(doc, datasets) = Server!ParseEndpoint(doc, datasets)
<1>. DEFINE id == At(doc, "dataset")
            ds == datasets[id[2]]
<1>1. /\ Tool!At(doc, "dataset") = id /\ Server!At(doc, "dataset") = id
      /\ Tool!IsStr(id) = IsStr(id) /\ Server!IsStr(id) = IsStr(id)
      /\ Tool!Top = Top /\ Server!Top = Top
  BY ToolReading, ServerReading, Zenon
<1>2. doc # Nil BY MappingHolds
<1>3. CASE ~Tool!IsMapping(doc)
  <2>1. Server!ReadYaml(doc) # {} /\ Tool!ReadMapping(doc) = Server!ReadYaml(doc)
    BY <1>2, <1>3, SameReadFile
  <2>. HIDE DEF id
  <2>2. Tool!EndpointFile(doc, datasets) = Tool!ReadMapping(doc)
    <3>1. IsStr(id) => Tool!IsMapping(doc)
      <4>1. IsStr(id) => IsMap(doc) BY DEF id, At, Has, Nil, IsStr
      <4>. QED BY <4>1, ToolReading, Zenon DEF Tool!IsMapping
    <3>. QED BY <1>1, <1>3, <3>1, Zenon DEF Tool!EndpointFile
  <2>3. Server!ParseEndpoint(doc, datasets) = Server!ReadYaml(doc)
    <3>1. IsStr(id) => Server!ReadYaml(doc) = {}
      <4>1. IsStr(id) => IsMap(doc) BY DEF id, At, Has, Nil, IsStr
      <4>2. IsMap(doc) => Tool!IsMapping(doc) BY ToolReading, Zenon DEF Tool!IsMapping
      <4>. QED BY <1>3, <4>1, <4>2
    <3>. QED BY <1>1, <2>1, <3>1, Zenon DEF Server!ParseEndpoint
  <2>. QED BY <2>1, <2>2, <2>3
<1>4. CASE Tool!IsMapping(doc) /\ ~IsStr(id)
  <2>1. Server!ReadYaml(doc) = {} BY <1>2, <1>4, SameReadFile
  <2>. HIDE DEF id
  <2>. QED BY <1>1, <1>4, <2>1, Zenon DEF Tool!EndpointFile, Server!ParseEndpoint
<1>5. CASE Tool!IsMapping(doc) /\ IsStr(id) /\ id[2] \notin DOMAIN datasets
  <2>1. Server!ReadYaml(doc) = {} BY <1>2, <1>5, SameReadFile
  <2>. HIDE DEF id
  <2>. QED BY <1>1, <1>5, <2>1, Zenon DEF Tool!EndpointFile, Server!ParseEndpoint
<1>6. CASE Tool!IsMapping(doc) /\ IsStr(id) /\ id[2] \in DOMAIN datasets
  <2>1. Server!ReadYaml(doc) = {} BY <1>2, <1>6, SameReadFile
  <2>2. Tool!ValidateEndpoint(doc, ds) = Server!EndpointErrors(doc, ds)
    <3>1. IsMap(doc) BY <1>6 DEF At, Has, Nil, IsStr
    <3>2. doc \in V
      <4>1. doc \notin {Missing, Unreadable, Empty} BY <3>1 DEF Missing, Unreadable, Empty, IsMap
      <4>. QED BY <4>1 DEF Documents
    <3>3. Typed(ds) BY <1>6
    <3>. HIDE DEF ds
    <3>. QED BY <3>2, <3>3, SameEndpoint
  <2>3. Tool!EndpointFile(doc, datasets) = Tool!ValidateEndpoint(doc, ds)
    <3>. HIDE DEF id
    <3>. QED BY <1>1, <1>6, Zenon DEF Tool!EndpointFile
  <2>4. Server!ParseEndpoint(doc, datasets) = Server!EndpointErrors(doc, ds)
    <3>. HIDE DEF id
    <3>. QED BY <1>1, <1>6, <2>1, Zenon DEF Server!ParseEndpoint
  <2>. QED BY <2>2, <2>3, <2>4
<1>. QED BY <1>3, <1>4, <1>5, <1>6

\* All endpoints, all datasets.
AllFlat(files) == \A i \in DOMAIN files : FlatEndpoint(files[i])
AllTyped(datasets) == \A id \in DOMAIN datasets : Typed(datasets[id])

\* The endpoint files without findings.
PassedEndpoints(files, datasets) == {i \in DOMAIN files : Tool!EndpointFile(files[i], datasets) = {}}

LEMMA PassedEndpoint ==
  ASSUME NEW V, Closed(V), NEW files, Readable(files, V), AllFlat(files),
         NEW datasets, AllTyped(datasets), NEW i \in PassedEndpoints(files, datasets)
  PROVE  /\ At(files[i], "name") = Str(At(files[i], "name")[2])
         /\ Has(At(files[i], "tenant"), "column")
              <=> datasets[At(files[i], "dataset")[2]].tenant # Absent
<1>. DEFINE doc == files[i]
            ds == datasets[At(doc, "dataset")[2]]
            name == At(doc, "name")
<1>1. doc \in Documents(V) /\ FlatEndpoint(doc) BY DEF Readable, AllFlat, PassedEndpoints
<1>2. Tool!EndpointFile(doc, datasets) = {} BY DEF PassedEndpoints
<1>3. Server!ParseEndpoint(doc, datasets) = {}
  <2>. HIDE DEF doc
  <2>. QED BY <1>1, <1>2, SameEndpointFile DEF AllTyped
<1>4. Server!EndpointErrors(doc, ds) = {}
  <2>. HIDE DEF doc
  <2>1. Accepted(doc, datasets) BY <1>3, ParsedIsAccepted
  <2>. QED BY <2>1 DEF Accepted
<1>5. Server!TenantErrors(At(doc, "tenant"), ds) = {} BY <1>4, EndpointPinned
<1>6. IF ds.tenant = Absent THEN At(doc, "tenant") = Nil
      ELSE Has(At(doc, "tenant"), "column") /\ At(At(doc, "tenant"), "column") = Str(ds.tenant)
  BY <1>5, TenantBound
<1>7. ~Has(Nil, "column") BY DEF Has, IsMap, Nil
<1>8. SafeIdent(name)
  <2>1. Server!IdentifierField(Server!At(doc, "name"), "name") = {}
    BY <1>4 DEF Server!EndpointErrors
  <2>2. Server!At(doc, "name") = name BY ServerReading
  <2>. HIDE DEF name
  <2>3. Server!IdentifierField(name, "name") = {} BY <2>1, <2>2
  <2>4. Server!SafeIdent(name) BY <2>3 DEF Server!IdentifierField
  <2>. QED BY <2>4, ServerReading
<1>9. name = Str(name[2])
  <2>1. Holds(doc, V) BY <1>1, MappingHolds
  <2>2. Plain(name) BY <2>1 DEF Holds, Closed
  <2>. QED BY <1>8, <2>2, StrIs, KindsApart
<1>. QED BY <1>6, <1>7, <1>9

LEMMA SameEndpointFindings ==
  ASSUME NEW V, Closed(V), NEW files, Readable(files, V), AllFlat(files),
         NEW datasets, AllTyped(datasets)
  PROVE  LET errors == [i \in DOMAIN files |-> Server!ParseEndpoint(files[i], datasets)]
             parsed == Server!Parsed(files, errors)
         IN  /\ parsed = PassedEndpoints(files, datasets)
             /\ Tool!LoadEndpoints(files, datasets).found
                = (UNION {Server!In(<<"endpoints", i>>, errors[i]) : i \in DOMAIN files})
                  \cup Server!DuplicateErrors(files, parsed, "name", "endpoints", "duplicate_endpoint")
<1>. DEFINE errors == [i \in DOMAIN files |-> Server!ParseEndpoint(files[i], datasets)]
            parsed == Server!Parsed(files, errors)
            passed == PassedEndpoints(files, datasets)
            rules(doc) == Tool!EndpointFile(doc, datasets)
            each == UNION {Server!In(<<"endpoints", i>>, errors[i]) : i \in DOMAIN files}
            twice == In(<<"endpoints", 0>>,
                        Tool!Flag(Tool!Clash(files, passed, "name"), Top, 0, "endpoints", "duplicate_endpoint"))
<1>1. \A i \in DOMAIN files : errors[i] = rules(files[i])
  BY SameEndpointFile DEF Readable, AllFlat, AllTyped
<1>2. parsed = passed BY <1>1 DEF Server!Parsed, PassedEndpoints
<1>3. passed \subseteq Nat BY DEF PassedEndpoints, Readable
<1>4. Server!DuplicateErrors(files, passed, "name", "endpoints", "duplicate_endpoint") = twice
  <2>. HIDE DEF passed
  <2>. QED BY <1>3, SameClash
<1>5. Tool!InEach("endpoints", files, rules) = each
  <2>. DEFINE tool(i) == Tool!In(<<"endpoints", i>>, rules(files[i]))
              server(i) == Server!In(<<"endpoints", i>>, errors[i])
  <2>1. Tool!InEach("endpoints", files, rules) = UNION {tool(i) : i \in DOMAIN files}
    BY DEF Tool!InEach
  <2>2. \A i \in DOMAIN files : tool(i) = server(i) BY <1>1, SameIn
  <2>. HIDE DEF tool, server
  <2>3. UNION {tool(i) : i \in DOMAIN files} = UNION {server(i) : i \in DOMAIN files} BY <2>2
  <2>. QED BY <2>1, <2>3 DEF server
<1>6. Tool!LoadEndpoints(files, datasets).found
      = Tool!InEach("endpoints", files, rules)
        \cup Tool!In(<<"endpoints", 0>>,
                     Tool!Flag(Tool!Clash(files, passed, "name"), Tool!Top, 0, "endpoints", "duplicate_endpoint"))
  BY DEF Tool!LoadEndpoints, PassedEndpoints
<1>7. Tool!LoadEndpoints(files, datasets).found = each \cup twice
  <2>1. Tool!Top = Top BY ToolReading
  <2>. QED BY <1>5, <1>6, <2>1, SameIn, Zenon
<1>. QED BY <1>2, <1>4, <1>7, Zenon

-----------------------------------------------------------------------------
(* Keys                                                                    *)

LEMMA SameKey ==
  ASSUME NEW k, NEW i, NEW known, \A v \in known : IsStr(v), Plain(At(k, "status"))
  PROVE  Tool!Key(k, i, known) = Server!KeyErrors(k, i, known)
<1>. DEFINE granted == Items(At(k, "endpoints"))
            status == At(k, "status")
            unknown == Server!UnknownKeys(k, Tool!KeyFields, "keys", i)
            id == Server!Flag(~SafeIdent(At(k, "id")), "keys", i, "id", "unsafe_identifier")
            hash == Server!Flag(~IsOneOf(At(k, "hash"), Hashes), "keys", i, "hash", "invalid_value")
            tenant == Server!Flag(~IsNonEmpty(At(k, "tenant")), "keys", i, "tenant", "missing")
            state == Server!Flag(status \notin {Str("active"), Str("revoked")},
                                 "keys", i, "status", "invalid_value")
            none == Server!Flag(granted = <<>>, "keys", i, "endpoints", "missing")
            stray == Server!Flag(\E j \in DOMAIN granted : granted[j] \notin known,
                                 "keys", i, "endpoints", "unknown_endpoint")
<1>1. /\ \A key : Tool!At(k, key) = At(k, key) /\ Server!At(k, key) = At(k, key)
      /\ Tool!Items(At(k, "endpoints")) = granted /\ Server!Items(At(k, "endpoints")) = granted
      /\ Tool!IsMap(k) = IsMap(k) /\ Server!IsMap(k) = IsMap(k)
      /\ Tool!Self = Self /\ Server!Self = Self
      /\ Tool!UnknownKeys(k, Tool!KeyFields, "keys", i) = unknown
      /\ \A v : Tool!SafeIdent(v) = SafeIdent(v) /\ Server!SafeIdent(v) = SafeIdent(v)
      /\ \A v : Tool!IsNonEmpty(v) = IsNonEmpty(v) /\ Server!IsNonEmpty(v) = IsNonEmpty(v)
      /\ \A v, s : Tool!IsOneOf(v, s) = IsOneOf(v, s) /\ Server!IsOneOf(v, s) = IsOneOf(v, s)
      /\ Server!Str("active") = Str("active") /\ Server!Str("revoked") = Str("revoked")
      /\ \A v : Tool!IsStr(v) = IsStr(v)
  BY ToolReading, ServerReading, SameUnknown, Zenon
<1>2. CASE ~IsMap(k)
  BY <1>1, <1>2, Zenon DEF Tool!Key, Server!KeyErrors
<1>3. CASE IsMap(k)
  <2>1. Tool!Flag(~IsOneOf(status, Tool!KeyStatuses), "keys", i, "status", "invalid_value") = state
    <3>1. IsOneOf(status, Tool!KeyStatuses) <=> status \in {Str("active"), Str("revoked")}
      BY OneOfTwo DEF Tool!KeyStatuses
    <3>. HIDE DEF status
    <3>. QED BY <3>1 DEF Tool!Flag, Server!Flag
  <2>2. Tool!Flag(\E j \in DOMAIN granted : ~(Tool!IsStr(granted[j]) /\ granted[j] \in known),
                  "keys", i, "endpoints", "unknown_endpoint") = stray
    <3>1. (\E j \in DOMAIN granted : ~(Tool!IsStr(granted[j]) /\ granted[j] \in known))
          <=> (\E j \in DOMAIN granted : granted[j] \notin known)
      <4>. HIDE DEF granted
      <4>. QED BY <1>1
    <3>. DEFINE tool == \E j \in DOMAIN granted : ~(Tool!IsStr(granted[j]) /\ granted[j] \in known)
                server == \E j \in DOMAIN granted : granted[j] \notin known
    <3>2. tool <=> server BY <3>1
    <3>. HIDE DEF tool, server
    <3>3. Tool!Flag(tool, "keys", i, "endpoints", "unknown_endpoint")
          = Server!Flag(server, "keys", i, "endpoints", "unknown_endpoint")
      BY <3>2 DEF Tool!Flag, Server!Flag
    <3>. QED BY <3>3 DEF tool, server
  <2>3. Tool!Key(k, i, known)
        = unknown \cup id \cup hash \cup tenant \cup state \cup none \cup stray
    <3>. HIDE DEF granted, status
    <3>1. Tool!Key(k, i, known) =
            Tool!UnknownKeys(k, Tool!KeyFields, "keys", i)
            \cup Tool!Flag(~Tool!SafeIdent(Tool!At(k, "id")), "keys", i, "id", "unsafe_identifier")
            \cup Tool!Flag(~Tool!IsOneOf(Tool!At(k, "hash"), Hashes), "keys", i, "hash", "invalid_value")
            \cup Tool!Flag(~Tool!IsNonEmpty(Tool!At(k, "tenant")), "keys", i, "tenant", "missing")
            \cup Tool!Flag(~Tool!IsOneOf(Tool!At(k, "status"), Tool!KeyStatuses),
                           "keys", i, "status", "invalid_value")
            \cup Tool!Flag(Tool!Items(Tool!At(k, "endpoints")) = <<>>, "keys", i, "endpoints", "missing")
            \cup Tool!Flag(\E j \in DOMAIN Tool!Items(Tool!At(k, "endpoints")) :
                             ~(/\ Tool!IsStr(Tool!Items(Tool!At(k, "endpoints"))[j])
                               /\ Tool!Items(Tool!At(k, "endpoints"))[j] \in known),
                           "keys", i, "endpoints", "unknown_endpoint")
      BY <1>1, <1>3, Zenon DEF Tool!Key
    <3>2. Tool!Items(Tool!At(k, "endpoints")) = granted BY <1>1
    <3>3. Tool!Flag(\E j \in DOMAIN Tool!Items(Tool!At(k, "endpoints")) :
                      ~(/\ Tool!IsStr(Tool!Items(Tool!At(k, "endpoints"))[j])
                        /\ Tool!Items(Tool!At(k, "endpoints"))[j] \in known),
                    "keys", i, "endpoints", "unknown_endpoint") = stray
      BY <2>2, <3>2, Zenon
    <3>4. /\ Tool!Flag(~Tool!SafeIdent(Tool!At(k, "id")), "keys", i, "id", "unsafe_identifier") = id
          /\ Tool!Flag(~Tool!IsOneOf(Tool!At(k, "hash"), Hashes), "keys", i, "hash", "invalid_value") = hash
          /\ Tool!Flag(~Tool!IsNonEmpty(Tool!At(k, "tenant")), "keys", i, "tenant", "missing") = tenant
      BY <1>1, SameFlag, Zenon
    <3>5. Tool!Flag(~Tool!IsOneOf(Tool!At(k, "status"), Tool!KeyStatuses), "keys", i, "status", "invalid_value")
          = state
      BY <1>1, <2>1, Zenon DEF status
    <3>6. Tool!Flag(Tool!Items(Tool!At(k, "endpoints")) = <<>>, "keys", i, "endpoints", "missing") = none
      BY <3>2, SameFlag, Zenon
    <3>7. Tool!UnknownKeys(k, Tool!KeyFields, "keys", i) = unknown BY <1>1
    <3>. HIDE DEF unknown, id, hash, tenant, state, none, stray
    <3>. QED BY <3>1, <3>3, <3>4, <3>5, <3>6, <3>7, Zenon
  <2>4. Server!KeyErrors(k, i, known)
        = unknown \cup id \cup hash \cup tenant \cup state \cup none \cup stray
    <3>. HIDE DEF granted
    <3>1. Server!Items(Server!At(k, "endpoints")) = granted BY <1>1
    <3>2. Server!KeyErrors(k, i, known) =
            unknown
            \cup Server!Flag(~Server!SafeIdent(Server!At(k, "id")), "keys", i, "id", "unsafe_identifier")
            \cup Server!Flag(~Server!IsOneOf(Server!At(k, "hash"), Hashes), "keys", i, "hash", "invalid_value")
            \cup Server!Flag(~Server!IsNonEmpty(Server!At(k, "tenant")), "keys", i, "tenant", "missing")
            \cup Server!Flag(Server!At(k, "status") \notin {Server!Str("active"), Server!Str("revoked")},
                           "keys", i, "status", "invalid_value")
            \cup none \cup stray
      BY <1>1, <1>3, <3>1, Zenon DEF Server!KeyErrors, Tool!KeyFields
    <3>3. /\ Server!Flag(~Server!SafeIdent(Server!At(k, "id")), "keys", i, "id", "unsafe_identifier") = id
          /\ Server!Flag(~Server!IsOneOf(Server!At(k, "hash"), Hashes), "keys", i, "hash", "invalid_value") = hash
          /\ Server!Flag(~Server!IsNonEmpty(Server!At(k, "tenant")), "keys", i, "tenant", "missing") = tenant
          /\ Server!Flag(Server!At(k, "status") \notin {Server!Str("active"), Server!Str("revoked")},
                         "keys", i, "status", "invalid_value") = state
      BY <1>1, Zenon
    <3>. HIDE DEF unknown, id, hash, tenant, state, none, stray
    <3>. QED BY <3>2, <3>3, Zenon
  <2>. QED BY <2>3, <2>4
<1>. QED BY <1>2, <1>3

(* The file of keys, given the endpoints that are known.                   *)
LEMMA SameKeys ==
  ASSUME NEW V, Closed(V), NEW doc \in Documents(V), NEW known, \A v \in known : IsStr(v)
  PROVE  Tool!LoadKeys(doc, known) = Server!LoadKeys(doc, known)
<1>. DEFINE keys == Items(At(doc, "keys"))
            errors == [i \in DOMAIN keys |-> Server!KeyErrors(keys[i], i, known)]
            passed == {i \in DOMAIN keys : Tool!Key(keys[i], i, known) = {}}
            each == UNION {errors[i] : i \in DOMAIN keys}
            twice == In(<<"keys", 0>>, Tool!Flag(Tool!Clash(keys, passed, "id"), Top, 0, "keys", "duplicate_key"))
<1>1. /\ Tool!At(doc, "keys") = At(doc, "keys") /\ Server!At(doc, "keys") = At(doc, "keys")
      /\ Tool!Items(At(doc, "keys")) = keys /\ Server!Items(At(doc, "keys")) = keys
      /\ Tool!IsList(At(doc, "keys")) = IsList(At(doc, "keys"))
      /\ Server!IsList(At(doc, "keys")) = IsList(At(doc, "keys"))
      /\ Tool!Top = Top /\ Server!Top = Top
  BY ToolReading, ServerReading, Zenon
<1>2. doc # Nil /\ Holds(doc, V) BY MappingHolds
<1>3. keys \in Seq(V) /\ \A i \in DOMAIN keys : keys[i] \in V
  <2>1. At(doc, "keys") \in V BY <1>2 DEF Holds
  <2>. QED BY <2>1, Inside
<1>4. \A i \in DOMAIN keys : errors[i] = Tool!Key(keys[i], i, known)
  <2>. SUFFICES ASSUME NEW i \in DOMAIN keys
                PROVE  Server!KeyErrors(keys[i], i, known) = Tool!Key(keys[i], i, known)
    BY DEF errors
  <2>1. Plain(At(keys[i], "status")) BY <1>3, Inside DEF Closed
  <2>. HIDE DEF keys
  <2>. QED BY <2>1, SameKey
<1>5. Server!Parsed(keys, errors) = passed BY <1>4 DEF Server!Parsed
<1>6. passed \subseteq Nat BY <1>3
<1>7. Server!DuplicateErrors(keys, passed, "id", "keys", "duplicate_key") = twice
  <2>. HIDE DEF passed, keys
  <2>. QED BY <1>6, SameClash
<1>8. UNION {Tool!Key(keys[i], i, known) : i \in DOMAIN keys} = each
  <2>. DEFINE tool(i) == Tool!Key(keys[i], i, known)
              server(i) == errors[i]
  <2>1. \A i \in DOMAIN keys : tool(i) = server(i) BY <1>4
  <2>. HIDE DEF tool, server, keys
  <2>2. UNION {tool(i) : i \in DOMAIN keys} = UNION {server(i) : i \in DOMAIN keys} BY <2>1
  <2>. QED BY <2>2 DEF tool, server
<1>9. CASE ~Tool!IsMapping(doc)
  <2>1. Server!ReadYaml(doc) # {} /\ Tool!ReadMapping(doc) = Server!ReadYaml(doc)
    BY <1>2, <1>9, SameReadFile
  <2>2. Tool!LoadKeys(doc, known) = Tool!In(<<"keys", 1>>, Tool!ReadMapping(doc))
    BY <1>9, Zenon DEF Tool!LoadKeys
  <2>3. Server!LoadKeys(doc, known) = Server!In(<<"keys", 1>>, Server!ReadYaml(doc))
    BY <2>1, Zenon DEF Server!LoadKeys
  <2>. QED BY <2>1, <2>2, <2>3, SameIn, Zenon
<1>10. CASE Tool!IsMapping(doc) /\ ~IsList(At(doc, "keys"))
  <2>1. Server!ReadYaml(doc) = {} BY <1>2, <1>10, SameReadFile
  <2>2. Tool!LoadKeys(doc, known) = Tool!In(<<"keys", 1>>, {<<Top, 0, "keys", "missing">>})
    BY <1>1, <1>10, Zenon DEF Tool!LoadKeys
  <2>3. Server!LoadKeys(doc, known) = Server!In(<<"keys", 1>>, {<<Top, 0, "keys", "missing">>})
    BY <1>1, <1>10, <2>1, Zenon DEF Server!LoadKeys
  <2>. QED BY <2>2, <2>3, SameIn, Zenon
<1>11. CASE Tool!IsMapping(doc) /\ IsList(At(doc, "keys"))
  <2>1. Server!ReadYaml(doc) = {} BY <1>2, <1>11, SameReadFile
  <2>2. Tool!LoadKeys(doc, known) =
          Tool!In(<<"keys", 1>>, UNION {Tool!Key(keys[i], i, known) : i \in DOMAIN keys})
          \cup Tool!In(<<"keys", 0>>, Tool!Flag(Tool!Clash(keys, passed, "id"), Top, 0, "keys", "duplicate_key"))
    <3>. HIDE DEF keys
    <3>. QED BY <1>1, <1>11, Zenon DEF Tool!LoadKeys
  <2>3. Server!LoadKeys(doc, known) =
          Server!In(<<"keys", 1>>, each)
          \cup Server!DuplicateErrors(keys, Server!Parsed(keys, errors), "id", "keys", "duplicate_key")
    <3>. HIDE DEF keys
    <3>. QED BY <1>1, <1>11, <2>1, Zenon DEF Server!LoadKeys
  <2>. QED BY <1>5, <1>7, <1>8, <2>2, <2>3, SameIn, Zenon
<1>. QED BY <1>9, <1>10, <1>11

-----------------------------------------------------------------------------
(* offloader.yml and the auth mode                                         *)

(* offloader.yml itself.                                                   *)
LEMMA SameProjectFile ==
  ASSUME NEW doc, doc # Nil
  PROVE  /\ Tool!ProjectFile(doc) = Server!ProjectErrors(doc)
         /\ Tool!ProjectFile(doc) = {} =>
              \A k \in Tool!ProjectPaths : At(doc, k) = Nil \/ IsNonEmpty(At(doc, k))
<1>. DEFINE tool(k) == Tool!Flag(Tool!At(doc, k) # Tool!Nil /\ ~Tool!IsNonEmpty(Tool!At(doc, k)),
                                 Tool!Top, 0, k, "invalid_type")
            server(k) == Server!Flag(Server!At(doc, k) # Server!Nil /\ ~Server!IsNonEmpty(Server!At(doc, k)),
                                     Server!Top, 0, k, "invalid_type")
            known == Server!UnknownKeys(doc, Tool!ProjectKeys, Server!Top, 0)
<1>1. \A k : tool(k) = server(k)
  <2>. SUFFICES ASSUME NEW k PROVE tool(k) = server(k) OBVIOUS
  <2>. DEFINE v == Tool!At(doc, k)
              w == Server!At(doc, k)
  <2>1. v
        = w /\ Tool!IsNonEmpty(v) = Server!IsNonEmpty(w) /\ Tool!Nil = Server!Nil /\ Tool!Top = Server!Top
    BY ToolReading, ServerReading, Zenon
  <2>2. tool(k) = Tool!Flag(v # Tool!Nil /\ ~Tool!IsNonEmpty(v), Tool!Top, 0, k, "invalid_type")
    OBVIOUS
  <2>3. server(k)
        = Server!Flag(w # Server!Nil /\ ~Server!IsNonEmpty(w), Server!Top, 0, k, "invalid_type")
    OBVIOUS
  <2>. HIDE DEF tool, server, v, w
  <2>. QED BY <2>1, <2>2, <2>3 DEF Tool!Flag, Server!Flag
<1>2. Tool!UnknownKeys(doc, Tool!ProjectKeys, Tool!Top, 0) = known
  BY SameUnknown, ToolReading, ServerReading, Zenon
<1>3. CASE ~Tool!IsMapping(doc)
  <2>1. Server!ReadYaml(doc) # {} /\ Tool!ReadMapping(doc) = Server!ReadYaml(doc)
    BY <1>3, SameReadFile
  <2>2. Tool!ProjectFile(doc) = Tool!ReadMapping(doc)
    BY <1>3, Zenon DEF Tool!ProjectFile
  <2>3. Server!ProjectErrors(doc) = Server!ReadYaml(doc)
    BY <2>1, Zenon DEF Server!ProjectErrors
  <2>. QED BY <2>1, <2>2, <2>3
<1>4. CASE Tool!IsMapping(doc)
  <2>1. Server!ReadYaml(doc) = {} BY <1>4, SameReadFile
  <2>2. Tool!ProjectFile(doc) = known \cup UNION {tool(k) : k \in Tool!ProjectPaths}
    BY <1>2, <1>4, Zenon DEF Tool!ProjectFile
  <2>3. Server!ProjectErrors(doc) = known \cup UNION {server(k) : k \in Tool!ProjectPaths}
    BY <2>1, Zenon DEF Server!ProjectErrors, Tool!ProjectKeys, Tool!ProjectPaths
  <2>4. Tool!ProjectFile(doc) = Server!ProjectErrors(doc)
    <3>. HIDE DEF tool, server, known
    <3>. QED BY <1>1, <2>2, <2>3
  <2>5. ASSUME Tool!ProjectFile(doc) = {}, NEW k \in Tool!ProjectPaths
        PROVE  At(doc, k) = Nil \/ IsNonEmpty(At(doc, k))
    <3>1. tool(k) = {}
      <4>. HIDE DEF tool, known
      <4>. QED BY <2>2, <2>5
    <3>2. ~(Tool!At(doc, k) # Tool!Nil /\ ~Tool!IsNonEmpty(Tool!At(doc, k)))
      BY <3>1, FlagFreeTool, Zenon
    <3>. QED BY <3>2, ToolReading
  <2>. QED BY <2>4, <2>5
<1>. QED BY <1>3, <1>4

\* The finding that a public API serves a tenant's rows.
Public == <<<<"offloader.yml", 0>>, <<Top, 0, "auth", "public_tenant_endpoint">>>>

\* Server!AuthErrors, given whether an endpoint binds a tenant column.
AuthAtServer(auth, public) ==
  Flag(auth \notin {Nil, Str("required"), Str("none")}, Top, 0, "auth", "invalid_value")
  \cup Flag(auth = Str("none") /\ public, Top, 0, "auth", "public_tenant_endpoint")

LEMMA AuthReading ==
  ASSUME NEW auth, NEW endpoints
  PROVE  Server!AuthErrors(auth, endpoints) = AuthAtServer(auth, Server!PublicTenant(endpoints))
<1>1. /\ Server!Nil = Nil /\ Server!Top = Top
      /\ Server!Str("required") = Str("required") /\ Server!Str("none") = Str("none")
  BY ServerReading, Zenon
<1>2. \A c, p, i, f, code : Server!Flag(c, p, i, f, code) = Flag(c, p, i, f, code)
  BY Zenon DEF Server!Flag, Flag
<1>. QED BY <1>1, <1>2, Zenon DEF Server!AuthErrors, AuthAtServer

\* Whether one of the endpoints served binds a tenant column.
Tenanted(served, datasets) == \E ep \in served : datasets[ep.dataset].tenant # Absent

(* Whether the API may be public, given what it serves.                    *)
LEMMA SameAuth ==
  ASSUME NEW auth, Plain(auth), NEW served, NEW datasets
  PROVE  Tool!ValidateAuth(auth, served, datasets) = AuthAtServer(auth, Tenanted(served, datasets))
<1>. DEFINE tenanted == Tenanted(served, datasets)
<1>1. /\ Tool!Nil = Nil /\ Tool!Top = Top /\ Tool!Str("none") = Str("none") /\ Tool!Absent = Absent
      /\ Tool!IsOneOf(auth, Tool!AuthModes) = IsOneOf(auth, Tool!AuthModes)
  BY ToolReading, Zenon
<1>2. IsOneOf(auth, Tool!AuthModes) <=> auth \in {Str("required"), Str("none")}
  BY OneOfTwo DEF Tool!AuthModes
<1>3. (auth \in {Str("required"), Str("none")}) => auth # Nil BY DEF Str, Nil
<1>4. (\E ep \in served : datasets[ep.dataset].tenant # Tool!Absent) <=> tenanted
  BY <1>1 DEF Tenanted
<1>. HIDE DEF tenanted
<1>5. CASE auth = Nil
  <2>1. Tool!ValidateAuth(auth, served, datasets) = {}
    BY <1>1, <1>2, <1>3, <1>5, Zenon DEF Tool!ValidateAuth
  <2>2. AuthAtServer(auth, tenanted) = {} BY <1>3, <1>5 DEF AuthAtServer, Flag
  <2>. QED BY <2>1, <2>2 DEF tenanted
<1>6. CASE auth \in {Str("required"), Str("none")}
  <2>. DEFINE found == \E ep \in served : datasets[ep.dataset].tenant # Tool!Absent
  <2>1. Tool!ValidateAuth(auth, served, datasets)
        = Tool!Flag(auth = Str("none") /\ found, Top, 0, "auth", "public_tenant_endpoint")
    BY <1>1, <1>2, <1>3, <1>6, Zenon DEF Tool!ValidateAuth
  <2>2. found <=> tenanted BY <1>4
  <2>. HIDE DEF found
  <2>3. Tool!Flag(auth = Str("none") /\ found, Top, 0, "auth", "public_tenant_endpoint")
        = AuthAtServer(auth, tenanted)
    BY <1>6, <2>2 DEF Tool!Flag, AuthAtServer, Flag
  <2>. QED BY <2>1, <2>3 DEF tenanted
<1>7. CASE auth # Nil /\ auth \notin {Str("required"), Str("none")}
  <2>1. Tool!ValidateAuth(auth, served, datasets) = {<<Top, 0, "auth", "invalid_value">>}
    BY <1>1, <1>2, <1>7, Zenon DEF Tool!ValidateAuth
  <2>2. AuthAtServer(auth, tenanted) = {<<Top, 0, "auth", "invalid_value">>}
    BY <1>7 DEF AuthAtServer, Flag
  <2>. QED BY <2>1, <2>2 DEF tenanted
<1>. QED BY <1>5, <1>6, <1>7

LEMMA PublicOnly ==
  ASSUME NEW auth, NEW one, NEW other, other => one
  PROVE  LET file == <<"offloader.yml", 0>>
         IN  \/ In(file, AuthAtServer(auth, one)) = In(file, AuthAtServer(auth, other))
             \/ In(file, AuthAtServer(auth, one)) = In(file, AuthAtServer(auth, other)) \cup {Public}
<1>. DEFINE file == <<"offloader.yml", 0>>
            public == <<Top, 0, "auth", "public_tenant_endpoint">>
<1>1. \/ AuthAtServer(auth, one) = AuthAtServer(auth, other)
      \/ AuthAtServer(auth, one) = AuthAtServer(auth, other) \cup {public}
  BY DEF AuthAtServer, Flag
<1>2. ASSUME NEW A, NEW B, A = B \cup {public}
      PROVE  In(file, A) = In(file, B) \cup {Public}
  <2>. HIDE DEF file, public
  <2>1. In(file, A) = In(file, B) \cup {<<file, public>>} BY <1>2 DEF In
  <2>. QED BY <2>1 DEF file, public, Public
<1>. HIDE DEF public, file
<1>3. CASE AuthAtServer(auth, one) = AuthAtServer(auth, other)
  BY <1>3 DEF file
<1>4. CASE AuthAtServer(auth, one) = AuthAtServer(auth, other) \cup {public}
  <2>1. In(file, AuthAtServer(auth, one)) = In(file, AuthAtServer(auth, other)) \cup {Public}
    BY <1>2, <1>4
  <2>. QED BY <2>1 DEF file
<1>. QED BY <1>1, <1>3, <1>4

-----------------------------------------------------------------------------
(* The endpoints that are served                                           *)

(* What of the endpoints the keys and the auth mode are checked against:   *)
(* of two with one name the helper keeps both, the server the first.       *)
LEMMA SameServed ==
  ASSUME NEW V, Closed(V), NEW files, Readable(files, V), AllFlat(files),
         NEW datasets, AllTyped(datasets)
  PROVE  LET passed == PassedEndpoints(files, datasets)
             served == Tool!LoadEndpoints(files, datasets).served
             endpoints == Server!ByName(files, passed, "name")
         IN  /\ {ep.name : ep \in served} = {Server!Str(name) : name \in DOMAIN endpoints}
             /\ \A v \in {ep.name : ep \in served} : IsStr(v)
             /\ Server!PublicTenant(endpoints) => Tenanted(served, datasets)
             /\ ~Tool!Clash(files, passed, "name") =>
                  (Server!PublicTenant(endpoints) <=> Tenanted(served, datasets))
<1>. DEFINE passed == PassedEndpoints(files, datasets)
            served == Tool!LoadEndpoints(files, datasets).served
            endpoints == Server!ByName(files, passed, "name")
            name(i) == At(files[i], "name")
            dataset(i) == At(files[i], "dataset")[2]
            bound(i) == Has(At(files[i], "tenant"), "column")
<1>1. /\ \A v, key : Tool!At(v, key) = At(v, key)
      /\ \A v, key : Server!At(v, key) = At(v, key)
      /\ \A v, key : Server!Has(v, key) = Has(v, key)
      /\ \A s : Server!Str(s) = Str(s)
  BY ToolReading, ServerReading, Zenon
<1>2. passed \in SUBSET Nat BY DEF PassedEndpoints, Readable
<1>3. \A i \in passed : /\ name(i) = Str(name(i)[2])
                        /\ bound(i) <=> datasets[dataset(i)].tenant # Absent
  BY PassedEndpoint
<1>4. served = {[name |-> name(i), dataset |-> dataset(i)] : i \in passed}
  <2>1. served
        = {[name |-> Tool!At(files[i], "name"), dataset |-> Tool!At(files[i], "dataset")[2]] :
                    i \in passed}
    BY DEF Tool!LoadEndpoints, PassedEndpoints
  <2>. HIDE DEF passed, served
  <2>. QED BY <1>1, <2>1
<1>5. endpoints
      = [n \in {name(i)[2] : i \in passed} |-> files[Server!First(files, passed, "name", n)]]
  BY <1>1 DEF Server!ByName
<1>6. Server!PublicTenant(endpoints)
      <=> \E n \in DOMAIN endpoints : Has(At(endpoints[n], "tenant"), "column")
  <2>. HIDE DEF endpoints
  <2>. QED BY <1>1 DEF Server!PublicTenant
<1>7. \A n \in DOMAIN endpoints : \E i \in passed : endpoints[n] = files[i]
  <2>. SUFFICES ASSUME NEW i \in passed
                PROVE  \E j \in passed : endpoints[name(i)[2]] = files[j]
    <3>. HIDE DEF endpoints, passed, name
    <3>. QED BY <1>5
  <2>1. Server!First(files, passed, "name", name(i)[2]) \in passed BY <1>2, FirstParsed
  <2>2. endpoints[name(i)[2]] = files[Server!First(files, passed, "name", name(i)[2])]
    <3>. HIDE DEF endpoints, passed, name
    <3>. QED BY <1>5
  <2>. QED BY <2>1, <2>2
<1>8. ~Tool!Clash(files, passed, "name") => \A i \in passed : endpoints[name(i)[2]] = files[i]
  <2>. SUFFICES ASSUME ~Tool!Clash(files, passed, "name"), NEW i \in passed
                PROVE  endpoints[name(i)[2]] = files[i]
    OBVIOUS
  <2>1. Apart(files, passed, "name")
    <3>. HIDE DEF passed
    <3>. QED BY <1>3, ApartUnlessClash
  <2>2. Server!First(files, passed, "name", name(i)[2]) = i
    <3>. HIDE DEF passed
    <3>. QED BY <1>2, <2>1, OnlyFirst
  <2>3. endpoints[name(i)[2]] = files[Server!First(files, passed, "name", name(i)[2])]
    <3>. HIDE DEF endpoints, passed, name
    <3>. QED BY <1>5
  <2>. QED BY <2>2, <2>3
<1>9. DOMAIN endpoints = {name(i)[2] : i \in passed} BY <1>5
<1>10. Tenanted(served, datasets) <=> \E i \in passed : bound(i)
  <2>1. Tenanted(served, datasets) <=> \E i \in passed : datasets[dataset(i)].tenant # Absent
    <3>. DEFINE ref(i) == [name |-> name(i), dataset |-> dataset(i)]
    <3>1. served = {ref(i) : i \in passed} BY <1>4
    <3>2. \A i : ref(i).dataset = dataset(i) OBVIOUS
    <3>. HIDE DEF served, passed, name, dataset, ref
    <3>3. (\E ep \in served : datasets[ep.dataset].tenant # Absent)
          <=> (\E i \in passed : datasets[ref(i).dataset].tenant # Absent)
      BY <3>1
    <3>. QED BY <3>2, <3>3 DEF Tenanted
  <2>. HIDE DEF served, passed, dataset, bound
  <2>. QED BY <1>3, <2>1
<1>11. {ep.name : ep \in served} = {name(i) : i \in passed}
  <2>. DEFINE ref(i) == [name |-> name(i), dataset |-> dataset(i)]
  <2>1. served = {ref(i) : i \in passed} BY <1>4
  <2>2. \A i : ref(i).name = name(i) OBVIOUS
  <2>. HIDE DEF served, passed, name, dataset, ref
  <2>. QED BY <2>1, <2>2
<1>12. {Server!Str(n) : n \in DOMAIN endpoints} = {name(i) : i \in passed}
  <2>. HIDE DEF endpoints, passed, name
  <2>. QED BY <1>1, <1>3, <1>9
<1>13. \A i \in passed : IsStr(name(i)) BY <1>3 DEF IsStr, Str
<1>14. Server!PublicTenant(endpoints) => \E i \in passed : bound(i)
  <2>. HIDE DEF endpoints, passed
  <2>. QED BY <1>6, <1>7
<1>15. ASSUME ~Tool!Clash(files, passed, "name"), NEW i \in passed, bound(i)
       PROVE  Server!PublicTenant(endpoints)
  <2>1. endpoints[name(i)[2]] = files[i] BY <1>8, <1>15
  <2>2. name(i)[2] \in DOMAIN endpoints
    <3>. HIDE DEF endpoints, passed, name
    <3>. QED BY <1>9
  <2>. QED BY <1>6, <1>15, <2>1, <2>2
<1>16. /\ {ep.name : ep \in served} = {Server!Str(n) : n \in DOMAIN endpoints}
       /\ \A v \in {ep.name : ep \in served} : IsStr(v)
       /\ Server!PublicTenant(endpoints) => Tenanted(served, datasets)
       /\ ~Tool!Clash(files, passed, "name") =>
            (Server!PublicTenant(endpoints) <=> Tenanted(served, datasets))
  <2>. HIDE DEF served, endpoints, passed, name, bound
  <2>. QED BY <1>10, <1>11, <1>12, <1>13, <1>14, <1>15
<1>. QED BY <1>16, Zenon

-----------------------------------------------------------------------------
(* A project                                                               *)

\* Both sides read a directory alike if its documents are made of strings, booleans, integers of
\* 64 bits, lists and mappings (V), none of its endpoints uses a list or a mapping where a name or
\* a scalar belongs nor group_by: false, and the paths that are listed are paths of the directory.
Alike(V, d) ==
  /\ Closed(V)
  /\ \A path \in DOMAIN d : d[path] \in Documents(V) /\ FlatEndpoint(d[path])
  /\ \A sub \in DOMAIN Listing : \A i \in DOMAIN Listing[sub] : Listing[sub][i] \in DOMAIN d

LEMMA AlikeFiles ==
  ASSUME NEW V, NEW d, Alike(V, d), NEW sub
  PROVE  Readable(Files(d, sub), V) /\ AllFlat(Files(d, sub))
<1>. DEFINE listed == IF sub \in DOMAIN Listing THEN Listing[sub] ELSE <<>>
            there == {j \in DOMAIN listed : d[listed[j]] # Missing}
<1>1. Files(d, sub) = [i \in there |-> d[listed[i]]] BY DEF Files
<1>2. \A i \in DOMAIN listed : i \in Nat /\ listed[i] \in DOMAIN d
  <2>1. CASE sub \in DOMAIN Listing
    <3>1. listed = Listing[sub] BY <2>1
    <3>2. Listing[sub] \in Seq(STRING) BY <2>1, ListingAssumption
    <3>3. \A i \in DOMAIN Listing[sub] : i \in Nat BY <3>2
    <3>4. \A i \in DOMAIN Listing[sub] : Listing[sub][i] \in DOMAIN d BY <2>1 DEF Alike
    <3>. HIDE DEF listed
    <3>. QED BY <3>1, <3>3, <3>4
  <2>2. CASE sub \notin DOMAIN Listing
    BY <2>2, EmptyDomain
  <2>. QED BY <2>1, <2>2
<1>3. \A i \in there : i \in Nat /\ d[listed[i]] \in Documents(V) /\ FlatEndpoint(d[listed[i]])
  <2>. HIDE DEF listed
  <2>. QED BY <1>2 DEF Alike
<1>. HIDE DEF there, listed
<1>. QED BY <1>1, <1>3 DEF Readable, AllFlat

LEMMA AlikeFile ==
  ASSUME NEW V, NEW d, Alike(V, d), NEW path
  PROVE  FileAt(d, path) \in Documents(V)
BY DEF Alike, FileAt, Documents

\* The paths that the directories of a project default to.
LEMMA SamePath ==
  ASSUME NEW v, v = Nil \/ IsNonEmpty(v), NEW default
  PROVE  Tool!StringOr(v, default) = IF v = Nil THEN default ELSE v[2]
<1>1. IsNonEmpty(v) => v # Nil BY KindsApart
<1>2. Tool!IsNonEmpty(v) = IsNonEmpty(v) BY ToolReading
<1>. QED BY <1>1, <1>2 DEF Tool!StringOr

\* What the server makes of the files of a project whose offloader.yml passed,
\* one step after the other.
GrantedKeys(d, keys, known) ==
  IF keys = Server!Nil THEN {} ELSE Server!LoadKeys(Server!FileAt(d, keys[2]), known)

FromServed(d, project, files, parsed) ==
  LET endpoints == Server!ByName(files, parsed, "name")
  IN  Server!DuplicateErrors(files, parsed, "name", "endpoints", "duplicate_endpoint")
      \cup GrantedKeys(d, Server!At(project, "keys"), {Server!Str(name) : name \in DOMAIN endpoints})
      \cup Server!In(<<"offloader.yml", 0>>, Server!AuthErrors(Server!At(project, "auth"), endpoints))

FromEndpoints(d, project, files, datasets) ==
  LET errors == [i \in DOMAIN files |-> Server!ParseEndpoint(files[i], datasets)]
  IN  (UNION {Server!In(<<"endpoints", i>>, errors[i]) : i \in DOMAIN files})
      \cup FromServed(d, project, files, Server!Parsed(files, errors))

ById(files, parsed) ==
  LET raw == Server!ByName(files, parsed, "id")
  IN  [id \in DOMAIN raw |-> Server!Dataset(raw[id])]

FromDatasets(d, project, dsFiles, epFiles) ==
  LET errors == [i \in DOMAIN dsFiles |-> Server!ParseDataset(dsFiles[i])]
      parsed == Server!Parsed(dsFiles, errors)
  IN  (UNION {Server!In(<<"datasets", i>>, errors[i]) : i \in DOMAIN dsFiles})
      \cup Server!DuplicateErrors(dsFiles, parsed, "id", "datasets", "duplicate_dataset")
      \cup FromEndpoints(d, project, epFiles, ById(dsFiles, parsed))

\* Server!Load's sub.
PathAtServer(project, key, default) ==
  IF Server!At(project, key) = Server!Nil THEN default ELSE Server!At(project, key)[2]

(* Server!Load, taken apart.                                               *)
LEMMA LoadInSteps ==
  ASSUME NEW d, Server!ProjectErrors(Server!FileAt(d, "offloader.yml")) = {}
  PROVE  LET project == Server!FileAt(d, "offloader.yml")
         IN  Server!Load(d).errors
             = FromDatasets(d, project, Server!Files(d, PathAtServer(project, "datasets_dir", "datasets")),
                            Server!Files(d, PathAtServer(project, "endpoints_dir", "endpoints")))
BY DEF Server!Load, FromDatasets, FromEndpoints, FromServed, GrantedKeys, ById, PathAtServer

\* What the helper makes of the endpoints of such a project.
ToolFromEndpoints(d, project, endpoints, datasets) ==
  endpoints.found
  \cup (IF Tool!IsStr(Tool!At(project, "keys"))
        THEN Tool!LoadKeys(Tool!FileAt(d, Tool!At(project, "keys")[2]), {ep.name : ep \in endpoints.served})
        ELSE {})
  \cup Tool!In(<<"offloader.yml", 0>>, Tool!ValidateAuth(Tool!At(project, "auth"), endpoints.served, datasets))

\* The finding that two files of a directory share a name.
Twice(sub, code) == <<<<sub, 0>>, <<Top, 0, sub, code>>>>

LEMMA SameGrants ==
  ASSUME NEW V, NEW d, Alike(V, d), NEW keys, keys = Nil \/ IsNonEmpty(keys),
         NEW known, \A v \in known : IsStr(v)
  PROVE  GrantedKeys(d, keys, known)
         = IF Tool!IsStr(keys) THEN Tool!LoadKeys(Tool!FileAt(d, keys[2]), known) ELSE {}
<1>1. /\ Tool!IsStr(keys) = IsStr(keys) /\ Server!Nil = Nil
      /\ \A path : Tool!FileAt(d, path) = FileAt(d, path) /\ Server!FileAt(d, path) = FileAt(d, path)
  BY ToolReading, ServerReading, SameDocuments, Zenon
<1>2. CASE keys = Nil
  <2>1. ~IsStr(keys) BY <1>2, KindsApart
  <2>. QED BY <1>1, <1>2, <2>1, Zenon DEF GrantedKeys
<1>3. CASE IsNonEmpty(keys)
  <2>1. IsStr(keys) /\ keys # Nil BY <1>3, KindsApart
  <2>2. FileAt(d, keys[2]) \in Documents(V) BY AlikeFile
  <2>3. Closed(V) BY DEF Alike
  <2>4. Tool!LoadKeys(FileAt(d, keys[2]), known) = Server!LoadKeys(FileAt(d, keys[2]), known)
    BY <2>2, <2>3, SameKeys
  <2>. QED BY <1>1, <2>1, <2>4, Zenon DEF GrantedKeys
<1>. QED BY <1>2, <1>3

(* Everything after the datasets.                                          *)
LEMMA SameFromEndpoints ==
  ASSUME NEW V, NEW d, Alike(V, d), NEW project, Holds(project, V),
         At(project, "keys") = Nil \/ IsNonEmpty(At(project, "keys")),
         NEW files, Readable(files, V), AllFlat(files), NEW datasets, AllTyped(datasets)
  PROVE  LET tool == ToolFromEndpoints(d, project, Tool!LoadEndpoints(files, datasets), datasets)
             server == FromEndpoints(d, project, files, datasets)
         IN  \/ tool = server
             \/ /\ Twice("endpoints", "duplicate_endpoint") \in tool \cap server
                /\ tool = server \cup {Public}
<1>. DEFINE E == Tool!LoadEndpoints(files, datasets)
            tool == ToolFromEndpoints(d, project, E, datasets)
            server == FromEndpoints(d, project, files, datasets)
            keys == At(project, "keys")
            auth == At(project, "auth")
            errors == [i \in DOMAIN files |-> Server!ParseEndpoint(files[i], datasets)]
            parsed == Server!Parsed(files, errors)
            passed == PassedEndpoints(files, datasets)
            endpoints == Server!ByName(files, passed, "name")
            each == UNION {Server!In(<<"endpoints", i>>, errors[i]) : i \in DOMAIN files}
            twice == Server!DuplicateErrors(files, passed, "name", "endpoints", "duplicate_endpoint")
            known == {ep.name : ep \in E.served}
            granted == GrantedKeys(d, keys, known)
            file == <<"offloader.yml", 0>>
            one == Tenanted(E.served, datasets)
            other == Server!PublicTenant(endpoints)
            toolAuth == In(file, AuthAtServer(auth, one))
            serverAuth == In(file, AuthAtServer(auth, other))
<1>1. Closed(V) BY DEF Alike
<1>2. parsed = passed /\ E.found = each \cup twice
  BY <1>1, SameEndpointFindings
<1>3. /\ known = {Server!Str(name) : name \in DOMAIN endpoints}
      /\ \A v \in known : IsStr(v)
      /\ other => one
      /\ ~Tool!Clash(files, passed, "name") => (other <=> one)
  BY <1>1, SameServed, Zenon
<1>4. /\ Tool!At(project, "keys") = keys /\ Server!At(project, "keys") = keys
      /\ Tool!At(project, "auth") = auth /\ Server!At(project, "auth") = auth
  BY ToolReading, ServerReading, Zenon
<1>5. granted = IF Tool!IsStr(keys) THEN Tool!LoadKeys(Tool!FileAt(d, keys[2]), known) ELSE {}
  <2>. HIDE DEF keys, known
  <2>1. keys = Nil \/ IsNonEmpty(keys) BY DEF keys
  <2>. QED BY <1>3, <2>1, SameGrants
<1>6. Tool!ValidateAuth(auth, E.served, datasets) = AuthAtServer(auth, one)
  <2>1. Plain(auth) BY <1>1 DEF Holds, Closed
  <2>. HIDE DEF auth, E
  <2>. QED BY <2>1, SameAuth
<1>7. Server!AuthErrors(auth, endpoints) = AuthAtServer(auth, other)
  <2>. HIDE DEF auth, endpoints
  <2>. QED BY AuthReading
<1>8. tool = each \cup twice \cup granted \cup toolAuth
  <2>1. tool = E.found \cup granted \cup Tool!In(file, Tool!ValidateAuth(auth, E.served, datasets))
    <3>. HIDE DEF E, keys, auth
    <3>. QED BY <1>4, <1>5, Zenon DEF ToolFromEndpoints
  <2>2. Tool!In(file, Tool!ValidateAuth(auth, E.served, datasets)) = toolAuth
    <3>. HIDE DEF E, auth, one, file
    <3>. QED BY <1>6, SameIn, Zenon
  <2>. QED BY <1>2, <2>1, <2>2, Zenon
<1>9. server = each \cup twice \cup granted \cup serverAuth
  <2>1. server = each \cup FromServed(d, project, files, passed)
    <3>. HIDE DEF passed
    <3>. QED BY <1>2, Zenon DEF FromEndpoints
  <2>2. FromServed(d, project, files, passed)
        = twice \cup granted \cup Server!In(file, Server!AuthErrors(auth, endpoints))
    <3>. HIDE DEF passed, keys, auth, known
    <3>. QED BY <1>3, <1>4, Zenon DEF FromServed
  <2>3. Server!In(file, Server!AuthErrors(auth, endpoints)) = serverAuth
    <3>. HIDE DEF endpoints, auth, other, file
    <3>. QED BY <1>7, SameIn, Zenon
  <2>. HIDE DEF each, twice, granted, serverAuth, server, endpoints, auth
  <2>. QED BY <2>1, <2>2, <2>3
<1>10. CASE ~Tool!Clash(files, passed, "name")
  <2>1. (other <=> one) BY <1>3, <1>10
  <2>2. toolAuth = serverAuth
    <3>. HIDE DEF one, other, auth, file
    <3>. QED BY <2>1 DEF AuthAtServer
  <2>3. tool = server BY <1>8, <1>9, <2>2, Zenon
  <2>. QED BY <2>3, Zenon
<1>11. CASE Tool!Clash(files, passed, "name")
  <2>1. Twice("endpoints", "duplicate_endpoint") \in twice
    <3>1. passed \in SUBSET Nat BY DEF PassedEndpoints, Readable
    <3>2. Server!DuplicateErrors(files, passed, "name", "endpoints", "duplicate_endpoint")
          = In(<<"endpoints", 0>>,
               Tool!Flag(Tool!Clash(files, passed, "name"), Top, 0, "endpoints", "duplicate_endpoint"))
      <4>. HIDE DEF passed
      <4>. QED BY <3>1, SameClash
    <3>. HIDE DEF passed
    <3>. QED BY <1>11, <3>2 DEF In, Tool!Flag, Twice
  <2>2. toolAuth = serverAuth \/ toolAuth = serverAuth \cup {Public}
    <3>. HIDE DEF one, other, auth
    <3>1. other => one BY <1>3
    <3>. QED BY <3>1, PublicOnly
  <2>3. \/ tool = server
        \/ /\ Twice("endpoints", "duplicate_endpoint") \in tool \cap server
           /\ tool = server \cup {Public}
    <3>. HIDE DEF tool, server, each, twice, granted, toolAuth, serverAuth
    <3>. QED BY <1>8, <1>9, <2>1, <2>2
  <2>. QED BY <2>3, Zenon
<1>. QED BY <1>10, <1>11

(* The agreement itself: in any directory whose files both read alike.     *)
LEMMA SameProject ==
  ASSUME NEW V, NEW d, Alike(V, d)
  PROVE  Agree(Tool!ValidateProject(d), Server!Load(d).errors)
<1>. DEFINE project == FileAt(d, "offloader.yml")
            dsPath == Tool!StringOr(At(project, "datasets_dir"), "datasets")
            epPath == Tool!StringOr(At(project, "endpoints_dir"), "endpoints")
            dsFiles == Files(d, dsPath)
            epFiles == Files(d, epPath)
            D == Tool!LoadDatasets(dsFiles)
            datasets == DatasetsById(dsFiles)
<1>1. Closed(V) /\ project \in Documents(V)
  BY AlikeFile DEF Alike
<1>2. project # Nil /\ Holds(project, V) BY <1>1, MappingHolds
<1>3. Readable(dsFiles, V) /\ Readable(epFiles, V) /\ AllFlat(epFiles)
  BY AlikeFiles
<1>4. Tool!ProjectFile(project) = Server!ProjectErrors(project) BY <1>2, SameProjectFile
<1>5. Tool!FileAt(d, "offloader.yml") = project /\ Server!FileAt(d, "offloader.yml") = project
  BY SameDocuments
<1>6. CASE Tool!ProjectFile(project) # {}
  <2>1. Tool!ValidateProject(d) = Tool!In(<<"offloader.yml", 0>>, Tool!ProjectFile(project))
    <3>. HIDE DEF project
    <3>. QED BY <1>5, <1>6, Zenon DEF Tool!ValidateProject
  <2>2. Server!Load(d).errors = Server!In(<<"offloader.yml", 0>>, Server!ProjectErrors(project))
    <3>. HIDE DEF project
    <3>. QED BY <1>4, <1>5, <1>6 DEF Server!Load
  <2>. QED BY <1>4, <2>1, <2>2, SameIn, Zenon DEF Agree
<1>7. CASE Tool!ProjectFile(project) = {}
  <2>. DEFINE dsErrors == [i \in DOMAIN dsFiles |-> Server!ParseDataset(dsFiles[i])]
              dsEach == UNION {Server!In(<<"datasets", i>>, dsErrors[i]) : i \in DOMAIN dsFiles}
              dsTwice == Server!DuplicateErrors(dsFiles, Passed(dsFiles), "id", "datasets", "duplicate_dataset")
              toolRest == ToolFromEndpoints(d, project, Tool!LoadEndpoints(epFiles, D.byId), D.byId)
              serverRest == FromEndpoints(d, project, epFiles, datasets)
  <2>1. /\ At(project, "keys") = Nil \/ IsNonEmpty(At(project, "keys"))
        /\ At(project, "datasets_dir") = Nil \/ IsNonEmpty(At(project, "datasets_dir"))
        /\ At(project, "endpoints_dir") = Nil \/ IsNonEmpty(At(project, "endpoints_dir"))
    BY <1>2, <1>7, SameProjectFile DEF Tool!ProjectPaths
  <2>2. Tool!ValidateProject(d) = D.found \cup toolRest
    <3>1. /\ Tool!At(project, "datasets_dir") = At(project, "datasets_dir")
          /\ Tool!At(project, "endpoints_dir") = At(project, "endpoints_dir")
          /\ Tool!Files(d, dsPath) = dsFiles /\ Tool!Files(d, epPath) = epFiles
      BY ToolReading, SameDocuments, Zenon
    <3>2. Tool!ValidateProject(d)
          = Tool!Findings(d, project, D, Tool!LoadEndpoints(epFiles, D.byId))
      <4>. HIDE DEF project
      <4>. QED BY <1>5, <1>7, <3>1, Zenon DEF Tool!ValidateProject
    <3>. DEFINE E == Tool!LoadEndpoints(epFiles, D.byId)
    <3>3. Tool!Findings(d, project, D, E) = D.found \cup ToolFromEndpoints(d, project, E, D.byId)
      <4>. HIDE DEF project, D, E
      <4>. QED BY DEF Tool!Findings, ToolFromEndpoints
    <3>. QED BY <3>2, <3>3
  <2>3. Server!Parsed(dsFiles, dsErrors) = Passed(dsFiles) /\ D.found = dsEach \cup dsTwice
    BY <1>1, <1>3, SameDatasetFindings
  <2>4. Server!Load(d).errors = dsEach \cup dsTwice \cup serverRest
    <3>1. /\ PathAtServer(project, "datasets_dir", "datasets") = dsPath
          /\ PathAtServer(project, "endpoints_dir", "endpoints") = epPath
      <4>1. \A key : Server!At(project, key) = At(project, key) BY ServerReading
      <4>2. Server!Nil = Nil BY ServerReading
      <4>. HIDE DEF project
      <4>. QED BY <2>1, <4>1, <4>2, SamePath DEF PathAtServer
    <3>2. Server!Files(d, dsPath) = dsFiles /\ Server!Files(d, epPath) = epFiles BY SameDocuments
    <3>3. Server!Load(d).errors = FromDatasets(d, project, dsFiles, epFiles)
      <4>. HIDE DEF project
      <4>1. Server!ProjectErrors(Server!FileAt(d, "offloader.yml")) = {} BY <1>4, <1>5, <1>7
      <4>. HIDE DEF dsPath, epPath, dsFiles, epFiles
      <4>. QED BY <1>5, <3>1, <3>2, <4>1, LoadInSteps
    <3>4. FromDatasets(d, project, dsFiles, epFiles)
          = dsEach \cup dsTwice \cup FromEndpoints(d, project, epFiles, ById(dsFiles, Passed(dsFiles)))
      <4>. HIDE DEF dsFiles, epFiles, project
      <4>. QED BY <2>3, Zenon DEF FromDatasets
    <3>5. ById(dsFiles, Passed(dsFiles)) = datasets BY DEF ById, DatasetsById
    <3>. QED BY <3>3, <3>4, <3>5, Zenon
  <2>5. CASE Tool!Clash(dsFiles, Passed(dsFiles), "id")
    <3>1. Twice("datasets", "duplicate_dataset") \in dsTwice
      <4>1. Passed(dsFiles) \in SUBSET Nat BY <1>3 DEF Passed, Readable
      <4>2. dsTwice = In(<<"datasets", 0>>,
                         Tool!Flag(Tool!Clash(dsFiles, Passed(dsFiles), "id"), Top, 0,
                                   "datasets", "duplicate_dataset"))
        BY <4>1, SameClash
      <4>. HIDE DEF dsTwice, dsFiles
      <4>. QED BY <2>5, <4>2 DEF In, Tool!Flag, Twice
    <3>2. Twice("datasets", "duplicate_dataset") \in Tool!ValidateProject(d) \cap Server!Load(d).errors
      <4>. HIDE DEF dsEach, dsTwice, D, toolRest, serverRest
      <4>. QED BY <2>2, <2>3, <2>4, <3>1
    <3>. QED BY <3>2, Zenon DEF Agree, Twice
  <2>6. CASE ~Tool!Clash(dsFiles, Passed(dsFiles), "id")
    <3>1. D.byId = datasets /\ AllTyped(datasets)
      BY <1>1, <1>3, <2>6, SameDatasets DEF AllTyped
    <3>2. LET tool == ToolFromEndpoints(d, project, Tool!LoadEndpoints(epFiles, datasets), datasets)
          IN  \/ tool = serverRest
              \/ /\ Twice("endpoints", "duplicate_endpoint") \in tool \cap serverRest
                 /\ tool = serverRest \cup {Public}
      <4>. HIDE DEF project, epFiles, datasets
      <4>. QED BY <1>2, <1>3, <2>1, <3>1, SameFromEndpoints
    <3>3. \/ toolRest = serverRest
          \/ /\ Twice("endpoints", "duplicate_endpoint") \in toolRest \cap serverRest
             /\ toolRest = serverRest \cup {Public}
      <4>. HIDE DEF project, epFiles, datasets, D, serverRest
      <4>. QED BY <3>1, <3>2
    <3>. DEFINE tool == Tool!ValidateProject(d)
                server == Server!Load(d).errors
    <3>4. \/ tool = server
          \/ /\ Twice("endpoints", "duplicate_endpoint") \in tool \cap server
             /\ tool = server \cup {Public}
      <4>. HIDE DEF dsEach, dsTwice, D, toolRest, serverRest, tool, server
      <4>1. tool = dsEach \cup dsTwice \cup toolRest BY <2>2, <2>3 DEF tool
      <4>2. server = dsEach \cup dsTwice \cup serverRest BY <2>4 DEF server
      <4>. QED BY <3>3, <4>1, <4>2
    <3>. HIDE DEF tool, server
    <3>5. Agree(tool, server) BY <3>4, Zenon DEF Agree, Twice, Public
    <3>. QED BY <3>5 DEF tool, server
  <2>. QED BY <2>5, <2>6
<1>. QED BY <1>6, <1>7

-----------------------------------------------------------------------------
(* The two validators agree, and a project that serve checked boots        *)

\* The premise of what follows: the directory holds nothing that the two sides
\* are known to read differently.
ReadAlike == \E V : Alike(V, dir)

LEMMA AgreeWhenAlike ==
  ASSUME ReadAlike
  PROVE  Agree(Tool!ValidateProject(dir), Server!Load(dir).errors)
<1>1. PICK V : Alike(V, dir) BY DEF ReadAlike
<1>. QED BY <1>1, SameProject

(* The helper and the server report the same findings of a project whose   *)
(* files both read alike, whatever mistakes are in it and however many:    *)
(* ValidateProject in tools/validate.go and Catalog.load in catalog.ex.    *)
THEOREM ValidatorsAgree == Spec => [](ReadAlike => ToolAgrees)
<1>1. ReadAlike => ToolAgrees
  BY AgreeWhenAlike DEF ToolAgrees
<1>. QED
  BY <1>1, PTL

\* While serve runs, the directory is as it was checked or touched; and what
\* the container refused, it refused of the directory as it was checked.
CheckedInv ==
  /\ (pc # "idle" /\ ~touched) => Tool!ValidateProject(dir) = {}
  /\ outcome = "refused" => pc # "idle"
  /\ (outcome = "refused" /\ ~touched) => Server!Load(dir).errors # {}

LEMMA CheckedInit == Init => CheckedInv
  BY DEF Init, ServeInit, CheckedInv

LEMMA CheckedExit ==
  ASSUME Exit
  PROVE  CheckedInv'
  BY DEF Exit, CheckedInv

LEMMA CheckedServe ==
  ASSUME CheckedInv, ServeInv, ServeNext, UNCHANGED toolVars
  PROVE  CheckedInv'
<1>. DEFINE tool == Tool!ValidateProject(dir)
            server == Server!Load(dir).errors
<1>1. dir' = dir BY DEF toolVars
<1>2. tool' = tool /\ server' = server BY <1>1
<1>3. /\ (pc # "idle" /\ ~touched) => tool = {}
      /\ outcome = "refused" => pc # "idle"
      /\ (outcome = "refused" /\ ~touched) => server # {}
  BY DEF CheckedInv
<1>4. \/ Exit
      \/ /\ (pc' # "idle" /\ ~touched') => tool = {}
         /\ outcome' = "refused" => pc' # "idle"
         /\ (outcome' = "refused" /\ ~touched') => server # {}
  <2>. HIDE DEF tool, server
  <2>. USE DEF runVars, portVars
  <2>1. CASE Check
    <3>1. \/ Exit
          \/ pc' = "lookup" /\ outcome' = "" /\ tool = {}
      BY <2>1, Zenon DEF Check, tool
    <3>. QED BY <3>1
  <2>2. ASSUME NEW found \in BOOLEAN, NEW noPull \in BOOLEAN, LookPath(found, noPull)
        PROVE  \/ Exit
               \/ pc # "idle" /\ pc' # "idle" /\ UNCHANGED <<touched, outcome>>
    BY <2>2 DEF LookPath
  <2>3. ASSUME NEW held \in SUBSET (1 .. LastPort), PickPorts(held)
        PROVE  pc # "idle" /\ pc' # "idle" /\ UNCHANGED <<touched, outcome>>
    BY <2>3 DEF PickPorts
  <2>4. CASE Notify
    BY <1>3, <2>4 DEF Notify
  <2>5. ASSUME NEW starts \in BOOLEAN, Start(starts)
        PROVE  \/ Exit
               \/ pc # "idle" /\ pc' # "idle" /\ UNCHANGED <<touched, outcome>>
    BY <2>5 DEF Start
  <2>6. CASE Forward
    BY <1>3, <2>6 DEF Forward
  <2>7. CASE Wait
    BY <1>3, <2>7 DEF Wait
  <2>8. CASE StopNotify
    BY <1>3, <2>8 DEF StopNotify
  <2>9. CASE Signal
    BY <1>3, <2>9 DEF Signal
  <2>10. ASSUME NEW ok \in BOOLEAN, PullEnds(ok)
         PROVE  UNCHANGED <<pc, touched>> /\ outcome' # "refused"
    BY <2>10 DEF PullEnds
  <2>11. CASE Bind
    BY <1>3, <2>11 DEF Bind
  <2>12. CASE Boot
    <3>1. child = "bound" /\ UNCHANGED <<pc, touched>>
      BY <2>12 DEF Boot
    <3>2. pc # "idle" BY <3>1 DEF ServeInv, ChildInv
    <3>3. \/ UNCHANGED outcome
          \/ server # {}
      BY <2>12, Zenon DEF Boot, server
    <3>. QED BY <1>3, <3>1, <3>2, <3>3
  <2>13. CASE ContainerEnds
    BY <1>3, <2>13 DEF ContainerEnds
  <2>14. ASSUME NEW p \in 1 .. LastPort, TakePort(p)
         PROVE  UNCHANGED <<touched, outcome>> /\ pc' = pc
    BY <2>14 DEF TakePort
  <2>. QED
    BY <1>3, <2>1, <2>2, <2>3, <2>4, <2>5, <2>6, <2>7, <2>8, <2>9, <2>10, <2>11, <2>12,
       <2>13, <2>14 DEF ServeNext
<1>. QED
  <2>1. CASE Exit BY <2>1, CheckedExit
  <2>2. CASE ~Exit
    <3>. HIDE DEF tool, server
    <3>1. /\ (pc' # "idle" /\ ~touched') => tool' = {}
          /\ outcome' = "refused" => pc' # "idle"
          /\ (outcome' = "refused" /\ ~touched') => server' # {}
      BY <1>2, <1>4, <2>2
    <3>. QED BY <3>1 DEF CheckedInv, tool, server
  <2>. QED BY <2>1, <2>2

LEMMA CheckedTools ==
  ASSUME CheckedInv,
         touched' = (touched \/ (pc # "idle" /\ dir' # dir)),
         UNCHANGED <<pc, outcome>>
  PROVE  CheckedInv'
<1>1. CASE dir' = dir
  <2>1. /\ Tool!ValidateProject(dir)' = Tool!ValidateProject(dir)
        /\ (Server!Load(dir).errors)' = Server!Load(dir).errors
    BY <1>1
  <2>2. touched' <=> touched BY <1>1
  <2>. QED BY <2>1, <2>2, Zenon DEF CheckedInv
<1>2. CASE dir' # dir
  <2>1. pc # "idle" => touched' BY <1>2
  <2>. QED BY <2>1, Zenon DEF CheckedInv
<1>. QED BY <1>1, <1>2

LEMMA CheckedNext ==
  ASSUME CheckedInv, ServeInv, [Next]_vars
  PROVE  CheckedInv'
<1>1. CASE ServeNext /\ UNCHANGED toolVars
  BY <1>1, CheckedServe
<1>2. CASE /\ touched' = (touched \/ (pc # "idle" /\ dir' # dir))
           /\ UNCHANGED <<pc, outcome>>
  BY <1>2, CheckedTools
<1>3. CASE UNCHANGED <<dir, pc, touched, outcome>>
  <2>1. /\ Tool!ValidateProject(dir)' = Tool!ValidateProject(dir)
        /\ (Server!Load(dir).errors)' = Server!Load(dir).errors
    BY <1>3
  <2>. QED BY <1>3, <2>1, Zenon DEF CheckedInv
<1>. QED
  BY <1>1, <1>2, <1>3 DEF Next, vars, toolVars, serveVars

(* A project that serve found correct is not refused by the container that *)
(* loads it, unless somebody changed it in between: runServe in serve.go   *)
(* and the boot in application.ex, for a project whose files both read     *)
(* alike.                                                                  *)
THEOREM CheckedBoots == Spec => [](ReadAlike => BootsWhatItChecked)
<1>1. CheckedInv /\ ReadAlike => BootsWhatItChecked
  <2>. SUFFICES ASSUME CheckedInv, ReadAlike, outcome = "refused", ~touched
                PROVE  FALSE
    BY DEF BootsWhatItChecked
  <2>. DEFINE tool == Tool!ValidateProject(dir)
              server == Server!Load(dir).errors
  <2>1. tool = {} /\ server # {} BY Zenon DEF CheckedInv
  <2>2. Agree(tool, server) BY AgreeWhenAlike
  <2>. HIDE DEF tool, server
  <2>3. \A x : x \notin tool \cap server BY <2>1
  <2>4. tool = server BY <2>2, <2>3, Zenon DEF Agree
  <2>. QED BY <2>1, <2>4
<1>2. Spec => []CheckedInv
  BY CheckedInit, CheckedNext, ServeInvariant, PTL DEF Spec
<1>. QED
  BY <1>1, <1>2, PTL

-----------------------------------------------------------------------------
(* What the loader accepted: the parts of an endpoint without findings     *)

\* A set of decoded values: it holds whatever a list or a mapping of its own holds.
Trees(V) ==
  /\ Nil \in V
  /\ \A v \in V : IsStr(v) => v = Str(v[2])
  /\ \A v \in V : IsList(v) => v[2] \in Seq(V)
  /\ \A v \in V : IsMap(v) => \A key \in DOMAIN v[2] : v[2][key] \in V

LEMMA TreeInside ==
  ASSUME NEW V, Trees(V), NEW v \in V
  PROVE  /\ \A key : At(v, key) \in V
         /\ Items(v) \in Seq(V)
         /\ \A i \in DOMAIN Items(v) : Items(v)[i] \in V
         /\ IsStr(v) => v = Str(v[2])
<1>1. ASSUME NEW key PROVE At(v, key) \in V
  BY DEF Trees, At, Has
<1>2. Items(v) \in Seq(V)
  BY DEF Trees, Items
<1>3. \A i \in DOMAIN Items(v) : Items(v)[i] \in V
  BY <1>2
<1>4. IsStr(v) => v = Str(v[2])
  BY DEF Trees
<1>. QED BY <1>1, <1>2, <1>3, <1>4

(* The compiler writes values and their bounds as the rules do.            *)
LEMMA SameValues ==
  /\ \A n : Server!Int_(n) = Int_(n)
  /\ \A b : Server!Bool(b) = Bool(b)
  /\ Server!MinInt32 = MinInt32 /\ Server!MinInt64 = MinInt64
BY Zenon DEF Server!Int_, Int_, Server!Bool, Bool, Server!MinInt32, MinInt32, Server!MinInt64, MinInt64

(* What a param without findings is.                                       *)
LEMMA ParamPasses ==
  ASSUME NEW V, Trees(V), NEW p \in V, NEW i, Server!ParamErrors(p, i) = {}
  PROVE  /\ SafeIdent(At(p, "name"))
         /\ At(p, "type") \in {Str(t) : t \in {"string", "integer", "date", "boolean", "enum"}}
         /\ At(p, "default") # Nil => Server!ValidDefault(p, At(p, "default"))
         /\ At(p, "aliases") # Nil => IsMap(At(p, "aliases"))
         /\ IsMap(At(p, "aliases")) =>
              \A k \in DOMAIN At(p, "aliases")[2] : IsStr(At(p, "aliases")[2][k])
<1>. DEFINE d == At(p, "default")
            a == At(p, "aliases")
            n == At(p, "name")
            name == Server!Flag(~Server!SafeIdent(Server!At(p, "name")), "params", i, "name", "unsafe_identifier")
            default == Server!Flag(Server!At(p, "default") # Server!Nil
                                     /\ ~Server!ValidDefault(p, Server!At(p, "default")),
                                   "params", i, "default", "invalid_default")
            aliases == IF Server!IsMap(Server!At(p, "aliases"))
                       THEN Server!AliasesErr(p, Server!At(p, "aliases"), i)
                       ELSE Server!Flag(Server!At(p, "aliases") # Server!Nil, "params", i, "aliases", "invalid_type")
<1>1. name = {} /\ Server!TypeErr(p, i) = {} /\ default = {} /\ aliases = {}
  <2>1. Server!IsMap(p)
    BY DEF Server!ParamErrors
  <2>. QED BY <2>1 DEF Server!ParamErrors
<1>2. /\ Server!At(p, "name") = n /\ Server!At(p, "default") = d /\ Server!At(p, "aliases") = a
      /\ Server!Nil = Nil /\ Server!SafeIdent(n) = SafeIdent(n) /\ Server!IsMap(a) = IsMap(a)
  BY ServerReading, Zenon
<1>3. SafeIdent(n) BY <1>1, <1>2, FlagFree
<1>4. At(p, "type") \in {Str(t) : t \in {"string", "integer", "date", "boolean", "enum"}}
  <2>1. CASE At(p, "type") = Str("enum") BY <2>1
  <2>2. CASE At(p, "type") # Str("enum")
    <3>1. Server!At(p, "type") = At(p, "type") /\ Server!Str("enum") = Str("enum")
      BY ServerReading, Zenon
    <3>2. Server!IsOneOf(At(p, "type"), {"string", "integer", "date", "boolean"})
      BY <1>1, <2>2, <3>1 DEF Server!TypeErr
    <3>3. IsOneOf(At(p, "type"), {"string", "integer", "date", "boolean"})
      BY <3>2, ServerReading, Zenon
    <3>4. At(p, "type") = Str(At(p, "type")[2])
      BY <3>3, TreeInside DEF IsOneOf
    <3>. QED BY <3>3, <3>4 DEF IsOneOf
  <2>. QED BY <2>1, <2>2
<1>5. d # Nil => Server!ValidDefault(p, d)
  <2>. HIDE DEF d
  <2>. QED BY <1>1, <1>2, FlagFree
<1>6. a # Nil => IsMap(a)
  <2>. HIDE DEF a
  <2>. QED BY <1>1, <1>2, FlagFree
<1>7. IsMap(a) => \A k \in DOMAIN a[2] : IsStr(a[2][k])
  <2>. SUFFICES ASSUME IsMap(a), NEW k \in DOMAIN a[2] PROVE IsStr(a[2][k])
    OBVIOUS
  <2>. HIDE DEF a
  <2>1. Server!AliasesErr(p, a, i) = {} BY <1>1, <1>2
  <2>2. Server!Flag(\E v \in {a[2][m] : m \in DOMAIN a[2]} : ~Server!IsStr(v),
                    "params", i, "aliases", "invalid_type") = {}
    BY <2>1 DEF Server!AliasesErr
  <2>3. ~\E v \in {a[2][m] : m \in DOMAIN a[2]} : ~Server!IsStr(v)
    BY <2>2, FlagFree
  <2>4. Server!IsStr(a[2][k]) BY <2>3
  <2>. QED BY <2>4, ServerReading
<1>. QED BY <1>3, <1>4, <1>5, <1>6, <1>7

LEMMA ColumnPasses ==
  ASSUME NEW col, NEW ds, NEW parent, NEW i, Server!ColumnInDataset(col, ds, parent, i) = {}
  PROVE  IsStr(col) /\ SafeColumn(col) /\ col[2] \in DOMAIN ds.types
<1>1. Server!SafeColumn(col) = SafeColumn(col) /\ Server!IsStr(col) = IsStr(col)
  BY ServerReading, Zenon
<1>2. SafeColumn(col) BY <1>1 DEF Server!ColumnInDataset
<1>3. Server!ColumnType(ds, col) # {}
  <2>1. Server!Flag(Server!ColumnType(ds, col) = {}, parent, i, "column", "unknown_column") = {}
    BY <1>1, <1>2 DEF Server!ColumnInDataset
  <2>. QED BY <2>1, FlagFree
<1>. QED BY <1>1, <1>2, <1>3, KindsApart DEF Server!ColumnType

(* What a filter without findings is.                                      *)
LEMMA FilterPasses ==
  ASSUME NEW f, NEW i, NEW ds, NEW types, Server!FilterErrors(f, i, ds, types) = {}
  PROVE  /\ IsMap(f)
         /\ IsStr(At(f, "column")) /\ SafeColumn(At(f, "column"))
         /\ At(f, "column")[2] \in DOMAIN ds.types
         /\ IsStr(At(f, "param")) /\ At(f, "param") \in DOMAIN types
         /\ Server!FitsFilter(types[At(f, "param")], ds.types[At(f, "column")[2]])
<1>. DEFINE col == Server!At(f, "column")
            param == Server!At(f, "param")
            declared == Server!IsStr(param) /\ param \in DOMAIN types
<1>1. Server!IsMap(f) BY DEF Server!FilterErrors
<1>2. /\ Server!ColumnInDataset(col, ds, "query.filters", i) = {}
      /\ Server!Flag(~declared, "query.filters", i, "param", "unknown_param") = {}
      /\ Server!Flag(declared /\ \E ctype \in Server!ColumnType(ds, col) : ~Server!FitsFilter(types[param], ctype),
                     "query.filters", i, "param", "incompatible_filter") = {}
  BY <1>1 DEF Server!FilterErrors
<1>3. IsStr(col) /\ SafeColumn(col) /\ col[2] \in DOMAIN ds.types
  BY <1>2, ColumnPasses
<1>. HIDE DEF col, param
<1>4. declared BY <1>2, FlagFree
<1>5. ~(declared /\ \E ctype \in Server!ColumnType(ds, col) : ~Server!FitsFilter(types[param], ctype))
  BY <1>2, FlagFree
<1>6. Server!ColumnType(ds, col) = {ds.types[col[2]]}
  <2>1. Server!IsStr(col) BY <1>3, ServerReading
  <2>. QED BY <1>3, <2>1 DEF Server!ColumnType
<1>7. Server!FitsFilter(types[param], ds.types[col[2]])
  BY <1>4, <1>5, <1>6
<1>8. col = At(f, "column") /\ param = At(f, "param") /\ IsMap(f) /\ IsStr(param)
  BY <1>1, <1>4, ServerReading DEF col, param
<1>. QED BY <1>3, <1>4, <1>7, <1>8

(* What a query without findings is.                                       *)
LEMMA QueryPasses ==
  ASSUME NEW q, NEW ds, NEW types, NEW selectAs, Server!QueryErrors(q, ds, types, selectAs) = {}
  PROVE  LET selects == Items(At(q, "select"))
             filters == Items(At(q, "filters"))
             orders == Items(At(q, "order_by"))
         IN  /\ ~Server!Duplicates(selectAs)
             /\ \A i \in DOMAIN selects : Server!SelectErrors(selects[i], i, ds) = {}
             /\ Server!GroupByErrors(Server!GroupBy(q), selects, selectAs) = {}
             /\ \A i \in DOMAIN filters : Server!FilterErrors(filters[i], i, ds, types) = {}
             /\ \A i \in DOMAIN orders : Server!OrderErrors(orders[i], i, selectAs) = {}
<1>. DEFINE picked == Server!Items(Server!At(q, "select"))
            each == UNION {Server!SelectErrors(picked[i], i, ds) : i \in DOMAIN picked}
            twice == Server!Flag(Server!Duplicates(selectAs), "query", 0, "select", "duplicate_column")
            grouped == Server!GroupByErrors(Server!GroupBy(q), picked, selectAs)
            filtered == FiltersAtServer(Server!At(q, "filters"), ds, types)
            ordered == OrderAtServer(Server!At(q, "order_by"), selectAs)
<1>1. Server!QueryErrors(q, ds, types, selectAs) =
        IF ~Server!IsMap(q)
        THEN {<<Server!Top, 0, "query", "missing">>}
        ELSE Server!UnknownKeys(q, {"group_by", "select", "filters", "order_by"}, "query", 0)
             \cup (IF picked = <<>> THEN {<<"query", 0, "select", "missing">>} ELSE twice \cup each \cup grouped)
             \cup filtered \cup ordered
  BY Zenon DEF Server!QueryErrors, Server!EachOf, FiltersAtServer, OrderAtServer
<1>2. twice = {} /\ each = {} /\ grouped = {} /\ filtered = {} /\ ordered = {}
  <2>. HIDE DEF picked, each, twice, grouped, filtered, ordered
  <2>. QED BY <1>1
<1>3. ~Server!Duplicates(selectAs)
  BY <1>2, FlagFree
<1>4. /\ \A i \in DOMAIN picked : Server!SelectErrors(picked[i], i, ds) = {}
      /\ picked = Items(At(q, "select"))
  <2>1. picked = Items(At(q, "select")) BY ServerReading, Zenon
  <2>. HIDE DEF picked
  <2>. QED BY <1>2, <2>1
<1>5. \A v : Server!IsList(v) = IsList(v) /\ Server!Nil = Nil
  BY ServerReading, Zenon
<1>6. ASSUME NEW v, FiltersAtServer(v, ds, types) = {}
      PROVE  \A i \in DOMAIN Items(v) : Server!FilterErrors(Items(v)[i], i, ds, types) = {}
  <2>1. CASE IsList(v)
    <3>1. v # Nil /\ Items(v) = v[2] BY <2>1, KindsApart
    <3>2. (UNION {Server!FilterErrors(v[2][i], i, ds, types) : i \in DOMAIN v[2]}) = {}
      BY <1>5, <1>6, <2>1, <3>1, Zenon DEF FiltersAtServer
    <3>. QED BY <3>1, <3>2
  <2>2. CASE ~IsList(v)
    BY <2>2, KindsApart, EmptyDomain
  <2>. QED BY <2>1, <2>2
<1>7. ASSUME NEW v, OrderAtServer(v, selectAs) = {}
      PROVE  \A i \in DOMAIN Items(v) : Server!OrderErrors(Items(v)[i], i, selectAs) = {}
  <2>1. CASE IsList(v)
    <3>1. v # Nil /\ Items(v) = v[2] BY <2>1, KindsApart
    <3>2. (UNION {Server!OrderErrors(v[2][i], i, selectAs) : i \in DOMAIN v[2]}) = {}
      BY <1>5, <1>7, <2>1, <3>1, Zenon DEF OrderAtServer
    <3>. QED BY <3>1, <3>2
  <2>2. CASE ~IsList(v)
    BY <2>2, KindsApart, EmptyDomain
  <2>. QED BY <2>1, <2>2
<1>8. /\ \A i \in DOMAIN Items(At(q, "filters")) :
           Server!FilterErrors(Items(At(q, "filters"))[i], i, ds, types) = {}
      /\ \A i \in DOMAIN Items(At(q, "order_by")) :
           Server!OrderErrors(Items(At(q, "order_by"))[i], i, selectAs) = {}
  <2>1. Server!At(q, "filters") = At(q, "filters") /\ Server!At(q, "order_by") = At(q, "order_by")
    BY ServerReading, Zenon
  <2>2. FiltersAtServer(At(q, "filters"), ds, types) = {} /\ OrderAtServer(At(q, "order_by"), selectAs) = {}
    BY <1>2, <2>1
  <2>. QED BY <1>6, <1>7, <2>2
<1>9. Server!GroupByErrors(Server!GroupBy(q), Items(At(q, "select")), selectAs) = {}
  BY <1>2, <1>4
<1>. HIDE DEF picked
<1>. QED BY <1>3, <1>4, <1>8, <1>9

(* What an endpoint without findings is.                                   *)
LEMMA EndpointPasses ==
  ASSUME NEW raw, NEW ds, Server!EndpointErrors(raw, ds) = {}
  PROVE  LET params == Items(At(raw, "params"))
             q == At(raw, "query")
             selectAs == Names(Items(At(q, "select")), "as")
         IN  /\ \A i \in DOMAIN params : Server!ParamErrors(params[i], i) = {}
             /\ ~Server!Duplicates(Names(params, "name"))
             /\ Server!DefaultRangeErrors(params, Items(At(q, "filters")), ds) = {}
             /\ Server!QueryErrors(q, ds, Server!ParamTypesOf(params), selectAs) = {}
             /\ Server!ColumnsErrors(At(raw, "columns"), selectAs) = {}
<1>. DEFINE params == Items(At(raw, "params"))
            names == Names(params, "name")
            q == At(raw, "query")
            selectAs == Names(Items(At(q, "select")), "as")
            ranges == Server!DefaultRangeErrors(params, Items(At(q, "filters")), ds)
            queried == Server!QueryErrors(q, ds, Server!ParamTypesOf(params), selectAs)
            listed == Server!ColumnsErrors(At(raw, "columns"), selectAs)
            twice == Server!Flag(Server!Duplicates(names), Top, 0, "params", "duplicate_param")
            each == EachParamAtServer(At(raw, "params"))
<1>1. each = {} /\ twice = {} /\ ranges = {} /\ queried = {} /\ listed = {}
  BY ServerEndpoint
<1>2. \A i \in DOMAIN params : Server!ParamErrors(params[i], i) = {}
  <2>1. (UNION {Server!ParamErrors(params[i], i) : i \in DOMAIN params}) = {}
    BY <1>1, EachParam
  <2>. HIDE DEF params
  <2>. QED BY <2>1
<1>3. ~Server!Duplicates(names)
  BY <1>1, FlagFree
<1>. QED BY <1>1, <1>2, <1>3

(* A param's declared type is that of the only param of its name.          *)
LEMMA DeclaredOnce ==
  ASSUME NEW V, NEW params \in Seq(V), ~Server!Duplicates(Names(params, "name")),
         NEW i \in DOMAIN params, IsStr(At(params[i], "name"))
  PROVE  Server!ParamTypesOf(params)[At(params[i], "name")] = At(params[i], "type")
<1>. DEFINE v == At(params[i], "name")
            names == Names(params, "name")
            last == CHOOSE j \in DOMAIN params :
                      /\ At(params[j], "name") = v
                      /\ \A k \in DOMAIN params : k > j => At(params[k], "name") # v
<1>1. \A j \in DOMAIN params : At(params[j], "name") = v => j = i
  <2>. SUFFICES ASSUME NEW j \in DOMAIN params, At(params[j], "name") = v PROVE j = i
    OBVIOUS
  <2>1. i \in DOMAIN names /\ j \in DOMAIN names /\ names[i] = v /\ names[j] = v
    BY DEF Names
  <2>2. ~Server!Duplicates(names) OBVIOUS
  <2>. HIDE DEF names
  <2>. QED BY <2>1, <2>2 DEF Server!Duplicates
<1>2. /\ At(params[i], "name") = v
      /\ \A k \in DOMAIN params : k > i => At(params[k], "name") # v
  <2>1. i \in Nat OBVIOUS
  <2>. QED BY <1>1, <2>1
<1>3. last \in DOMAIN params /\ At(params[last], "name") = v
  <2>. HIDE DEF v
  <2>. QED BY <1>2, Zenon
<1>4. last = i BY <1>1, <1>3
<1>5. Tool!Declares(params, v) BY ToolReading DEF Tool!Declares
<1>6. Tool!ParamType(params, v) = At(params[last], "type")
  BY <1>5, Zenon DEF Tool!ParamType, Tool!At, At, Tool!Has, Has, Tool!IsMap, IsMap, Tool!Nil, Nil
<1>7. Tool!ParamType(params, v) = Server!ParamTypesOf(params)[v]
  BY <1>5, SameParamType
<1>. HIDE DEF last
<1>. QED BY <1>4, <1>6, <1>7

-----------------------------------------------------------------------------
(* What a value of a param is, and the columns it can be compared with     *)

(* What a value of a param can be compared with.  The two types are related*)
(* as the rules for filters ask.                                           *)
LEMMA TextBinds ==
  ASSUME NEW v, IsStr(v)
  PROVE  Binds(v, "VARCHAR")
BY DEF Binds

LEMMA Aliased ==
  ASSUME NEW p, NEW v, IsStr(v),
         IsMap(At(p, "aliases")) => \A k \in DOMAIN At(p, "aliases")[2] : IsStr(At(p, "aliases")[2][k])
  PROVE  IsStr(Server!ApplyAliases(p, v))
<1>. DEFINE a == At(p, "aliases")
<1>1. Server!ApplyAliases(p, v) = IF Has(a, v[2]) THEN At(a, v[2]) ELSE v
  BY ServerReading, Zenon DEF Server!ApplyAliases
<1>2. Has(a, v[2]) => IsStr(At(a, v[2]))
  <2>. HIDE DEF a
  <2>1. IsMap(a) => \A k \in DOMAIN a[2] : IsStr(a[2][k])
    BY DEF a
  <2>. QED BY <2>1 DEF Has, At
<1>. QED BY <1>1, <1>2

(* A param's default, of which the loader checked that it is a value of the*)
(* param's type and, of an integer, that it is in range.                   *)
LEMMA DefaultIs ==
  ASSUME NEW p, NEW filters, NEW ds,
         At(p, "default") # Nil => Server!ValidDefault(p, At(p, "default")),
         At(p, "type") = Str("integer") =>
           Server!IntegerOf(At(p, "default")) \subseteq Server!ParamRange(p, filters, ds),
         NEW v \in Server!Default(p)
  PROVE  /\ At(p, "type") = Str("string") => IsStr(v)
         /\ At(p, "type") = Str("date") => IsOneOf(v, IsoDates)
         /\ At(p, "type") = Str("integer") => \E n \in Server!ParamRange(p, filters, ds) : v = Int_(n)
         /\ At(p, "type") = Str("enum") => \E i \in DOMAIN Items(At(p, "enum")) : v = Items(At(p, "enum"))[i]
         /\ At(p, "type") = Str("boolean") => IsBool(v)
<1>. DEFINE d == At(p, "default")
            t == At(p, "type")
<1>1. /\ Server!At(p, "default") = d /\ Server!At(p, "type") = t
      /\ Server!Nil = Nil
      /\ Server!Str("string") = Str("string") /\ Server!Str("date") = Str("date")
      /\ Server!Str("integer") = Str("integer") /\ Server!Str("enum") = Str("enum")
      /\ Server!Str("boolean") = Str("boolean")
      /\ Server!IsStr(d) = IsStr(d) /\ Server!IsBool(d) = IsBool(d)
      /\ Server!IsOneOf(d, IsoDates) = IsOneOf(d, IsoDates)
      /\ Server!Items(Server!At(p, "enum")) = Items(At(p, "enum"))
      /\ \A n : Server!Int_(n) = Int_(n)
  BY ServerReading, SameValues, Zenon
<1>2. /\ Str("string") # Str("date") /\ Str("string") # Str("integer") /\ Str("string") # Str("enum")
      /\ Str("string") # Str("boolean") /\ Str("date") # Str("integer") /\ Str("date") # Str("enum")
      /\ Str("date") # Str("boolean") /\ Str("integer") # Str("enum") /\ Str("integer") # Str("boolean")
      /\ Str("enum") # Str("boolean")
  BY StrApart
<1>3. d # Nil
  <2>. HIDE DEF d
  <2>. QED BY <1>1 DEF Server!Default
<1>4. Server!ValidDefault(p, d) BY <1>3
<1>5. t # Str("integer") => v = d
  <2>. HIDE DEF d, t
  <2>. QED BY <1>1, <1>3 DEF Server!Default
<1>. HIDE DEF d, t
<1>6. ASSUME t = Str("string") PROVE IsStr(v)
  BY <1>1, <1>2, <1>4, <1>5, <1>6 DEF Server!ValidDefault
<1>7. ASSUME t = Str("date") PROVE IsOneOf(v, IsoDates)
  BY <1>1, <1>2, <1>4, <1>5, <1>7 DEF Server!ValidDefault
<1>8. ASSUME t = Str("boolean") PROVE IsBool(v)
  BY <1>1, <1>2, <1>4, <1>5, <1>8 DEF Server!ValidDefault
<1>9. ASSUME t = Str("enum") PROVE \E i \in DOMAIN Items(At(p, "enum")) : v = Items(At(p, "enum"))[i]
  <2>1. Server!Member(Items(At(p, "enum")), d)
    BY <1>1, <1>2, <1>4, <1>9 DEF Server!ValidDefault
  <2>. QED BY <1>2, <1>5, <1>9, <2>1 DEF Server!Member
<1>10. ASSUME t = Str("integer") PROVE \E n \in Server!ParamRange(p, filters, ds) : v = Int_(n)
  <2>1. PICK n \in Server!IntegerOf(d) : v = Int_(n)
    BY <1>1, <1>3, <1>10 DEF Server!Default
  <2>2. Server!IntegerOf(d) \subseteq Server!ParamRange(p, filters, ds)
    BY <1>10 DEF d, t
  <2>. QED BY <2>1, <2>2
<1>. QED BY <1>6, <1>7, <1>8, <1>9, <1>10 DEF t

(* What a value that was sent is bound as.                                 *)
LEMMA CoercedIs ==
  ASSUME NEW p, NEW raw, NEW filters, NEW ds,
         IsMap(At(p, "aliases")) => \A k \in DOMAIN At(p, "aliases")[2] : IsStr(At(p, "aliases")[2][k]),
         NEW v \in Server!Coerce(p, raw, filters, ds)
  PROVE  /\ At(p, "type") = Str("string") => IsStr(v)
         /\ At(p, "type") = Str("date") => IsOneOf(v, IsoDates)
         /\ At(p, "type") = Str("integer") => \E n \in Server!ParamRange(p, filters, ds) : v = Int_(n)
         /\ At(p, "type") = Str("enum") => IsStr(v)
         /\ At(p, "type") = Str("boolean") => IsBool(v)
<1>. DEFINE t == At(p, "type")
            aliased == Server!ApplyAliases(p, raw)
<1>1. /\ Server!At(p, "type") = t
      /\ \A s : Server!Str(s) = Str(s)
      /\ Server!IsStr(raw) = IsStr(raw)
      /\ \A n : Server!Int_(n) = Int_(n)
      /\ \A b : Server!Bool(b) = Bool(b)
  BY ServerReading, SameValues, Zenon
<1>2. /\ Str("string") # Str("date") /\ Str("string") # Str("integer") /\ Str("string") # Str("enum")
      /\ Str("string") # Str("boolean") /\ Str("date") # Str("integer") /\ Str("date") # Str("enum")
      /\ Str("date") # Str("boolean") /\ Str("integer") # Str("enum") /\ Str("integer") # Str("boolean")
      /\ Str("enum") # Str("boolean")
  BY StrApart
<1>3. IsStr(raw)
  <2>. HIDE DEF t
  <2>. QED BY <1>1 DEF Server!Coerce
<1>4. IsStr(aliased) BY <1>3, Aliased
<1>. HIDE DEF t, aliased
<1>5. ASSUME t = Str("string") PROVE IsStr(v)
  <2>1. v = aliased BY <1>1, <1>2, <1>3, <1>5 DEF Server!Coerce, aliased
  <2>. QED BY <1>4, <2>1
<1>6. ASSUME t = Str("enum") PROVE IsStr(v)
  <2>1. v = aliased BY <1>1, <1>2, <1>3, <1>6 DEF Server!Coerce, aliased
  <2>. QED BY <1>4, <2>1
<1>7. ASSUME t = Str("date") PROVE IsOneOf(v, IsoDates)
  <2>1. v \in {Str(d) : d \in IsoDates} BY <1>1, <1>2, <1>3, <1>7 DEF Server!Coerce
  <2>. QED BY <2>1 DEF IsOneOf, IsStr, Str
<1>8. ASSUME t = Str("boolean") PROVE IsBool(v)
  <2>1. \E b \in BOOLEAN : v = Bool(b) BY <1>1, <1>2, <1>3, <1>8 DEF Server!Coerce
  <2>. QED BY <2>1 DEF IsBool, Bool
<1>9. ASSUME t = Str("integer") PROVE \E n \in Server!ParamRange(p, filters, ds) : v = Int_(n)
  BY <1>1, <1>2, <1>3, <1>9 DEF Server!Coerce
<1>. QED BY <1>5, <1>6, <1>7, <1>8, <1>9 DEF t

LEMMA Ranges ==
  ASSUME NEW p, NEW filters, NEW ds, NEW n \in Server!ParamRange(p, filters, ds)
  PROVE  /\ n \in MinInt64 .. MaxInt64
         /\ \A j \in DOMAIN filters :
              (/\ IsMap(filters[j])
               /\ At(filters[j], "param") = At(p, "name")
               /\ Server!ColumnType(ds, At(filters[j], "column")) = {"INTEGER"})
              => n \in MinInt32 .. MaxInt32
<1>. DEFINE narrow == \E j \in DOMAIN filters :
                        /\ IsMap(filters[j])
                        /\ At(filters[j], "param") = At(p, "name")
                        /\ Server!ColumnType(ds, At(filters[j], "column")) = {"INTEGER"}
<1>1. Server!ParamRange(p, filters, ds) = IF narrow THEN MinInt32 .. MaxInt32 ELSE MinInt64 .. MaxInt64
  <2>1. narrow <=> \E j \in DOMAIN filters :
                     /\ Server!IsMap(filters[j])
                     /\ Server!At(filters[j], "param") = Server!At(p, "name")
                     /\ Server!ColumnType(ds, Server!At(filters[j], "column")) = {"INTEGER"}
    BY ServerReading
  <2>. HIDE DEF narrow
  <2>. QED BY <2>1, SameValues DEF Server!ParamRange
<1>2. MinInt32 .. MaxInt32 \subseteq MinInt64 .. MaxInt64
  BY WidthAssumption DEF MinInt32, MinInt64
<1>3. n \in MinInt64 .. MaxInt64
  <2>. HIDE DEF narrow
  <2>. QED BY <1>1, <1>2
<1>4. narrow => n \in MinInt32 .. MaxInt32
  <2>. HIDE DEF narrow
  <2>. QED BY <1>1
<1>. QED BY <1>3, <1>4

(* A value of a type that fits a column's type can be bound to the column. *)
LEMMA FittingBinds ==
  ASSUME NEW t, t \in {Str(s) : s \in {"string", "integer", "date", "boolean", "enum"}},
         NEW ctype, Server!FitsFilter(t, ctype), NEW v,
         t = Str("string") => IsStr(v),
         t = Str("enum") => IsStr(v),
         t = Str("date") => IsOneOf(v, IsoDates),
         t = Str("boolean") => IsBool(v),
         t = Str("integer") => \E n \in MinInt64 .. MaxInt64 :
           v = Int_(n) /\ (ctype = "INTEGER" => n \in MinInt32 .. MaxInt32)
  PROVE  Binds(v, ctype)
<1>1. \A s : Server!Str(s) = Str(s) BY ServerReading, Zenon
<1>2. /\ Str("string") # Str("date") /\ Str("string") # Str("integer") /\ Str("string") # Str("enum")
      /\ Str("string") # Str("boolean") /\ Str("date") # Str("integer") /\ Str("date") # Str("enum")
      /\ Str("date") # Str("boolean") /\ Str("integer") # Str("enum") /\ Str("integer") # Str("boolean")
      /\ Str("enum") # Str("boolean")
  BY StrApart
<1>3. CASE t = Str("string") \/ t = Str("enum")
  <2>1. IsStr(v) BY <1>3
  <2>2. ctype = "VARCHAR" BY <1>1, <1>2, <1>3 DEF Server!FitsFilter
  <2>. QED BY <2>1, <2>2 DEF Binds
<1>4. CASE t = Str("date")
  <2>1. ctype \in {"DATE", "TIMESTAMP"} BY <1>1, <1>2, <1>4 DEF Server!FitsFilter
  <2>. QED BY <1>4, <2>1 DEF Binds
<1>5. CASE t = Str("boolean")
  <2>1. ctype = "BOOLEAN" BY <1>1, <1>2, <1>5 DEF Server!FitsFilter
  <2>. QED BY <1>5, <2>1 DEF Binds
<1>6. CASE t = Str("integer")
  <2>1. ctype \in {"INTEGER", "BIGINT", "DOUBLE"} BY <1>1, <1>2, <1>6 DEF Server!FitsFilter
  <2>2. PICK n \in MinInt64 .. MaxInt64 :
          v = Int_(n) /\ (ctype = "INTEGER" => n \in MinInt32 .. MaxInt32)
    BY <1>6
  <2>3. v[1] = "int" /\ v[2] = n BY <2>2 DEF Int_
  <2>4. CASE ctype = "INTEGER" BY <2>2, <2>3, <2>4 DEF Binds
  <2>5. CASE ctype \in {"BIGINT", "DOUBLE"} BY <2>2, <2>3, <2>5 DEF Binds
  <2>. QED BY <2>1, <2>4, <2>5
<1>. QED BY <1>3, <1>4, <1>5, <1>6

(* What the loader accepted of an endpoint (ep) whose dataset is ds.       *)
Served(V, ep, ds) ==
  /\ Trees(V)
  /\ \A key : At(ep, key) \in V
  /\ Server!EndpointErrors(ep, ds) = {}

(* The values that a filter's column is compared with are of its type.     *)
LEMMA FilterBinds ==
  ASSUME NEW V, NEW ep, NEW ds, Served(V, ep, ds), Textual(ep, ds), NEW request,
         NEW j \in DOMAIN Server!FilterList(ep), NEW i \in DOMAIN Server!ParamList(ep),
         At(Server!ParamList(ep)[i], "name") = At(Server!FilterList(ep)[j], "param"),
         NEW v \in Server!ValueOf(Server!ParamList(ep)[i], request, Server!FilterList(ep), ds)
  PROVE  Binds(v, ds.types[At(Server!FilterList(ep)[j], "column")[2]])
<1>. DEFINE params == Items(At(ep, "params"))
            filters == Items(At(At(ep, "query"), "filters"))
            types == Server!ParamTypesOf(params)
            p == params[i]
            f == filters[j]
            t == At(p, "type")
            ctype == ds.types[At(f, "column")[2]]
<1>1. Server!ParamList(ep) = params /\ Server!FilterList(ep) = filters
  BY ServerReading, Zenon DEF Server!ParamList, Server!FilterList
<1>2. params \in Seq(V) /\ p \in V
  <2>1. At(ep, "params") \in V BY DEF Served
  <2>. QED BY <1>1, <2>1, TreeInside DEF Served
<1>3. Server!ParamErrors(p, i) = {} /\ ~Server!Duplicates(Names(params, "name"))
  BY <1>1, EndpointPasses DEF Served
<1>4. Server!FilterErrors(f, j, ds, types) = {}
  BY <1>1, EndpointPasses, QueryPasses DEF Served
<1>5. t = Str("integer") => Server!IntegerOf(At(p, "default")) \subseteq Server!ParamRange(p, filters, ds)
  <2>1. Server!DefaultRangeErrors(params, filters, ds) = {}
    BY EndpointPasses DEF Served
  <2>. DEFINE wide(k) == /\ Server!At(params[k], "type") = Server!Str("integer")
                         /\ ~(Server!IntegerOf(Server!At(params[k], "default"))
                              \subseteq Server!ParamRange(params[k], filters, ds))
              found(k) == Server!Flag(wide(k), "params", k, "default", "invalid_default")
  <2>2. (UNION {found(k) : k \in DOMAIN params}) = {}
    BY <2>1, Zenon DEF Server!DefaultRangeErrors
  <2>3. found(i) = {}
    <3>1. i \in DOMAIN params BY <1>1
    <3>. HIDE DEF params, found
    <3>. QED BY <2>2, <3>1
  <2>4. ~wide(i) BY <2>3, FlagFree
  <2>5. Server!At(p, "type") = t /\ Server!At(p, "default") = At(p, "default") /\ Server!Str("integer") = Str("integer")
    BY ServerReading, Zenon
  <2>. QED BY <2>4, <2>5
<1>. HIDE DEF params, filters, types
<1>6. /\ SafeIdent(At(p, "name"))
      /\ t \in {Str(s) : s \in {"string", "integer", "date", "boolean", "enum"}}
      /\ At(p, "default") # Nil => Server!ValidDefault(p, At(p, "default"))
      /\ IsMap(At(p, "aliases")) => \A k \in DOMAIN At(p, "aliases")[2] : IsStr(At(p, "aliases")[2][k])
  BY <1>2, <1>3, ParamPasses DEF Served
<1>7. /\ IsMap(f) /\ IsStr(At(f, "column")) /\ At(f, "column")[2] \in DOMAIN ds.types
      /\ Server!FitsFilter(types[At(f, "param")], ctype)
  BY <1>4, FilterPasses
<1>8. types[At(f, "param")] = t
  <2>1. IsStr(At(p, "name")) BY <1>6, KindsApart
  <2>2. i \in DOMAIN params /\ At(p, "name") = At(f, "param") BY <1>1
  <2>. QED BY <1>2, <1>3, <2>1, <2>2, DeclaredOnce DEF types
<1>9. Server!ColumnType(ds, At(f, "column")) = {ctype}
  BY <1>7, ServerReading DEF Server!ColumnType
<1>10. \A n \in Server!ParamRange(p, filters, ds) :
         n \in MinInt64 .. MaxInt64 /\ (ctype = "INTEGER" => n \in MinInt32 .. MaxInt32)
  <2>1. j \in DOMAIN filters /\ At(f, "param") = At(p, "name") BY <1>1
  <2>. QED BY <1>7, <1>9, <2>1, Ranges
<1>11. t = Str("enum") => \A k \in DOMAIN Items(At(p, "enum")) : IsStr(Items(At(p, "enum"))[k])
  <2>1. p \in Elements(Server!ParamList(ep)) BY <1>1 DEF Elements
  <2>. QED BY <2>1 DEF Textual, Elements
<1>12. /\ t = Str("string") => IsStr(v)
       /\ t = Str("date") => IsOneOf(v, IsoDates)
       /\ t = Str("integer") => \E n \in Server!ParamRange(p, filters, ds) : v = Int_(n)
       /\ t = Str("enum") => IsStr(v)
       /\ t = Str("boolean") => IsBool(v)
  <2>0. v \in Server!ValueOf(p, request, filters, ds) BY <1>1
  <2>1. CASE Server!Sent(p, request)
    <3>1. v \in Server!Coerce(p, request[Server!At(p, "name")[2]], filters, ds)
      BY <2>0, <2>1 DEF Server!ValueOf
    <3>. HIDE DEF p
    <3>. QED BY <1>6, <3>1, CoercedIs
  <2>2. CASE ~Server!Sent(p, request)
    <3>1. v \in Server!Default(p) BY <2>0, <2>2 DEF Server!ValueOf
    <3>. HIDE DEF p
    <3>2. /\ t = Str("string") => IsStr(v)
          /\ t = Str("date") => IsOneOf(v, IsoDates)
          /\ t = Str("integer") => \E n \in Server!ParamRange(p, filters, ds) : v = Int_(n)
          /\ t = Str("enum") => \E k \in DOMAIN Items(At(p, "enum")) : v = Items(At(p, "enum"))[k]
          /\ t = Str("boolean") => IsBool(v)
      BY <1>5, <1>6, <3>1, DefaultIs
    <3>. QED BY <1>11, <3>2
  <2>. QED BY <2>1, <2>2
<1>. HIDE DEF p, f, t, ctype
<1>13. Binds(v, ctype)
  BY <1>6, <1>7, <1>8, <1>10, <1>12, FittingBinds
<1>. QED BY <1>1, <1>13 DEF ctype, f

-----------------------------------------------------------------------------
(* What a plan computes and returns                                        *)

LEMMA NothingLacks ==
  ASSUME NEW a, NEW b, IsFiniteSet(DOMAIN a), ~Server!Difference(a, b), NEW i \in DOMAIN a
  PROVE  \E j \in DOMAIN b : b[j] = a[i]
<1>. DEFINE held == {j \in DOMAIN a : a[j] = a[i]}
            known == {j \in DOMAIN b : b[j] = a[i]}
<1>1. ~(Cardinality(held) > Cardinality(known))
  BY SameCount DEF Server!Difference
<1>2. Cardinality(held) > 0
  <2>1. IsFiniteSet(held)
    <3>1. held \subseteq DOMAIN a OBVIOUS
    <3>. QED BY <3>1, FS_Subset
  <2>2. i \in held OBVIOUS
  <2>3. Cardinality(held) \in Nat /\ Cardinality(held) # 0
    BY <2>1, <2>2, FS_CardinalityType, FS_EmptySet
  <2>. QED BY <2>3
<1>3. known # {}
  <2>1. Cardinality({}) = 0 BY FS_EmptySet
  <2>. HIDE DEF held, known
  <2>. QED BY <1>1, <1>2, <2>1
<1>. QED BY <1>3

LEMMA PlacesAreFinite ==
  ASSUME NEW V, NEW list \in Seq(V), NEW places \in SUBSET DOMAIN list
  PROVE  IsFiniteSet(places)
<1>1. IsFiniteSet(1 .. Len(list)) BY FS_Interval
<1>2. places \subseteq 1 .. Len(list) OBVIOUS
<1>. QED BY <1>1, <1>2, FS_Subset

LEMMA SelectPasses ==
  ASSUME NEW s, NEW i, NEW ds, Server!SelectErrors(s, i, ds) = {}
  PROVE  IsStr(At(s, "as"))
<1>1. Server!IsMap(s) BY DEF Server!SelectErrors
<1>2. Server!Flag(~Server!SafeColumn(Server!At(s, "as")), "query.select", i, "as", "unsafe_identifier") = {}
  BY <1>1 DEF Server!SelectErrors
<1>3. SafeColumn(At(s, "as")) BY <1>2, FlagFree, ServerReading
<1>. QED BY <1>3 DEF SafeColumn

LEMMA OrderPasses ==
  ASSUME NEW o, NEW i, NEW selectAs, Server!OrderErrors(o, i, selectAs) = {}
  PROVE  \E j \in DOMAIN selectAs : selectAs[j] = At(o, "column")
<1>1. Server!IsMap(o) BY DEF Server!OrderErrors
<1>2. Server!Flag(~(Server!IsStr(Server!At(o, "column")) /\ Server!Member(selectAs, Server!At(o, "column"))),
                  "query.order_by", i, "column", "unknown_column") = {}
  BY <1>1 DEF Server!OrderErrors
<1>3. Server!Member(selectAs, Server!At(o, "column")) BY <1>2, FlagFree
<1>4. Server!At(o, "column") = At(o, "column") BY ServerReading
<1>. QED BY <1>3, <1>4, Zenon DEF Server!Member

(* An output's name finds the output.                                      *)
LEMMA FoundSelect ==
  ASSUME NEW ep, ~Server!Duplicates(Names(Server!Selects(ep), "as")),
         NEW j \in DOMAIN Server!Selects(ep), IsStr(At(Server!Selects(ep)[j], "as"))
  PROVE  Server!FindSelect(ep, At(Server!Selects(ep)[j], "as")) = j
<1>. DEFINE selects == Server!Selects(ep)
            as == At(selects[j], "as")
            names == Names(selects, "as")
            found == CHOOSE i \in DOMAIN selects : At(selects[i], "as") = as
<1>1. Server!FindSelect(ep, as) = found
  BY ServerReading, Zenon DEF Server!FindSelect
<1>2. found \in DOMAIN selects /\ At(selects[found], "as") = as
  <2>1. j \in DOMAIN selects /\ At(selects[j], "as") = as OBVIOUS
  <2>. HIDE DEF as, selects
  <2>. QED BY <2>1, Zenon
<1>3. \A i \in DOMAIN selects : At(selects[i], "as") = as => i = j
  <2>. SUFFICES ASSUME NEW i \in DOMAIN selects, At(selects[i], "as") = as PROVE i = j
    OBVIOUS
  <2>1. i \in DOMAIN names /\ j \in DOMAIN names /\ names[i] = as /\ names[j] = as
    <3>. HIDE DEF selects
    <3>. QED BY DEF Names, selects
  <2>2. ~Server!Duplicates(names) OBVIOUS
  <2>. HIDE DEF names
  <2>. QED BY <2>1, <2>2 DEF Server!Duplicates
<1>. HIDE DEF found, selects
<1>. QED BY <1>1, <1>2, <1>3 DEF selects

(* A query that groups or aggregates groups by every output that it does   *)
(* not aggregate.                                                          *)
LEMMA PlainIsGrouped ==
  ASSUME NEW V, NEW q, NEW selects \in Seq(V), NEW selectAs,
         Server!GroupByErrors(Server!GroupBy(q), selects, selectAs) = {},
         \/ Server!Items(Server!GroupBy(q)) # <<>>
         \/ \E i \in DOMAIN selects : At(selects[i], "agg") # Nil,
         NEW j \in DOMAIN selects, At(selects[j], "agg") = Nil, IsStr(At(selects[j], "as"))
  PROVE  \E i \in DOMAIN Server!Items(Server!GroupBy(q)) :
            Server!Items(Server!GroupBy(q))[i] = At(selects[j], "as")
<1>. DEFINE g == Server!GroupBy(q)
            hasAgg == \E i \in DOMAIN selects : At(selects[i], "agg") # Nil
            missing == Server!Flag(hasAgg, "query", 0, "group_by", "missing_group_by")
            left == Server!Flag(Server!Difference(Plainly(selects), g[2]), "query", 0, "group_by", "ungrouped_column")
<1>1. (\E i \in DOMAIN selects : Server!At(selects[i], "agg") # Server!Nil) <=> hasAgg
  BY ServerReading
<1>2. Server!Names([i \in {k \in DOMAIN selects : Server!At(selects[k], "agg") = Server!Nil} |-> selects[i]], "as")
        = Plainly(selects)
  <2>1. {k \in DOMAIN selects : Server!At(selects[k], "agg") = Server!Nil}
          = {k \in DOMAIN selects : At(selects[k], "agg") = Nil}
    BY ServerReading
  <2>. QED BY <2>1, NamesRead, Zenon DEF Plainly
<1>3. Server!IsList(g) /\ Server!Items(g) = g[2]
  <2>1. Server!IsList(g)
    <3>. HIDE DEF g
    <3>. QED BY DEF Server!GroupByErrors, g
  <2>. QED BY <2>1, Zenon DEF Server!Items
<1>. HIDE DEF hasAgg
<1>4. g[2] # <<>>
  <2>. SUFFICES ASSUME g[2] = <<>> PROVE FALSE OBVIOUS
  <2>1. Server!GroupByErrors(g, selects, selectAs) = missing
    BY <1>1, <1>3, Zenon DEF Server!GroupByErrors, Server!Flag
  <2>2. ~hasAgg BY <2>1, FlagFree
  <2>. QED BY <1>3, <2>2 DEF hasAgg
<1>5. ~Server!Difference(Plainly(selects), g[2])
  <2>1. Server!GroupByErrors(g, selects, selectAs) =
          Server!Flag(\E i \in DOMAIN g[2] : ~Server!Member(selectAs, g[2][i]),
                      "query", 0, "group_by", "unknown_column")
          \cup left
    BY <1>2, <1>3, <1>4, Zenon DEF Server!GroupByErrors
  <2>2. left = {}
    <3>. HIDE DEF left
    <3>. QED BY <2>1
  <2>. QED BY <2>2, FlagFree
<1>6. j \in DOMAIN Plainly(selects) /\ Plainly(selects)[j] = At(selects[j], "as")
  BY DEF Plainly, Names
<1>7. IsFiniteSet(DOMAIN Plainly(selects))
  <2>1. DOMAIN Plainly(selects) \subseteq DOMAIN selects BY DEF Plainly, Names
  <2>. QED BY <2>1, PlacesAreFinite
<1>. HIDE DEF g
<1>8. \E i \in DOMAIN g[2] : g[2][i] = Plainly(selects)[j]
  BY <1>5, <1>6, <1>7, NothingLacks
<1>. QED BY <1>3, <1>6, <1>8 DEF g

LEMMA ColumnsPass ==
  ASSUME NEW cols, NEW selectAs, Server!ColumnsErrors(cols, selectAs) = {}
  PROVE  ~Server!Difference(selectAs, Items(cols))
<1>1. Server!Items(cols) = Items(cols) BY ServerReading, Zenon
<1>2. Items(cols) # <<>> BY <1>1, Zenon DEF Server!ColumnsErrors
<1>3. Server!Flag(Server!Difference(selectAs, cols[2]), Top, 0, "columns", "column_not_allowlisted") = {}
  <2>1. Server!Top = Top BY ServerReading, Zenon
  <2>. DEFINE extra == Server!Flag(Server!Difference(cols[2], selectAs), Top, 0, "columns", "column_not_selected")
              left == Server!Flag(Server!Difference(selectAs, cols[2]), Top, 0, "columns", "column_not_allowlisted")
  <2>2. Server!ColumnsErrors(cols, selectAs) = extra \cup left
    BY <1>1, <1>2, <2>1, Zenon DEF Server!ColumnsErrors
  <2>. HIDE DEF extra, left
  <2>3. left = {} BY <2>2
  <2>. QED BY <2>3 DEF left
<1>4. Items(cols) = cols[2] BY <1>2, Zenon DEF Items
<1>. QED BY <1>3, <1>4, FlagFree

(* What a plan computes is an output of the endpoint's query.              *)
LEMMA OutputsSound ==
  ASSUME NEW V, NEW ep, NEW ds, Served(V, ep, ds), NEW request
  PROVE  LET plan == Server!Build(ep, request, Str("acme"), ds)
             computed == Elements(plan.select) \cup Elements(plan.order)
             grouped == plan.group # <<>> \/ \E s \in computed : At(s, "agg") # Nil
         IN  /\ grouped => \A s \in computed :
                  At(s, "agg") = Nil => At(s, "column")[2] \in Elements(plan.group)
             /\ {At(s, "as") : s \in Elements(plan.select)} \subseteq Elements(Items(At(ep, "columns")))
<1>. DEFINE q == At(ep, "query")
            selects == Items(At(q, "select"))
            selectAs == Names(selects, "as")
            orders == Items(At(q, "order_by"))
            by == Server!Items(Server!GroupBy(q))
            cols == Items(At(ep, "columns"))
            plan == Server!Build(ep, request, Str("acme"), ds)
            computed == Elements(plan.select) \cup Elements(plan.order)
<1>1. Server!Selects(ep) = selects /\ Server!At(ep, "query") = q
  BY ServerReading, Zenon DEF Server!Selects
<1>2. q \in V /\ selects \in Seq(V)
  <2>1. q \in V BY DEF Served
  <2>2. At(q, "select") \in V BY <2>1, TreeInside DEF Served
  <2>. QED BY <2>1, <2>2, TreeInside DEF Served
<1>3. /\ Server!QueryErrors(q, ds, Server!ParamTypesOf(Items(At(ep, "params"))), selectAs) = {}
      /\ Server!ColumnsErrors(At(ep, "columns"), selectAs) = {}
  BY EndpointPasses DEF Served
<1>4. /\ ~Server!Duplicates(selectAs)
      /\ \A i \in DOMAIN selects : Server!SelectErrors(selects[i], i, ds) = {}
      /\ Server!GroupByErrors(Server!GroupBy(q), selects, selectAs) = {}
      /\ \A i \in DOMAIN orders : Server!OrderErrors(orders[i], i, selectAs) = {}
  BY <1>3, QueryPasses
<1>5. \A i \in DOMAIN selects : IsStr(At(selects[i], "as"))
  BY <1>4, SelectPasses
<1>6. \A i \in DOMAIN selects : Server!FindSelect(ep, At(selects[i], "as")) = i
  BY <1>1, <1>4, <1>5, FoundSelect
<1>7. \A s \in Elements(plan.select) : \E i \in DOMAIN selects : s = selects[i]
  <2>1. plan.select = Server!SelectedItems(ep, request) BY DEF Server!Build
  <2>2. \A i \in DOMAIN Server!SelectedItems(ep, request) :
          i \in DOMAIN selects /\ Server!SelectedItems(ep, request)[i] = selects[i]
    <3>. HIDE DEF selects
    <3>. QED BY <1>1 DEF Server!SelectedItems
  <2>. HIDE DEF plan, selects
  <2>. QED BY <2>1, <2>2 DEF Elements
<1>8. \A s \in Elements(plan.order) : \E i \in DOMAIN selects : s = selects[i]
  <2>1. plan.order = Server!OrderBySql(ep) BY DEF Server!Build
  <2>2. Server!Items(Server!At(Server!At(ep, "query"), "order_by")) = orders
    BY ServerReading, Zenon
  <2>3. \A i \in DOMAIN orders : \E j \in DOMAIN selects : At(selects[j], "as") = At(orders[i], "column")
    <3>1. \A i \in DOMAIN orders : \E j \in DOMAIN selectAs : selectAs[j] = At(orders[i], "column")
      BY <1>4, OrderPasses
    <3>2. \A j \in DOMAIN selectAs : j \in DOMAIN selects /\ selectAs[j] = At(selects[j], "as")
      <4>. HIDE DEF selects
      <4>. QED BY DEF Names
    <3>. HIDE DEF selects, selectAs, orders
    <3>. QED BY <3>1, <3>2
  <2>4. \A i \in DOMAIN orders : Server!FindSelect(ep, At(orders[i], "column")) \in DOMAIN selects
    <3>. HIDE DEF selects, orders
    <3>. QED BY <1>6, <2>3
  <2>5. Server!OrderBySql(ep) =
          [i \in DOMAIN orders |-> selects[Server!FindSelect(ep, Server!At(orders[i], "column"))]]
    BY <1>1, <2>2, Zenon DEF Server!OrderBySql
  <2>6. \A i \in DOMAIN orders : Server!At(orders[i], "column") = At(orders[i], "column")
    BY ServerReading
  <2>. HIDE DEF plan, selects, orders
  <2>. QED BY <2>1, <2>4, <2>5, <2>6 DEF Elements
<1>9. \A s \in computed : \E i \in DOMAIN selects : s = selects[i]
  BY <1>7, <1>8
<1>10. plan.group = [i \in DOMAIN by |-> Server!At(selects[Server!FindSelect(ep, by[i])], "column")[2]]
  <2>1. plan.group = Server!GroupBySql(ep) BY DEF Server!Build
  <2>. QED BY <1>1, <2>1, Zenon DEF Server!GroupBySql
<1>. HIDE DEF plan, selects, by
<1>11. plan.group # <<>> => by # <<>>
  <2>1. [i \in DOMAIN <<>> |-> Server!At(selects[Server!FindSelect(ep, <<>>[i])], "column")[2]] = <<>>
    OBVIOUS
  <2>. QED BY <1>10, <2>1, Zenon
<1>12. ASSUME plan.group # <<>> \/ \E s \in computed : At(s, "agg") # Nil,
              NEW s \in computed, At(s, "agg") = Nil
       PROVE  At(s, "column")[2] \in Elements(plan.group)
  <2>1. by # <<>> \/ \E i \in DOMAIN selects : At(selects[i], "agg") # Nil
    BY <1>9, <1>11, <1>12
  <2>2. PICK j \in DOMAIN selects : s = selects[j] BY <1>9
  <2>3. \E i \in DOMAIN by : by[i] = At(selects[j], "as")
    BY <1>2, <1>4, <1>5, <1>12, <2>1, <2>2, PlainIsGrouped DEF by
  <2>4. PICK i \in DOMAIN by : by[i] = At(selects[j], "as") BY <2>3
  <2>5. Server!FindSelect(ep, by[i]) = j BY <1>6, <2>4
  <2>6. plan.group[i] = At(selects[j], "column")[2]
    <3>1. plan.group[i] = Server!At(selects[Server!FindSelect(ep, by[i])], "column")[2]
      BY <1>10
    <3>2. Server!At(selects[j], "column") = At(selects[j], "column") BY ServerReading
    <3>. QED BY <2>5, <3>1, <3>2
  <2>. QED BY <1>10, <2>2, <2>6 DEF Elements
<1>13. ASSUME NEW s \in Elements(plan.select) PROVE At(s, "as") \in Elements(cols)
  <2>1. ~Server!Difference(selectAs, cols) BY <1>3, ColumnsPass
  <2>2. PICK j \in DOMAIN selects : s = selects[j] BY <1>7
  <2>3. j \in DOMAIN selectAs /\ selectAs[j] = At(s, "as")
    BY <1>5, <2>2 DEF Names
  <2>4. IsFiniteSet(DOMAIN selectAs)
    <3>1. DOMAIN selectAs \subseteq DOMAIN selects BY DEF Names
    <3>. QED BY <1>2, <3>1, PlacesAreFinite
  <2>. HIDE DEF selectAs, cols
  <2>5. \E i \in DOMAIN cols : cols[i] = selectAs[j]
    BY <2>1, <2>3, <2>4, NothingLacks
  <2>. QED BY <2>3, <2>5 DEF Elements
<1>14. {At(s, "as") : s \in Elements(plan.select)} \subseteq Elements(cols)
  <2>. HIDE DEF cols
  <2>. QED BY <1>13
<1>. HIDE DEF computed
<1>15. (plan.group # <<>> \/ \E s \in computed : At(s, "agg") # Nil) =>
         \A s \in computed : At(s, "agg") = Nil => At(s, "column")[2] \in Elements(plan.group)
  BY <1>12
<1>. QED BY <1>14, <1>15 DEF computed, plan

-----------------------------------------------------------------------------
(* What a plan compares                                                    *)

(* What the conditions of a plan compare: the tenant's column with the     *)
(* caller's tenant, and nothing else with that column; each filter's       *)
(* column with a value of its type.                                        *)
LEMMA ConditionsSound ==
  ASSUME NEW V, NEW ep, NEW ds, Served(V, ep, ds), Textual(ep, ds), NEW request
  PROVE  LET where == Server!Build(ep, request, Str("acme"), ds).where
             pinned == IF ds.tenant = Absent THEN {} ELSE {0}
         IN  /\ \A i \in DOMAIN where :
                  /\ Binds(where[i].value, ds.types[where[i].column])
                  /\ (where[i].column = ds.tenant) <=> (i \in pinned)
             /\ pinned \subseteq DOMAIN where
<1>. DEFINE params == Server!ParamList(ep)
            filters == Server!FilterList(ep)
            bound(f) == UNION {Server!ValueOf(params[i], request, filters, ds) :
                                 i \in {j \in DOMAIN params : Server!At(params[j], "name") = Server!At(f, "param")}}
            col == Server!At(Server!At(ep, "tenant"), "column")
            places == {i \in {0} : col # Server!Nil} \cup {i \in DOMAIN filters : bound(filters[i]) # {}}
            condition(i) ==
              IF i = 0
              THEN [column |-> col[2], op |-> "eq", value |-> Str("acme")]
              ELSE [column |-> Server!At(filters[i], "column")[2], op |-> Server!At(filters[i], "op")[2],
                    value |-> CHOOSE v \in bound(filters[i]) : TRUE]
            where == Server!Build(ep, request, Str("acme"), ds).where
            pinned == IF ds.tenant = Absent THEN {} ELSE {0}
<1>1. where = [i \in places |-> condition(i)]
  <2>1. where = Server!Where(ep, request, Str("acme"), ds) BY DEF Server!Build
  <2>2. Server!Where(ep, request, Str("acme"), ds) = [i \in places |-> condition(i)]
    BY Zenon DEF Server!Where
  <2>. QED BY <2>1, <2>2
<1>2. filters \in Seq(V) /\ filters = Items(At(At(ep, "query"), "filters"))
  <2>1. filters = Items(At(At(ep, "query"), "filters")) BY ServerReading, Zenon DEF Server!FilterList
  <2>2. At(ep, "query") \in V BY DEF Served
  <2>3. At(At(ep, "query"), "filters") \in V BY <2>2, TreeInside DEF Served
  <2>. QED BY <2>1, <2>3, TreeInside DEF Served
<1>3. 0 \notin DOMAIN filters BY <1>2
<1>4. /\ ds.tenant = Absent => At(ep, "tenant") = Nil
      /\ ds.tenant # Absent => At(At(ep, "tenant"), "column") = Str(ds.tenant)
      /\ ds.tenant # Absent => \A f \in Elements(filters) : At(f, "column") # Str(ds.tenant)
  <2>1. /\ Server!TenantErrors(At(ep, "tenant"), ds) = {}
        /\ ds.tenant # Absent => \A f \in Elements(filters) : At(f, "column") # Str(ds.tenant)
    BY <1>2, EndpointPinned DEF Served
  <2>. QED BY <2>1, TenantBound
<1>5. col = At(At(ep, "tenant"), "column") /\ Server!Nil = Nil BY ServerReading, Zenon
<1>6. ds.tenant = Absent => col = Server!Nil
  <2>1. At(Nil, "column") = Nil BY KindsApart DEF At, Has, Nil, IsMap
  <2>. QED BY <1>4, <1>5, <2>1
<1>7. ds.tenant # Absent => col # Server!Nil /\ col[2] = ds.tenant
  <2>1. Str(ds.tenant) # Nil /\ Str(ds.tenant)[2] = ds.tenant BY DEF Str, Nil
  <2>. QED BY <1>4, <1>5, <2>1
<1>8. ASSUME NEW i \in DOMAIN filters
      PROVE  /\ IsStr(At(filters[i], "column")) /\ SafeColumn(At(filters[i], "column"))
             /\ At(filters[i], "column") = Str(At(filters[i], "column")[2])
  <2>1. Server!FilterErrors(filters[i], i, ds, Server!ParamTypesOf(Items(At(ep, "params")))) = {}
    BY <1>2, EndpointPasses, QueryPasses DEF Served
  <2>2. IsStr(At(filters[i], "column")) /\ SafeColumn(At(filters[i], "column"))
    BY <2>1, FilterPasses
  <2>3. filters[i] \in V BY <1>2
  <2>4. At(filters[i], "column") \in V BY <2>3, TreeInside DEF Served
  <2>. QED BY <2>2, <2>4, TreeInside DEF Served
<1>9. ASSUME NEW i \in DOMAIN filters, bound(filters[i]) # {}
      PROVE  Binds(CHOOSE v \in bound(filters[i]) : TRUE, ds.types[At(filters[i], "column")[2]])
  <2>. DEFINE v == CHOOSE w \in bound(filters[i]) : TRUE
  <2>1. v \in bound(filters[i])
    <3>. HIDE DEF bound
    <3>. QED BY <1>9
  <2>2. PICK k \in DOMAIN params :
          /\ Server!At(params[k], "name") = Server!At(filters[i], "param")
          /\ v \in Server!ValueOf(params[k], request, filters, ds)
    <3>. HIDE DEF v, params, filters
    <3>. QED BY <2>1
  <2>3. At(params[k], "name") = At(filters[i], "param") BY <2>2, ServerReading
  <2>. HIDE DEF v
  <2>4. Binds(v, ds.types[At(filters[i], "column")[2]])
    BY <2>2, <2>3, FilterBinds
  <2>. QED BY <2>4 DEF v
<1>10. \A f : Server!At(f, "column") = At(f, "column") BY ServerReading
<1>. HIDE DEF bound, col, filters, params
<1>11. ASSUME NEW i \in DOMAIN where, i = 0
       PROVE  Binds(where[i].value, ds.types[where[i].column]) /\ where[i].column = ds.tenant /\ i \in pinned
  <2>1. ds.tenant # Absent
    <3>1. i \in places BY <1>1
    <3>. QED BY <1>3, <1>6, <1>11, <3>1
  <2>2. where[i] = condition(i)
    <3>. HIDE DEF where, places, condition
    <3>. QED BY <1>1
  <2>3. where[i].column = ds.tenant /\ where[i].value = Str("acme")
    BY <1>7, <1>11, <2>1, <2>2
  <2>4. Binds(Str("acme"), "VARCHAR")
    <3>1. IsStr(Str("acme")) BY DEF IsStr, Str
    <3>. QED BY <3>1, TextBinds
  <2>5. ds.types[ds.tenant] = "VARCHAR" BY <2>1 DEF Textual
  <2>. HIDE DEF where
  <2>. QED BY <1>11, <2>1, <2>3, <2>4, <2>5
<1>12. ASSUME NEW i \in DOMAIN where, i # 0
       PROVE  /\ Binds(where[i].value, ds.types[where[i].column])
              /\ where[i].column # ds.tenant /\ i \notin pinned
  <2>1. i \in DOMAIN filters /\ bound(filters[i]) # {}
    <3>1. i \in places BY <1>1
    <3>. QED BY <1>12, <3>1
  <2>2. where[i] = condition(i)
    <3>. HIDE DEF where, places, condition
    <3>. QED BY <1>1
  <2>3. /\ where[i].column = At(filters[i], "column")[2]
        /\ where[i].value = CHOOSE v \in bound(filters[i]) : TRUE
    <3>1. condition(i) = [column |-> Server!At(filters[i], "column")[2], op |-> Server!At(filters[i], "op")[2],
                          value |-> CHOOSE v \in bound(filters[i]) : TRUE]
      BY <1>12
    <3>. HIDE DEF where, condition
    <3>. QED BY <1>10, <2>2, <3>1
  <2>4. where[i].column # ds.tenant
    <3>1. CASE ds.tenant = Absent
      <4>1. At(filters[i], "column")[2] \in SafeColumns BY <1>8, <2>1 DEF SafeColumn
      <4>. HIDE DEF where
      <4>. QED BY <2>3, <3>1, <4>1, StringAssumption
    <3>2. CASE ds.tenant # Absent
      <4>1. filters[i] \in Elements(filters) BY <2>1 DEF Elements
      <4>2. At(filters[i], "column") # Str(ds.tenant) BY <1>4, <3>2, <4>1
      <4>3. At(filters[i], "column") = Str(At(filters[i], "column")[2]) BY <1>8, <2>1
      <4>. HIDE DEF where
      <4>. QED BY <2>3, <4>2, <4>3
    <3>. QED BY <3>1, <3>2
  <2>. HIDE DEF where
  <2>. QED BY <1>9, <1>12, <2>1, <2>3, <2>4
<1>13. pinned \subseteq DOMAIN where
  <2>1. ds.tenant # Absent => 0 \in places BY <1>7
  <2>. HIDE DEF where, places, condition
  <2>. QED BY <1>1, <2>1
<1>. HIDE DEF where
<1>14. \A i \in DOMAIN where :
         /\ Binds(where[i].value, ds.types[where[i].column])
         /\ (where[i].column = ds.tenant) <=> (i \in pinned)
  <2>. HIDE DEF pinned
  <2>. QED BY <1>11, <1>12
<1>. QED BY <1>13, <1>14 DEF where

-----------------------------------------------------------------------------
(* Every endpoint of a catalog that loads without errors                   *)

\* The premise of what follows, which every directory meets: its documents are
\* made of decoded values, and the paths that are listed are paths of it.
Decoded(V) ==
  /\ Trees(V)
  /\ \A path \in DOMAIN dir : dir[path] \in Documents(V)
  /\ \A sub \in DOMAIN Listing : \A i \in DOMAIN Listing[sub] : Listing[sub][i] \in DOMAIN dir

LEMMA DocumentHolds ==
  ASSUME NEW V, Trees(V), NEW doc \in Documents(V)
  PROVE  Holds(doc, V)
<1>1. CASE doc \in V
  BY <1>1, TreeInside DEF Holds
<1>2. CASE doc \in {Missing, Unreadable, Empty}
  <2>1. ~IsMap(doc) BY <1>2 DEF Missing, Unreadable, Empty, IsMap
  <2>2. \A key : At(doc, key) = Nil BY <2>1 DEF At, Has
  <2>3. Nil \in V BY DEF Trees
  <2>. QED BY <2>2, <2>3 DEF Holds
<1>. QED BY <1>1, <1>2 DEF Documents

LEMMA FilesHold ==
  ASSUME NEW V, Decoded(V), NEW sub, NEW i \in DOMAIN Server!Files(dir, sub)
  PROVE  Holds(Server!Files(dir, sub)[i], V)
<1>. DEFINE listed == IF sub \in DOMAIN Listing THEN Listing[sub] ELSE <<>>
            there == {j \in DOMAIN listed : dir[listed[j]] # Server!Missing}
<1>1. Server!Files(dir, sub) = [j \in there |-> dir[listed[j]]] BY Zenon DEF Server!Files
<1>2. i \in DOMAIN listed /\ Server!Files(dir, sub)[i] = dir[listed[i]]
  <2>. HIDE DEF listed
  <2>. QED BY <1>1
<1>3. sub \in DOMAIN Listing BY <1>2, EmptyDomain
<1>4. listed = Listing[sub] BY <1>3
<1>5. listed[i] \in DOMAIN dir
  <2>. HIDE DEF listed
  <2>. QED BY <1>2, <1>3, <1>4 DEF Decoded
<1>. HIDE DEF listed
<1>6. dir[listed[i]] \in Documents(V) BY <1>5 DEF Decoded
<1>. QED BY <1>2, <1>6, DocumentHolds DEF Decoded

LEMMA ServedHolds ==
  ASSUME NEW V, NEW files, NEW parsed \in SUBSET Nat, \A i \in parsed : Holds(files[i], V),
         NEW name \in DOMAIN Server!ByName(files, parsed, "name")
  PROVE  Holds(Server!ByName(files, parsed, "name")[name], V)
<1>1. PICK i \in parsed : name = At(files[i], "name")[2]
  BY ServerReading DEF Server!ByName
<1>2. Server!First(files, parsed, "name", name) \in parsed
  BY <1>1, FirstParsed
<1>3. Server!ByName(files, parsed, "name")[name] = files[Server!First(files, parsed, "name", name)]
  BY DEF Server!ByName
<1>. QED BY <1>2, <1>3

LEMMA LoadedHolds ==
  ASSUME NEW V, Decoded(V), NEW name \in DOMAIN Server!Load(dir).endpoints
  PROVE  Holds(Server!Load(dir).endpoints[name], V)
<1>. DEFINE project == Server!FileAt(dir, "offloader.yml")
            sub(key, default) == IF Server!At(project, key) = Server!Nil THEN default ELSE Server!At(project, key)[2]
            dsFiles == Server!Files(dir, sub("datasets_dir", "datasets"))
            dsErrors == [i \in DOMAIN dsFiles |-> Server!ParseDataset(dsFiles[i])]
            raw == Server!ByName(dsFiles, Server!Parsed(dsFiles, dsErrors), "id")
            datasets == [id \in DOMAIN raw |-> Server!Dataset(raw[id])]
            epFiles == Server!Files(dir, sub("endpoints_dir", "endpoints"))
            epErrors == [i \in DOMAIN epFiles |-> Server!ParseEndpoint(epFiles[i], datasets)]
            parsed == Server!Parsed(epFiles, epErrors)
            endpoints == Server!ByName(epFiles, parsed, "name")
<1>1. CASE Server!ProjectErrors(project) # {}
  <2>1. Server!Load(dir).endpoints = <<>> BY <1>1 DEF Server!Load
  <2>. QED BY <2>1, EmptyDomain
<1>2. CASE Server!ProjectErrors(project) = {}
  <2>1. Server!Load(dir).endpoints = endpoints BY <1>2 DEF Server!Load
  <2>2. /\ parsed \in SUBSET Nat
        /\ \A i \in parsed : Holds(epFiles[i], V)
    <3>1. DOMAIN epFiles \subseteq Nat BY FilePlaces
    <3>2. \A i \in DOMAIN epFiles : Holds(epFiles[i], V) BY FilesHold
    <3>3. parsed \subseteq DOMAIN epFiles
      <4>. HIDE DEF epFiles, epErrors
      <4>. QED BY DEF Server!Parsed
    <3>. HIDE DEF epFiles, parsed
    <3>. QED BY <3>1, <3>2, <3>3
  <2>. HIDE DEF epFiles, parsed
  <2>3. \A n \in DOMAIN endpoints : Holds(endpoints[n], V)
    BY <2>2, ServedHolds
  <2>. HIDE DEF endpoints
  <2>. QED BY <2>1, <2>3
<1>. QED BY <1>1, <1>2

LEMMA ServedHasNoErrors ==
  ASSUME NEW catalog, NEW ep, Accepted(ep, catalog.datasets)
  PROVE  Server!EndpointErrors(ep, DatasetOf(catalog, ep)) = {}
BY Zenon DEF Accepted, DatasetOf

(* Whatever endpoints a catalog that loads without errors has, and whatever*)
(* request the compiler lets through, the query that answers it runs: each *)
(* value fits the column it is compared with (Endpoint.parse, Param.coerce)*)
(* the tenant has the only condition on its column, every output that is   *)
(* not aggregated is grouped, and nothing outside the allowlist comes back *)
(* (Compiler.build).                                                       *)
THEOREM AcceptedPlansRun == Spec => []((\E V : Decoded(V)) => PlansSound)
<1>1. ASSUME NEW V, Decoded(V) PROVE PlansSound
  <2>. DEFINE catalog == Server!Load(dir)
  <2>. SUFFICES ASSUME catalog.errors = {} PROVE AllSound(catalog)
    BY DEF PlansSound, Accepts
  <2>. SUFFICES ASSUME NEW name \in DOMAIN catalog.endpoints,
                       Textual(catalog.endpoints[name], DatasetOf(catalog, catalog.endpoints[name])),
                       NEW request \in Requests
                PROVE  LET ep == catalog.endpoints[name]
                           ds == DatasetOf(catalog, ep)
                       IN  PlanSound(Server!Build(ep, request, Str("acme"), ds), ep, ds)
    BY DEF AllSound
  <2>. DEFINE ep == catalog.endpoints[name]
              ds == DatasetOf(catalog, ep)
  <2>1. Server!EndpointErrors(ep, ds) = {}
    BY LoadedIsAccepted, ServedHasNoErrors
  <2>2. Holds(ep, V) BY <1>1, LoadedHolds
  <2>3. Served(V, ep, ds) BY <1>1, <2>1, <2>2 DEF Served, Holds, Decoded
  <2>. HIDE DEF catalog, ep, ds
  <2>4. Textual(ep, ds) BY DEF ep, ds
  <2>5. PlanSound(Server!Build(ep, request, Str("acme"), ds), ep, ds)
    <3>. DEFINE plan == Server!Build(ep, request, Str("acme"), ds)
                computed == Elements(plan.select) \cup Elements(plan.order)
                grouped == plan.group # <<>> \/ \E s \in computed : At(s, "agg") # Nil
                pinned == IF ds.tenant = Absent THEN {} ELSE {0}
    <3>1. /\ \A i \in DOMAIN plan.where :
               /\ Binds(plan.where[i].value, ds.types[plan.where[i].column])
               /\ (plan.where[i].column = ds.tenant) <=> (i \in pinned)
          /\ pinned \subseteq DOMAIN plan.where
      BY <2>3, <2>4, ConditionsSound
    <3>2. /\ grouped => \A s \in computed :
               At(s, "agg") = Nil => At(s, "column")[2] \in Elements(plan.group)
          /\ {At(s, "as") : s \in Elements(plan.select)} \subseteq Elements(Items(At(ep, "columns")))
      BY <2>3, OutputsSound
    <3>. QED BY <3>1, <3>2, Zenon DEF PlanSound
  <2>. QED BY <2>5 DEF ep, ds
<1>2. (\E V : Decoded(V)) => PlansSound
  BY <1>1
<1>. QED BY <1>2, PTL

-----------------------------------------------------------------------------
(* The manifest: what the pre-check passes, the container loads            *)

(* A field of a manifest, as text: the empty string unless it is a string. *)
LEMMA TextIs ==
  ASSUME NEW m, NEW k
  PROVE  /\ IsStr(At(m, k)) => Text(m, k) = At(m, k)[2]
         /\ ~IsStr(At(m, k)) => Text(m, k) = Absent
BY Zenon DEF Text, Absent

LEMMA NoFlag ==
  ASSUME NEW cond, NEW parent, NEW i, NEW field, NEW code, Flag(cond, parent, i, field, code) = {}
  PROVE  ~cond
BY DEF Flag

(* What a manifest is that the pre-check has no findings about.            *)
LEMMA ManifestPasses ==
  ASSUME NEW m, ValidateManifest(m) = {}
  PROVE  /\ Decodes(m)
         /\ Text(m, "dataset_id") \in SafeIdents
         /\ Text(m, "snapshot_id") \in SnapshotIds
         /\ CheckTimestamp(m, "created_at") = {} /\ CheckTimestamp(m, "watermark") = {}
         /\ CheckManifestSchema(Items(At(m, "schema"))) = {}
         /\ \A k \in Refs : CheckColumnRefs(m, k) = {}
         /\ CheckFiles(Items(At(m, "files"))) = {}
         /\ \A k \in {"producer", "upstream_run_id"} : Text(m, k) # Absent
         /\ \A k \in Counts : At(m, k) # Nil
         /\ Text(m, "data_quality_status") \in Qualities
         /\ Text(m, "compatibility_policy") \in Policies
<1>. DEFINE dataset == Flag(Text(m, "dataset_id") \notin SafeIdents, Top, 0, "dataset_id", "unsafe_identifier")
            snapshot == Flag(Text(m, "snapshot_id") \notin SnapshotIds, Top, 0, "snapshot_id", "invalid_snapshot_id")
            created == CheckTimestamp(m, "created_at")
            watermark == CheckTimestamp(m, "watermark")
            schema == CheckManifestSchema(Items(At(m, "schema")))
            ref(k) == CheckColumnRefs(m, k)
            files == CheckFiles(Items(At(m, "files")))
            stated(k) == Flag(Text(m, k) = "", Top, 0, k, "missing")
            counted(k) == Flag(At(m, k) = Nil, Top, 0, k, "missing")
            quality == Flag(Text(m, "data_quality_status") \notin Qualities,
                            Top, 0, "data_quality_status", "invalid_value")
            policy == Flag(Text(m, "compatibility_policy") \notin Policies,
                           Top, 0, "compatibility_policy", "invalid_compatibility_policy")
            refs == UNION {ref(k) : k \in Refs}
            statements == UNION {stated(k) : k \in {"producer", "upstream_run_id"}}
            counts == UNION {counted(k) : k \in Counts}
<1>1. m # Missing /\ Decodes(m)
  <2>1. m # Missing
    <3>. SUFFICES ASSUME m = Missing PROVE FALSE OBVIOUS
    <3>1. ValidateManifest(m) = {<<Top, 0, Self, "missing_file">>} BY Zenon DEF ValidateManifest
    <3>. HIDE DEF Top, Self
    <3>. QED BY <3>1
  <2>2. Decodes(m)
    <3>. SUFFICES ASSUME ~Decodes(m) PROVE FALSE OBVIOUS
    <3>1. ValidateManifest(m) = {<<Top, 0, Self, "invalid_json">>} BY <2>1, Zenon DEF ValidateManifest
    <3>. QED BY <3>1
  <2>. QED BY <2>1, <2>2
<1>2. ValidateManifest(m) =
        dataset \cup snapshot \cup created \cup watermark \cup schema \cup refs \cup files
        \cup statements \cup counts \cup quality \cup policy
  BY <1>1, Zenon DEF ValidateManifest
<1>3. /\ dataset = {} /\ snapshot = {} /\ created = {} /\ watermark = {} /\ schema = {} /\ refs = {}
      /\ files = {} /\ statements = {} /\ counts = {} /\ quality = {} /\ policy = {}
  <2>. HIDE DEF dataset, snapshot, created, watermark, schema, refs, files, statements, counts, quality, policy
  <2>. QED BY <1>2
<1>4. /\ Text(m, "dataset_id") \in SafeIdents /\ Text(m, "snapshot_id") \in SnapshotIds
      /\ Text(m, "data_quality_status") \in Qualities
      /\ Text(m, "compatibility_policy") \in Policies
  BY <1>3, NoFlag
<1>5. \A k \in Refs : ref(k) = {}
  <2>. HIDE DEF ref
  <2>. QED BY <1>3
<1>6. \A k \in {"producer", "upstream_run_id"} : Text(m, k) # Absent
  <2>1. \A k \in {"producer", "upstream_run_id"} : stated(k) = {}
    <3>. HIDE DEF stated
    <3>. QED BY <1>3
  <2>2. ASSUME NEW k, stated(k) = {} PROVE Text(m, k) # Absent
    <3>1. stated(k) = Flag(Text(m, k) = Absent, Top, 0, k, "missing") BY Zenon DEF Absent
    <3>2. Flag(Text(m, k) = Absent, Top, 0, k, "missing") = {}
      <4>. HIDE DEF stated
      <4>. QED BY <2>2, <3>1
    <3>. QED BY <3>2, NoFlag
  <2>. HIDE DEF stated
  <2>. QED BY <2>1, <2>2
<1>7. \A k \in Counts : At(m, k) # Nil
  <2>1. \A k \in Counts : counted(k) = {}
    <3>. HIDE DEF counted
    <3>. QED BY <1>3
  <2>. QED BY <2>1, NoFlag
<1>. HIDE DEF ref
<1>. QED BY <1>1, <1>3, <1>4, <1>5, <1>6, <1>7 DEF ref

(* A field whose text is in a set that the empty string is not in.         *)
LEMMA TextThere ==
  ASSUME NEW m, NEW k, Text(m, k) # Absent
  PROVE  /\ IsStr(At(m, k)) /\ Text(m, k) = At(m, k)[2]
         /\ IsNonEmpty(At(m, k)) /\ IsMap(m) /\ k \in DOMAIN m[2]
<1>1. IsStr(At(m, k)) /\ Text(m, k) = At(m, k)[2] BY TextIs
<1>2. Has(m, k)
  <2>. SUFFICES ASSUME ~Has(m, k) PROVE FALSE OBVIOUS
  <2>1. At(m, k) = Nil BY Zenon DEF At
  <2>. QED BY <1>1, <2>1, KindsApart
<1>. QED BY <1>1, <1>2 DEF Has, IsNonEmpty

LEMMA TimestampPasses ==
  ASSUME NEW m, NEW k, CheckTimestamp(m, k) = {}
  PROVE  Text(m, k) # Absent /\ IsOneOf(At(m, k), Timestamps)
<1>1. Text(m, k) # Absent
  <2>. SUFFICES ASSUME Text(m, k) = Absent PROVE FALSE OBVIOUS
  <2>1. CheckTimestamp(m, k) = {<<Top, 0, k, "missing">>} BY Zenon DEF CheckTimestamp, Absent
  <2>. QED BY <2>1
<1>2. CheckTimestamp(m, k) = Flag(Text(m, k) \notin Timestamps, Top, 0, k, "invalid_timestamp")
  BY <1>1, Zenon DEF CheckTimestamp, Absent
<1>3. Text(m, k) \in Timestamps BY <1>2, NoFlag
<1>. QED BY <1>1, <1>3, TextThere DEF IsOneOf

(* Its schema: objects with a column's name and a type, no name twice.     *)
LEMMA SchemaPasses ==
  ASSUME NEW cols, CheckManifestSchema(cols) = {}
  PROVE  /\ cols # <<>>
         /\ \A i \in DOMAIN cols : /\ IsMap(cols[i])
                                   /\ SafeColumn(At(cols[i], "name"))
                                   /\ IsOneOf(At(cols[i], "type"), ColumnTypes)
         /\ \A i, j \in DOMAIN cols : i # j => At(cols[i], "name") # At(cols[j], "name")
<1>. DEFINE named(i) == Flag(Text(cols[i], "name") \notin SafeColumns, "schema", i, "name", "unsafe_identifier")
            typed(i) == Flag(Text(cols[i], "type") \notin ColumnTypes, "schema", i, "type", "unsupported_type")
            each == UNION {named(i) \cup typed(i) : i \in DOMAIN cols}
            twice == Flag(\E i, j \in DOMAIN cols : i # j /\ Text(cols[i], "name") = Text(cols[j], "name"),
                          Top, 0, "schema", "duplicate_column")
<1>1. cols # <<>>
  <2>. SUFFICES ASSUME cols = <<>> PROVE FALSE OBVIOUS
  <2>1. CheckManifestSchema(cols) = {<<Top, 0, "schema", "missing">>} BY Zenon DEF CheckManifestSchema
  <2>. QED BY <2>1
<1>2. CheckManifestSchema(cols) = each \cup twice BY <1>1, Zenon DEF CheckManifestSchema
<1>3. each = {} /\ twice = {}
  <2>. HIDE DEF each, twice
  <2>. QED BY <1>2
<1>4. \A i \in DOMAIN cols : named(i) = {} /\ typed(i) = {}
  <2>. HIDE DEF named, typed
  <2>. QED BY <1>3
<1>5. ASSUME NEW i \in DOMAIN cols
      PROVE  /\ IsMap(cols[i]) /\ SafeColumn(At(cols[i], "name"))
             /\ IsOneOf(At(cols[i], "type"), ColumnTypes)
             /\ Text(cols[i], "name") = At(cols[i], "name")[2]
  <2>1. Text(cols[i], "name") \in SafeColumns /\ Text(cols[i], "type") \in ColumnTypes
    BY <1>4, NoFlag
  <2>2. Text(cols[i], "name") # Absent /\ Text(cols[i], "type") # Absent
    BY <2>1, StringAssumption, AbsentIsNoType
  <2>. QED BY <2>1, <2>2, TextThere DEF SafeColumn, IsOneOf
<1>6. ~\E i, j \in DOMAIN cols : i # j /\ Text(cols[i], "name") = Text(cols[j], "name")
  BY <1>3, NoFlag
<1>7. \A i, j \in DOMAIN cols : i # j => At(cols[i], "name") # At(cols[j], "name")
  BY <1>5, <1>6
<1>. QED BY <1>1, <1>5, <1>7

(* Its files: each of a known format, at a path that is there or remote.   *)
LEMMA FilesPass ==
  ASSUME NEW files, CheckFiles(files) = {}
  PROVE  /\ files # <<>>
         /\ \A i \in DOMAIN files :
              /\ IsMap(files[i])
              /\ IsOneOf(At(files[i], "format"), Formats)
              /\ IsNonEmpty(At(files[i], "path"))
              /\ IsOneOf(At(files[i], "path"), RemotePaths \cup DOMAIN LocalFiles)
<1>. DEFINE formed(i) == Flag(Text(files[i], "format") \notin Formats, "files", i, "format", "unsupported_type")
            located(i) == Flag(Text(files[i], "path") = "", "files", i, "path", "missing")
            there(i) == Flag(Text(files[i], "path") \notin RemotePaths \cup DOMAIN LocalFiles \cup {""},
                             "files", i, "path", "missing_file")
<1>1. files # <<>>
  <2>. SUFFICES ASSUME files = <<>> PROVE FALSE OBVIOUS
  <2>1. CheckFiles(files) = {<<Top, 0, "files", "missing">>} BY Zenon DEF CheckFiles
  <2>. QED BY <2>1
<1>2. (UNION {formed(i) \cup located(i) \cup there(i) : i \in DOMAIN files}) = {}
  BY <1>1, Zenon DEF CheckFiles
<1>3. \A i \in DOMAIN files : formed(i) = {} /\ located(i) = {} /\ there(i) = {}
  <2>. HIDE DEF formed, located, there
  <2>. QED BY <1>2
<1>4. \A i : /\ located(i) = Flag(Text(files[i], "path") = Absent, "files", i, "path", "missing")
             /\ there(i) = Flag(Text(files[i], "path") \notin RemotePaths \cup DOMAIN LocalFiles \cup {Absent},
                                "files", i, "path", "missing_file")
  BY Zenon DEF Absent
<1>. HIDE DEF located, there
<1>5. ASSUME NEW i \in DOMAIN files
      PROVE  /\ IsMap(files[i])
             /\ IsOneOf(At(files[i], "format"), Formats)
             /\ IsNonEmpty(At(files[i], "path"))
             /\ IsOneOf(At(files[i], "path"), RemotePaths \cup DOMAIN LocalFiles)
  <2>1. /\ Text(files[i], "format") \in Formats
        /\ Text(files[i], "path") # Absent
        /\ Text(files[i], "path") \in RemotePaths \cup DOMAIN LocalFiles \cup {Absent}
    <3>1. formed(i) = {} /\ located(i) = {} /\ there(i) = {} BY <1>3
    <3>2. Text(files[i], "format") \in Formats BY <3>1, NoFlag
    <3>3. Text(files[i], "path") # Absent
      <4>1. Flag(Text(files[i], "path") = Absent, "files", i, "path", "missing") = {} BY <3>1, <1>4
      <4>. QED BY <4>1, NoFlag
    <3>4. Text(files[i], "path") \in RemotePaths \cup DOMAIN LocalFiles \cup {Absent}
      <4>1. Flag(Text(files[i], "path") \notin RemotePaths \cup DOMAIN LocalFiles \cup {Absent},
                 "files", i, "path", "missing_file") = {}
        BY <3>1, <1>4
      <4>. QED BY <4>1, NoFlag
    <3>. QED BY <3>2, <3>3, <3>4
  <2>2. Text(files[i], "format") # Absent
    <3>1. Absent \notin Formats BY Zenon DEF Formats, Absent
    <3>. QED BY <2>1, <3>1
  <2>. QED BY <2>1, <2>2, TextThere DEF IsOneOf
<1>. QED BY <1>1, <1>5

LEMMA DecodedFields ==
  ASSUME NEW m, Decodes(m)
  PROVE  /\ m = Nil \/ IsMap(m)
         /\ \A k \in Lists : At(m, k) = Nil \/ IsList(At(m, k))
BY Zenon DEF Decodes

(* Its partition and sort columns: a list of names of the schema's columns. *)
LEMMA RefsPass ==
  ASSUME NEW V, Trees(V), NEW m \in V, NEW k \in Refs, Decodes(m), CheckColumnRefs(m, k) = {},
         CheckManifestSchema(Items(At(m, "schema"))) = {}
  PROVE  At(m, k) # Nil /\ ColumnRef(At(m, k), Items(At(m, "schema"))) = {}
<1>. DEFINE v == At(m, k)
            cols == Items(At(m, "schema"))
            refs == Items(v)
            naming(i, r) == Text(cols[i], "name") = (IF IsStr(r) THEN r[2] ELSE Absent)
            unknown == \E i \in DOMAIN refs : ~\E j \in DOMAIN cols : naming(j, refs[i])
            none == Flag(v = Nil, Top, 0, k, "missing")
            stray == Flag(unknown, Top, 0, k, "unknown_column")
<1>1. CheckColumnRefs(m, k) = none \cup stray
  BY Zenon DEF CheckColumnRefs, Absent
<1>2. none = {} /\ stray = {}
  <2>. HIDE DEF none, stray
  <2>. QED BY <1>1
<1>3. v # Nil /\ ~unknown
  <2>1. v # Nil BY <1>2, NoFlag
  <2>2. ~unknown
    <3>. HIDE DEF unknown
    <3>. QED BY <1>2, NoFlag
  <2>. QED BY <2>1, <2>2
<1>4. IsList(v) /\ refs = v[2]
  <2>1. k \in Lists BY DEF Lists
  <2>2. IsList(v) BY <2>1, <1>3, DecodedFields
  <2>. QED BY <2>2 DEF Items
<1>5. /\ \A i \in DOMAIN cols : /\ IsMap(cols[i]) /\ SafeColumn(At(cols[i], "name"))
                                /\ At(cols[i], "name") \in V
      /\ \A i \in DOMAIN refs : refs[i] \in V
  BY SchemaPasses, TreeInside
<1>6. ASSUME NEW i \in DOMAIN v[2]
      PROVE  \E j \in DOMAIN cols : IsMap(cols[j]) /\ At(cols[j], "name") = v[2][i]
  <2>1. i \in DOMAIN refs /\ refs[i] = v[2][i] BY <1>4
  <2>2. PICK j \in DOMAIN cols : naming(j, refs[i]) BY <1>3, <2>1
  <2>. HIDE DEF refs, cols
  <2>3. /\ IsMap(cols[j]) /\ SafeColumn(At(cols[j], "name")) /\ At(cols[j], "name") \in V
        /\ refs[i] \in V
    BY <1>5, <2>1
  <2>4. Text(cols[j], "name") = At(cols[j], "name")[2] /\ At(cols[j], "name")[2] \in SafeColumns
        /\ IsStr(At(cols[j], "name"))
    BY <2>3, TextIs DEF SafeColumn
  <2>5. IsStr(refs[i]) /\ Text(cols[j], "name") = refs[i][2]
    BY <2>2, <2>4, StringAssumption
  <2>6. refs[i] = Str(refs[i][2]) /\ At(cols[j], "name") = Str(At(cols[j], "name")[2])
    BY <2>3, <2>4, <2>5, TreeInside
  <2>. QED BY <2>1, <2>3, <2>4, <2>5, <2>6
<1>7. ColumnRef(v, cols) =
        IF \E i \in DOMAIN v[2] : ~\E j \in DOMAIN cols : IsMap(cols[j]) /\ At(cols[j], "name") = v[2][i]
        THEN {"unknown_column"} ELSE {}
  <2>. HIDE DEF v, cols
  <2>. QED BY <1>3, <1>4, Zenon DEF ColumnRef
<1>8. ColumnRef(v, cols) = {}
  <2>. HIDE DEF v, cols
  <2>. QED BY <1>6, <1>7
<1>. QED BY <1>3, <1>8

LEMMA ColumnLoads ==
  ASSUME NEW c, SafeColumn(At(c, "name")), IsOneOf(At(c, "type"), ColumnTypes)
  PROVE  OneColumn(c) = {}
BY DEF OneColumn

LEMMA FileLoads ==
  ASSUME NEW f, IsOneOf(At(f, "format"), Formats), IsNonEmpty(At(f, "path")),
         IsOneOf(At(f, "path"), RemotePaths \cup DOMAIN LocalFiles), NEW declared
  PROVE  OneFile(f, declared) \subseteq {"schema_data_mismatch"}
<1>. DEFINE path == At(f, "path")
            remote == IsOneOf(path, RemotePaths)
            exists == IsOneOf(path, DOMAIN LocalFiles)
<1>1. remote \/ exists BY DEF IsOneOf
<1>. HIDE DEF remote, exists, path
<1>2. CASE remote
  <2>1. OneFile(f, declared) = {} \cup {} BY <1>2, Zenon DEF OneFile, remote, exists, path
  <2>. QED BY <2>1
<1>3. CASE ~remote
  <2>1. OneFile(f, declared) =
          {} \cup (IF SchemaDataMismatch(f, declared) THEN {"schema_data_mismatch"} ELSE {})
    BY <1>1, <1>3, Zenon DEF OneFile, remote, exists, path
  <2>. QED BY <2>1
<1>. QED BY <1>2, <1>3

LEMMA FieldThere ==
  ASSUME NEW m, NEW k, At(m, k) # Nil
  PROVE  IsMap(m) /\ k \in DOMAIN m[2]
BY DEF At, Has

(* The fields the loader asks for are there.                               *)
LEMMA FieldsThere ==
  ASSUME NEW m, ValidateManifest(m) = {}
  PROVE  IsMap(m) /\ Strings \cup Counts \cup Lists \subseteq DOMAIN m[2]
<1>1. \A k \in Strings : Text(m, k) # Absent
  <2>1. /\ Text(m, "dataset_id") # Absent /\ Text(m, "snapshot_id") # Absent
        /\ Text(m, "created_at") # Absent /\ Text(m, "watermark") # Absent
        /\ Text(m, "producer") # Absent /\ Text(m, "upstream_run_id") # Absent
    BY ManifestPasses, TimestampPasses, StringAssumption, ManifestAssumption
  <2>2. Absent \notin Qualities /\ Absent \notin Policies BY Zenon DEF Qualities, Policies, Absent
  <2>3. Text(m, "data_quality_status") # Absent /\ Text(m, "compatibility_policy") # Absent
    BY <2>2, ManifestPasses
  <2>. QED BY <2>1, <2>3 DEF Strings
<1>2. \A k \in Lists : At(m, k) # Nil
  <2>1. \A k \in Refs : At(m, k) # Nil
    <3>. SUFFICES ASSUME NEW k \in Refs PROVE At(m, k) # Nil OBVIOUS
    <3>1. CheckColumnRefs(m, k) = {} BY ManifestPasses
    <3>. DEFINE none == Flag(At(m, k) = Nil, Top, 0, k, "missing")
    <3>2. none \subseteq CheckColumnRefs(m, k)
      BY Zenon DEF CheckColumnRefs
    <3>3. none = {}
      <4>. HIDE DEF none
      <4>. QED BY <3>1, <3>2
    <3>. QED BY <3>3, NoFlag
  <2>2. Items(At(m, "schema")) # <<>> /\ Items(At(m, "files")) # <<>>
    BY ManifestPasses, SchemaPasses, FilesPass
  <2>3. At(m, "schema") # Nil /\ At(m, "files") # Nil
    BY <2>2, KindsApart DEF Items, IsList, Nil
  <2>. QED BY <2>1, <2>3 DEF Lists
<1>3. \A k \in Counts : At(m, k) # Nil BY ManifestPasses
<1>4. \A k \in Strings : k \in DOMAIN m[2] BY <1>1, TextThere
<1>5. \A k \in Lists \cup Counts : IsMap(m) /\ k \in DOMAIN m[2] BY <1>2, <1>3, FieldThere
<1>6. IsMap(m) BY <1>5 DEF Counts
<1>. QED BY <1>4, <1>5, <1>6

\* What the helper does not look at.
Unseen == {<<"row_count", "invalid_value">>, <<"size_bytes", "invalid_value">>,
           <<"schema_version", "invalid_value">>, <<"files", "schema_data_mismatch">>}

(* A manifest without findings, made of decoded values, is loaded.         *)
LEMMA PassedManifestLoads ==
  ASSUME NEW V, Trees(V), NEW m \in V, ValidateManifest(m) = {}
  PROVE  LoadManifest(m) \subseteq Unseen
<1>. DEFINE cols == Items(At(m, "schema"))
            names == Names(cols, "name")
            declared == {names[i][2] : i \in DOMAIN names}
            files == Items(At(m, "files"))
            file(f) == OneFile(f, declared)
            bad(cond, k, code) == IF cond THEN {<<k, code>>} ELSE {}
            optional(k, allowed) == At(m, k) = Nil \/ IsOneOf(At(m, k), allowed)
            absent == {<<k, "missing">> : k \in (Strings \cup Counts \cup Lists) \ DOMAIN m[2]}
            dataset == bad(~SafeIdent(At(m, "dataset_id")), "dataset_id", "unsafe_identifier")
            snapshot == bad(~IsOneOf(At(m, "snapshot_id"), SnapshotIds), "snapshot_id", "invalid_snapshot_id")
            times == UNION {bad(~optional(k, Timestamps), k, "invalid_timestamp") : k \in {"created_at", "watermark"}}
            noCols == bad(cols = <<>>, "schema", "missing")
            twice == bad(\E i, j \in DOMAIN names : i # j /\ names[i] = names[j], "schema", "duplicate_column")
            column == UNION {Entry(cols[i], OneColumn) : i \in DOMAIN cols}
            columns == {<<"schema", code>> : code \in column}
            noFiles == bad(files = <<>>, "files", "missing")
            eachFile == UNION {Entry(files[i], file) : i \in DOMAIN files}
            ofFiles == {<<"files", code>> : code \in eachFile}
            ref(k) == {<<k, code>> : code \in ColumnRef(At(m, k), cols)}
            refs == UNION {ref(k) : k \in Refs}
            rows == bad(~AtLeast(At(m, "row_count"), 0), "row_count", "invalid_value")
            bytes == bad(~AtLeast(At(m, "size_bytes"), 0), "size_bytes", "invalid_value")
            version == bad(~AtLeast(At(m, "schema_version"), 1), "schema_version", "invalid_value")
            origin == UNION {bad(At(m, k) # Nil /\ ~IsNonEmpty(At(m, k)), k, "invalid_value") :
                               k \in {"producer", "upstream_run_id"}}
            quality == bad(~optional("data_quality_status", Qualities), "data_quality_status", "invalid_value")
            policy == bad(~optional("compatibility_policy", Policies),
                          "compatibility_policy", "invalid_compatibility_policy")
<1>1. LoadManifest(m) =
        absent \cup dataset \cup snapshot \cup times \cup noCols \cup twice \cup columns \cup noFiles
        \cup ofFiles \cup refs \cup rows \cup bytes \cup version \cup origin \cup quality \cup policy
  <2>1. IsMap(m) BY FieldsThere
  <2>2. m # Missing /\ m \notin {Unreadable, Empty}
    BY <2>1 DEF IsMap, Missing, Unreadable, Empty
  <2>. QED BY <2>1, <2>2, Zenon DEF LoadManifest
<1>2. absent = {} BY FieldsThere
<1>3. dataset = {} /\ snapshot = {}
  <2>1. /\ Text(m, "dataset_id") \in SafeIdents /\ Text(m, "dataset_id") # Absent
        /\ Text(m, "snapshot_id") \in SnapshotIds /\ Text(m, "snapshot_id") # Absent
    BY ManifestPasses, StringAssumption, ManifestAssumption
  <2>. QED BY <2>1, TextThere DEF SafeIdent, IsOneOf
<1>4. times = {}
  <2>1. optional("created_at", Timestamps) /\ optional("watermark", Timestamps)
    BY ManifestPasses, TimestampPasses
  <2>. HIDE DEF optional
  <2>. QED BY <2>1
<1>5. /\ cols # <<>> /\ files # <<>>
      /\ \A i \in DOMAIN cols : /\ IsMap(cols[i])
                                /\ SafeColumn(At(cols[i], "name"))
                                /\ IsOneOf(At(cols[i], "type"), ColumnTypes)
      /\ \A i, j \in DOMAIN cols : i # j => At(cols[i], "name") # At(cols[j], "name")
      /\ \A i \in DOMAIN files : /\ IsMap(files[i])
                                 /\ IsOneOf(At(files[i], "format"), Formats)
                                 /\ IsNonEmpty(At(files[i], "path"))
                                 /\ IsOneOf(At(files[i], "path"), RemotePaths \cup DOMAIN LocalFiles)
  BY ManifestPasses, SchemaPasses, FilesPass
<1>6. noCols = {} /\ noFiles = {} BY <1>5
<1>7. twice = {}
  <2>. HIDE DEF cols
  <2>1. \A i \in DOMAIN names : i \in DOMAIN cols /\ names[i] = At(cols[i], "name") BY DEF Names
  <2>. HIDE DEF names
  <2>. QED BY <1>5, <2>1
<1>8. columns = {}
  <2>. SUFFICES ASSUME NEW code \in column PROVE FALSE OBVIOUS
  <2>. HIDE DEF cols
  <2>1. PICK i \in DOMAIN cols : code \in Entry(cols[i], OneColumn) OBVIOUS
  <2>2. Entry(cols[i], OneColumn) = OneColumn(cols[i]) BY <1>5, Zenon DEF Entry
  <2>. QED BY <1>5, <2>1, <2>2, ColumnLoads
<1>9. ofFiles \subseteq {<<"files", "schema_data_mismatch">>}
  <2>. SUFFICES ASSUME NEW code \in eachFile PROVE code = "schema_data_mismatch" OBVIOUS
  <2>. HIDE DEF files, declared
  <2>1. PICK i \in DOMAIN files : code \in Entry(files[i], file) OBVIOUS
  <2>2. Entry(files[i], file) = OneFile(files[i], declared) BY <1>5, Zenon DEF Entry
  <2>3. OneFile(files[i], declared) \subseteq {"schema_data_mismatch"} BY <1>5, FileLoads
  <2>. QED BY <2>1, <2>2, <2>3
<1>10. refs = {}
  <2>1. ASSUME NEW k \in Refs PROVE ref(k) = {}
    <3>1. ColumnRef(At(m, k), cols) = {} BY ManifestPasses, RefsPass
    <3>. HIDE DEF cols
    <3>. QED BY <3>1
  <2>. HIDE DEF ref
  <2>. QED BY <2>1
<1>11. origin = {}
  <2>1. \A k \in {"producer", "upstream_run_id"} : IsNonEmpty(At(m, k)) BY ManifestPasses, TextThere
  <2>. QED BY <2>1
<1>12. quality = {} /\ policy = {}
  <2>1. Absent \notin Qualities /\ Absent \notin Policies BY Zenon DEF Qualities, Policies, Absent
  <2>2. /\ Text(m, "data_quality_status") \in Qualities
        /\ Text(m, "compatibility_policy") \in Policies
    BY ManifestPasses
  <2>. QED BY <2>1, <2>2, TextThere DEF IsOneOf
<1>13. rows \subseteq Unseen /\ bytes \subseteq Unseen /\ version \subseteq Unseen
  BY DEF Unseen
<1>14. <<"files", "schema_data_mismatch">> \in Unseen BY DEF Unseen
<1>. HIDE DEF absent, dataset, snapshot, times, noCols, twice, columns, noFiles, ofFiles, refs,
              rows, bytes, version, origin, quality, policy
<1>. QED
  BY <1>1, <1>2, <1>3, <1>4, <1>6, <1>7, <1>8, <1>9, <1>10, <1>11, <1>12, <1>13, <1>14

(* Whatever manifest lies at its place in the project, if the helper has no *)
(* findings about it (manifest.go), the container refuses it only for what *)
(* the helper does not look at (Manifest.load).                            *)
THEOREM ManifestsAgree ==
  Spec => []((Source \in Paths /\ (\E V : Decoded(V))) => ManifestAgrees)
<1>1. ASSUME NEW V, Decoded(V), Source \in Paths PROVE ManifestAgrees
  <2>. DEFINE m == dir[Source]
  <2>. SUFFICES ASSUME ValidateManifest(m) = {} PROVE LoadManifest(m) \subseteq Unseen
    BY Zenon DEF ManifestAgrees, Unseen
  <2>1. IsMap(m) BY FieldsThere
  <2>2. m \in Documents(V) BY <1>1 DEF Decoded, Paths
  <2>3. m \in V BY <2>1, <2>2 DEF Documents, Missing, Unreadable, Empty, IsMap
  <2>. HIDE DEF m
  <2>. QED BY <1>1, <2>3, PassedManifestLoads DEF Decoded
<1>2. (Source \in Paths /\ \E V : Decoded(V)) => ManifestAgrees
  BY <1>1
<1>. QED BY <1>2, PTL

-----------------------------------------------------------------------------
(* The dataset that scaffold-dataset makes of a manifest                   *)

\* What the document of a mapping holds of its fields: those that are not null.
LEMMA ObjectHolds ==
  ASSUME NEW f
  PROVE  /\ IsMap(Object(f)) /\ Object(f) # Nil
         /\ DOMAIN Object(f)[2] \subseteq DOMAIN f
         /\ \A key \in DOMAIN f : At(Object(f), key) = f[key]
         /\ \A key : key \notin DOMAIN f => At(Object(f), key) = Nil
<1>. DEFINE g == [k \in {x \in DOMAIN f : f[x] # Nil} |-> f[k]]
<1>1. Object(f) = Map(g) BY DEF Object
<1>2. IsMap(Map(g)) /\ Map(g)[2] = g /\ Map(g) # Nil
  <2>. HIDE DEF g
  <2>. QED BY DEF Map, IsMap, Nil
<1>3. \A key : At(Map(g), key) = IF key \in DOMAIN g THEN g[key] ELSE Nil
  <2>. HIDE DEF g
  <2>. QED BY <1>2 DEF At, Has
<1>. QED BY <1>1, <1>2, <1>3

\* The same of a mapping without nulls.
LEMMA MapHolds ==
  ASSUME NEW f
  PROVE  /\ IsMap(Map(f)) /\ Map(f) # Nil /\ Map(f)[2] = f
         /\ \A key \in DOMAIN f : At(Map(f), key) = f[key]
         /\ \A key : key \notin DOMAIN f => At(Map(f), key) = Nil
BY DEF Map, IsMap, Nil, At, Has

LEMMA ListHolds ==
  ASSUME NEW s
  PROVE  IsList(List(s)) /\ List(s) # Nil /\ Items(List(s)) = s /\ List(s)[2] = s
BY DEF List, IsList, Nil, Items

LEMMA StrHolds ==
  ASSUME NEW s
  PROVE  /\ IsStr(Str(s)) /\ Str(s)[2] = s /\ Str(s) # Nil /\ IsScalar(Str(s))
         /\ SafeColumn(Str(s)) <=> s \in SafeColumns
         /\ SafeIdent(Str(s)) <=> s \in SafeIdents
         /\ \A S : IsOneOf(Str(s), S) <=> s \in S
         /\ IsNonEmpty(Str(s)) <=> s # Absent
         /\ \A t : Str(s) = Str(t) <=> s = t
BY DEF Str, IsStr, Nil, IsScalar, IsList, IsMap, SafeColumn, SafeIdent, IsOneOf, IsNonEmpty

\* Types and safe names are strings to YAML, without quotes.
LEMMA BareTypes ==
  ASSUME NEW type \in ColumnTypes
  PROVE  Bare(type) = Str(type)
<1>1. type \notin DOMAIN Numerals /\ type \notin OtherNumbers BY NamingAssumption
<1>2. /\ type \notin {"", "~", "null", "Null", "NULL"}
      /\ type \notin {"true", "True", "TRUE"} /\ type \notin {"false", "False", "FALSE"}
  BY Zenon DEF ColumnTypes
<1>. QED BY <1>1, <1>2, Zenon DEF Bare

LEMMA BareScaffolded ==
  ASSUME "scaffolded" \in SafeIdents
  PROVE  Bare("scaffolded") = Str("scaffolded")
<1>1. "scaffolded" \notin DOMAIN Numerals /\ "scaffolded" \notin OtherNumbers
  BY NamingAssumption
<1>2. /\ "scaffolded" \notin {"", "~", "null", "Null", "NULL"}
      /\ "scaffolded" \notin {"true", "True", "TRUE"}
      /\ "scaffolded" \notin {"false", "False", "FALSE"}
  BY Zenon
<1>. QED BY <1>1, <1>2, Zenon DEF Bare

\* The schema of a manifest without findings, as scaffold-dataset reads it.
Columnar(cols) ==
  /\ \E i : i \in DOMAIN cols
  /\ \A i \in DOMAIN cols : /\ cols[i].name \in SafeColumns /\ cols[i].type \in ColumnTypes
                            /\ Bare(cols[i].name) = Str(cols[i].name)
  /\ \A i, j \in DOMAIN cols : i # j => cols[i].name # cols[j].name

Rendered(cols) ==
  [i \in DOMAIN cols |-> Map([name |-> Bare(cols[i].name), type |-> Bare(cols[i].type)])]

LEMMA RenderedColumns ==
  ASSUME NEW cols, Columnar(cols)
  PROVE  \A i \in DOMAIN cols : /\ IsMap(Rendered(cols)[i])
                                /\ At(Rendered(cols)[i], "name") = Str(cols[i].name)
                                /\ At(Rendered(cols)[i], "type") = Str(cols[i].type)
<1>. SUFFICES ASSUME NEW i \in DOMAIN cols
              PROVE  /\ IsMap(Rendered(cols)[i])
                     /\ At(Rendered(cols)[i], "name") = Str(cols[i].name)
                     /\ At(Rendered(cols)[i], "type") = Str(cols[i].type)
  OBVIOUS
<1>. DEFINE f == [name |-> Bare(cols[i].name), type |-> Bare(cols[i].type)]
<1>1. Rendered(cols)[i] = Map(f) BY DEF Rendered
<1>2. "name" \in DOMAIN f /\ "type" \in DOMAIN f /\ f["name"] = Bare(cols[i].name) /\ f["type"] = Bare(cols[i].type)
  OBVIOUS
<1>3. Bare(cols[i].name) = Str(cols[i].name) /\ Bare(cols[i].type) = Str(cols[i].type)
  BY BareTypes DEF Columnar
<1>. HIDE DEF f
<1>. QED BY <1>1, <1>2, <1>3, MapHolds

\* The fields of the dataset that is rendered.
LEMMA RenderedFields ==
  ASSUME NEW cols, NEW tenant, "scaffolded" \in SafeIdents
  PROVE  LET raw == RenderDataset("scaffolded", cols, tenant)
         IN  /\ IsMap(raw) /\ DOMAIN raw[2] \subseteq {"id", "description", "manifest", "tenant_column", "schema"}
             /\ At(raw, "id") = Str("scaffolded") /\ At(raw, "manifest") = Str(Source)
             /\ At(raw, "source") = Nil
             /\ At(raw, "tenant_column") = IF tenant = Absent THEN Nil ELSE Bare(tenant)
             /\ At(raw, "schema") = List(Rendered(cols))
<1>. DEFINE col == IF tenant = Absent THEN Nil ELSE Bare(tenant)
            id == Bare("scaffolded")
            f == [id |-> id, description |-> id, manifest |-> Str(Source),
                  tenant_column |-> col, schema |-> List(Rendered(cols))]
<1>1. RenderDataset("scaffolded", cols, tenant) = Object(f)
  BY Zenon DEF RenderDataset, Absent, Rendered
<1>2. id = Str("scaffolded") BY BareScaffolded
<1>. HIDE DEF col, id
<1>3. /\ DOMAIN f = {"id", "description", "manifest", "tenant_column", "schema"}
      /\ f["id"] = id /\ f["manifest"] = Str(Source) /\ f["tenant_column"] = col
      /\ f["schema"] = List(Rendered(cols))
  OBVIOUS
<1>4. "source" \notin DOMAIN f BY <1>3
<1>. HIDE DEF f
<1>. QED BY <1>1, <1>2, <1>3, <1>4, ObjectHolds DEF col

LEMMA NoFinding ==
  ASSUME NEW cond, ~cond, NEW parent, NEW i, NEW field, NEW code
  PROVE  Tool!Flag(cond, parent, i, field, code) = {}
BY DEF Tool!Flag

\* What a dataset from a manifest needs to be without findings.
Sound(raw) ==
  LET items == Items(At(raw, "schema"))
      tenant == At(raw, "tenant_column")
  IN  /\ IsMap(raw) /\ DOMAIN raw[2] \subseteq {"id", "description", "manifest", "tenant_column", "schema"}
      /\ SafeIdent(At(raw, "id")) /\ IsNonEmpty(At(raw, "manifest"))
      /\ \E i : i \in DOMAIN items
      /\ \A i \in DOMAIN items : /\ SafeColumn(At(items[i], "name"))
                                 /\ IsOneOf(At(items[i], "type"), ColumnTypes)
      /\ \A i, j \in DOMAIN items : i # j => At(items[i], "name")[2] # At(items[j], "name")[2]
      /\ tenant = Nil \/ (SafeColumn(tenant) /\ \E i \in DOMAIN items : At(items[i], "name") = tenant)

LEMMA SoundSchema ==
  ASSUME NEW raw, Sound(raw)
  PROVE  Tool!Schema(At(raw, "schema")) = {}
<1>. DEFINE schema == At(raw, "schema")
            items == Items(schema)
            name(i) == Tool!Flag(~Tool!SafeColumn(Tool!At(items[i], "name")),
                                 "schema", i, "name", "unsafe_identifier")
            type(i) == Tool!Flag(~Tool!IsOneOf(Tool!At(items[i], "type"), Tool!ColumnTypes),
                                 "schema", i, "type", "unsupported_type")
            twice == Tool!Flag(Tool!HasDuplicates(Tool!SchemaNames(schema)),
                               Top, 0, "schema", "duplicate_column")
<1>1. Tool!Items(schema) = items /\ Tool!Top = Top /\ Tool!ColumnTypes = ColumnTypes
  <2>. HIDE DEF schema
  <2>. QED BY ToolReading, Zenon DEF Tool!ColumnTypes, ColumnTypes
<1>2. items # <<>> BY EmptyDomain DEF Sound
<1>3. Tool!Schema(schema) = (UNION {name(i) \cup type(i) : i \in DOMAIN items}) \cup twice
  <2>. HIDE DEF items, schema
  <2>. QED BY <1>1, <1>2, Zenon DEF Tool!Schema
<1>4. ASSUME NEW i \in DOMAIN items PROVE name(i) = {} /\ type(i) = {}
  <2>1. SafeColumn(At(items[i], "name")) /\ IsOneOf(At(items[i], "type"), ColumnTypes)
    BY DEF Sound
  <2>2. Tool!SafeColumn(Tool!At(items[i], "name")) /\ Tool!IsOneOf(Tool!At(items[i], "type"), Tool!ColumnTypes)
    <3>. HIDE DEF items
    <3>. QED BY <1>1, <2>1, ToolReading
  <2>. HIDE DEF items
  <2>. QED BY <2>2, NoFinding
<1>5. twice = {}
  <2>. DEFINE names == Names(items, "name")
  <2>1. Tool!SchemaNames(schema) = names
    <3>1. Tool!SchemaNames(schema) = Tool!Names(Tool!Items(schema), "name") BY DEF Tool!SchemaNames
    <3>. HIDE DEF schema, items
    <3>. QED BY <1>1, <3>1, NamesRead
  <2>2. \A i \in DOMAIN names : i \in DOMAIN items /\ names[i] = At(items[i], "name")
    <3>. HIDE DEF items
    <3>. QED BY DEF Names
  <2>. HIDE DEF names
  <2>3. \A i, j \in DOMAIN items : i # j => At(items[i], "name")[2] # At(items[j], "name")[2]
    BY DEF Sound
  <2>4. \A i, j \in DOMAIN names : i # j => names[i] # names[j]
    <3>. HIDE DEF items
    <3>. QED BY <2>2, <2>3
  <2>5. ~Tool!HasDuplicates(names) BY <2>4 DEF Tool!HasDuplicates, Tool!Same
  <2>. QED BY <2>1, <2>5, NoFinding
<1>. HIDE DEF name, type, twice, items, schema
<1>6. Tool!Schema(schema) = {} BY <1>3, <1>4, <1>5
<1>. QED BY <1>6 DEF schema

LEMMA SoundTenant ==
  ASSUME NEW raw, Sound(raw)
  PROVE  Tool!TenantColumn(At(raw, "tenant_column"), At(raw, "schema")) = {}
<1>. DEFINE schema == At(raw, "schema")
            tenant == At(raw, "tenant_column")
            names == Names(Items(schema), "name")
<1>1. CASE tenant = Nil
  <2>1. Tool!Nil = Nil /\ ~Tool!SafeColumn(Nil) BY ToolReading, KindsApart
  <2>2. Tool!TenantColumn(Nil, schema) = {} BY <2>1, Zenon DEF Tool!TenantColumn
  <2>. QED BY <1>1, <2>2
<1>2. CASE tenant # Nil
  <2>1. SafeColumn(tenant) /\ \E k \in DOMAIN Items(schema) : At(Items(schema)[k], "name") = tenant
    BY <1>2 DEF Sound
  <2>2. PICK k \in DOMAIN Items(schema) : At(Items(schema)[k], "name") = tenant
    <3>. HIDE DEF schema, tenant
    <3>. QED BY <2>1
  <2>. HIDE DEF schema, tenant
  <2>3. IsStr(tenant) /\ IsScalar(tenant) BY <2>1, KindsApart
  <2>4. k \in DOMAIN names /\ names[k] = tenant BY <2>2, <2>3 DEF Names
  <2>5. Tool!SchemaNames(schema) = names
    <3>1. Tool!SchemaNames(schema) = Tool!Names(Tool!Items(schema), "name") BY DEF Tool!SchemaNames
    <3>. QED BY <3>1, NamesRead, ToolReading
  <2>. HIDE DEF names
  <2>6. Tool!ContainsAny(names, tenant)
    BY <2>3, <2>4, ToolReading DEF Tool!ContainsAny, Tool!Same
  <2>7. Tool!SafeColumn(tenant) /\ tenant # Tool!Nil BY <1>2, <2>1, ToolReading
  <2>8. Tool!TenantColumn(tenant, schema)
          = Tool!Flag(~Tool!ContainsAny(names, tenant), Tool!Top, 0, "tenant_column", "unknown_column")
    BY <2>5, <2>7, Zenon DEF Tool!TenantColumn
  <2>9. Tool!TenantColumn(tenant, schema) = {} BY <2>6, <2>8, NoFinding
  <2>. QED BY <2>9 DEF tenant, schema
<1>. QED BY <1>1, <1>2

LEMMA SoundPasses ==
  ASSUME NEW raw, Sound(raw)
  PROVE  Tool!ValidateDataset(raw) = {}
<1>1. /\ IsMap(raw) /\ DOMAIN raw[2] \subseteq {"id", "description", "manifest", "tenant_column", "schema"}
      /\ SafeIdent(At(raw, "id")) /\ IsNonEmpty(At(raw, "manifest")) /\ At(raw, "source") = Nil
  <2>1. IsMap(raw) /\ DOMAIN raw[2] \subseteq {"id", "description", "manifest", "tenant_column", "schema"}
    BY DEF Sound
  <2>2. "source" \notin DOMAIN raw[2] BY <2>1
  <2>3. At(raw, "source") = Nil BY <2>2 DEF At, Has
  <2>. QED BY <2>3 DEF Sound
<1>2. /\ Tool!IsMap(raw) /\ Tool!Nil = Nil
      /\ \A key : Tool!At(raw, key) = At(raw, key)
  BY <1>1, ToolReading
<1>3. Tool!UnknownKeys(raw, Tool!DatasetKeys, Tool!Top, 0) = {}
  BY <1>1, <1>2 DEF Tool!UnknownKeys, Tool!DatasetKeys
<1>4. Tool!Identifier(At(raw, "id"), "id") = {}
  <2>1. Tool!IsStr(At(raw, "id")) /\ Tool!SafeIdent(At(raw, "id")) BY <1>1, KindsApart, ToolReading
  <2>. QED BY <2>1, NoFinding DEF Tool!Identifier
<1>5. Tool!SnapshotOrigin(At(raw, "manifest"), At(raw, "source")) = {}
  <2>1. /\ Tool!IsNonEmpty(At(raw, "manifest")) /\ At(raw, "manifest") # Tool!Nil /\ ~Tool!IsMap(Nil)
    BY <1>1, KindsApart, ToolReading
  <2>. QED BY <1>1, <1>2, <2>1, Zenon DEF Tool!SnapshotOrigin
<1>6. Tool!DatasetRules(raw) = {}
  BY <1>2, <1>3, <1>4, <1>5, SoundTenant, SoundSchema DEF Tool!DatasetRules
<1>7. Tool!IsMapping(raw) BY <1>2 DEF Tool!IsMapping
<1>. QED BY <1>6, <1>7 DEF Tool!ValidateDataset

LEMMA SoundBuilt ==
  ASSUME NEW raw, Sound(raw)
  PROVE  LET built == Tool!BuildDataset(raw)
             items == Items(At(raw, "schema"))
         IN  /\ DOMAIN built.types = {At(items[i], "name")[2] : i \in DOMAIN items}
             /\ \A i \in DOMAIN items : built.types[At(items[i], "name")[2]] = At(items[i], "type")[2]
             /\ built.tenant = Tool!StringOr(At(raw, "tenant_column"), Absent)
<1>. DEFINE items == Items(At(raw, "schema"))
            column(i) == At(items[i], "name")[2]
            place(n) == CHOOSE i \in DOMAIN items : column(i) = n
            types == [n \in {column(i) : i \in DOMAIN items} |-> At(items[place(n)], "type")[2]]
<1>1. Tool!Items(Tool!At(raw, "schema")) = items BY ToolReading
<1>2. Tool!BuildDataset(raw).types = types /\ Tool!BuildDataset(raw).tenant = Tool!StringOr(At(raw, "tenant_column"), Absent)
  <2>. DEFINE read == Tool!Items(Tool!At(raw, "schema"))
              tcol(i) == Tool!At(read[i], "name")[2]
              tplace(n) == CHOOSE i \in DOMAIN read : tcol(i) = n
  <2>1. Tool!BuildDataset(raw) =
          [id |-> Tool!At(raw, "id")[2],
           tenant |-> Tool!StringOr(Tool!At(raw, "tenant_column"), Tool!Absent),
           types |-> [n \in {tcol(i) : i \in DOMAIN read} |->
                        Tool!At(read[CHOOSE i \in DOMAIN read : tcol(i) = n], "type")[2]]]
    BY DEF Tool!BuildDataset
  <2>2. /\ Tool!BuildDataset(raw).types =
             [n \in {tcol(i) : i \in DOMAIN read} |-> Tool!At(read[tplace(n)], "type")[2]]
        /\ Tool!BuildDataset(raw).tenant = Tool!StringOr(Tool!At(raw, "tenant_column"), Tool!Absent)
    <3>. HIDE DEF read, tcol
    <3>. QED BY <2>1
  <2>3. read = items BY <1>1
  <2>4. Tool!Absent = Absent /\ \A v, key : Tool!At(v, key) = At(v, key) BY ToolReading
  <2>. HIDE DEF read, items
  <2>5. \A i : tcol(i) = column(i) BY <2>3, <2>4
  <2>. HIDE DEF tcol, column
  <2>6. \A n : tplace(n) = place(n) BY <2>3, <2>5
  <2>. HIDE DEF place, tplace
  <2>. QED BY <2>2, <2>3, <2>4, <2>5, <2>6
<1>3. \A i, j \in DOMAIN items : i # j => column(i) # column(j) BY DEF Sound
<1>. HIDE DEF items, column
<1>4. \A i \in DOMAIN items : place(column(i)) = i
  <2>. SUFFICES ASSUME NEW i \in DOMAIN items PROVE place(column(i)) = i OBVIOUS
  <2>1. \A j \in DOMAIN items : column(j) = column(i) <=> j = i BY <1>3
  <2>. QED BY <2>1
<1>. HIDE DEF place
<1>5. DOMAIN types = {column(i) : i \in DOMAIN items} OBVIOUS
<1>6. \A i \in DOMAIN items : types[column(i)] = At(items[i], "type")[2] BY <1>4
<1>. HIDE DEF types
<1>. QED BY <1>2, <1>5, <1>6 DEF items, column

LEMMA RenderedIsSound ==
  ASSUME NEW cols, Columnar(cols), "scaffolded" \in SafeIdents,
         NEW tenant, tenant # Absent => HasColumn(cols, tenant)
  PROVE  Sound(RenderDataset("scaffolded", cols, tenant))
<1>. DEFINE raw == RenderDataset("scaffolded", cols, tenant)
            items == Rendered(cols)
<1>1. /\ IsMap(raw) /\ DOMAIN raw[2] \subseteq {"id", "description", "manifest", "tenant_column", "schema"}
      /\ At(raw, "id") = Str("scaffolded") /\ At(raw, "manifest") = Str(Source)
      /\ At(raw, "tenant_column") = IF tenant = Absent THEN Nil ELSE Bare(tenant)
      /\ Items(At(raw, "schema")) = items
  BY RenderedFields, ListHolds
<1>2. /\ DOMAIN items = DOMAIN cols
      /\ \A i \in DOMAIN cols : /\ At(items[i], "name") = Str(cols[i].name)
                                /\ At(items[i], "type") = Str(cols[i].type)
  <2>1. DOMAIN items = DOMAIN cols BY DEF Rendered
  <2>. QED BY <2>1, RenderedColumns
<1>. HIDE DEF raw, items
<1>3. SafeIdent(At(raw, "id")) /\ IsNonEmpty(At(raw, "manifest"))
  <2>1. Source # Absent BY Zenon DEF Source, Absent
  <2>. QED BY <1>1, <2>1, StrHolds
<1>4. \A i \in DOMAIN items : /\ SafeColumn(At(items[i], "name")) /\ At(items[i], "name")[2] = cols[i].name
                              /\ IsOneOf(At(items[i], "type"), ColumnTypes)
  BY <1>2, StrHolds DEF Columnar
<1>5. ASSUME tenant # Absent
      PROVE  /\ At(raw, "tenant_column") = Str(tenant) /\ SafeColumn(Str(tenant))
             /\ \E i \in DOMAIN items : At(items[i], "name") = Str(tenant)
  <2>1. PICK k \in DOMAIN cols : cols[k].name = tenant BY <1>5 DEF HasColumn
  <2>2. Bare(tenant) = Str(tenant) /\ tenant \in SafeColumns BY <2>1 DEF Columnar
  <2>. QED BY <1>1, <1>2, <1>5, <2>1, <2>2, StrHolds
<1>6. Sound(raw) BY <1>1, <1>2, <1>3, <1>4, <1>5 DEF Sound, Columnar
<1>. QED BY <1>6 DEF raw

LEMMA TextsApart ==
  ASSUME NEW items, CheckManifestSchema(items) = {}
  PROVE  \A i, j \in DOMAIN items : i # j => Text(items[i], "name") # Text(items[j], "name")
<1>. DEFINE each == UNION {Flag(Text(items[i], "name") \notin SafeColumns, "schema", i, "name", "unsafe_identifier")
                           \cup Flag(Text(items[i], "type") \notin ColumnTypes,
                                     "schema", i, "type", "unsupported_type") : i \in DOMAIN items}
            twice == Flag(\E i, j \in DOMAIN items : i # j /\ Text(items[i], "name") = Text(items[j], "name"),
                          Top, 0, "schema", "duplicate_column")
<1>1. items # <<>> BY SchemaPasses
<1>2. CheckManifestSchema(items) = each \cup twice BY <1>1, Zenon DEF CheckManifestSchema
<1>3. twice = {}
  <2>. HIDE DEF each, twice
  <2>. QED BY <1>2
<1>. QED BY <1>3, NoFlag

(* The schema of a manifest without findings.                              *)
LEMMA ManifestColumnar ==
  ASSUME NEW m, ValidateManifest(m) = {},
         \A col \in Elements(ReadSchema(m)) : Bare(col.name) = Str(col.name)
  PROVE  LET items == Items(At(m, "schema"))
             cols == ReadSchema(m)
         IN  /\ DOMAIN cols = DOMAIN items
             /\ \A i \in DOMAIN cols : /\ cols[i].name = At(items[i], "name")[2]
                                       /\ cols[i].type = At(items[i], "type")[2]
                                       /\ IsStr(At(items[i], "name"))
             /\ (\E i : i \in DOMAIN cols) => Columnar(cols)
<1>. DEFINE items == Items(At(m, "schema"))
            cols == ReadSchema(m)
<1>1. cols = [i \in DOMAIN items |-> [name |-> Text(items[i], "name"), type |-> Text(items[i], "type")]]
  <2>1. IsMap(m) BY FieldsThere
  <2>2. m \notin {Missing, Unreadable} BY <2>1 DEF Missing, Unreadable, IsMap
  <2>. QED BY <2>2, Zenon DEF ReadSchema
<1>2. /\ \A i \in DOMAIN items : /\ SafeColumn(At(items[i], "name"))
                                 /\ IsOneOf(At(items[i], "type"), ColumnTypes)
      /\ \A i, j \in DOMAIN items : i # j => At(items[i], "name") # At(items[j], "name")
      /\ CheckManifestSchema(items) = {}
  BY ManifestPasses, SchemaPasses
<1>. HIDE DEF items, cols
<1>3. /\ DOMAIN cols = DOMAIN items
      /\ \A i \in DOMAIN cols : /\ cols[i].name = At(items[i], "name")[2]
                                /\ cols[i].type = At(items[i], "type")[2]
                                /\ IsStr(At(items[i], "name"))
                                /\ cols[i].name \in SafeColumns /\ cols[i].type \in ColumnTypes
  BY <1>1, <1>2, TextIs DEF SafeColumn, IsOneOf
<1>4. \A i, j \in DOMAIN cols : i # j => cols[i].name # cols[j].name
  <2>1. CheckManifestSchema(items) = {} BY <1>2
  <2>. QED BY <1>1, <1>3, <2>1, TextsApart
<1>5. \A i \in DOMAIN cols : Bare(cols[i].name) = Str(cols[i].name)
  BY DEF Elements, cols
<1>6. (\E i : i \in DOMAIN cols) => Columnar(cols) BY <1>3, <1>4, <1>5 DEF Columnar
<1>. QED BY <1>3, <1>6 DEF items, cols

\* What scaffold-dataset makes of the manifest that lies there.
Scaffolded(doc) ==
  LET cols == ReadSchema(dir[Source])
  IN  /\ \E i : i \in DOMAIN cols
      /\ "scaffolded" \in SafeIdents
      /\ \E tenant : /\ tenant # Absent => HasColumn(cols, tenant)
                     /\ doc = RenderDataset("scaffolded", cols, tenant)

\* A dataset that is to be written or was written, with no edit since the
\* command began, is of the manifest that lies there.
ScaffoldInv ==
  (command.name = "scaffold" /\ command.alone /\ Target \in Paths) =>
    /\ command.files # <<>> =>
         \E doc : command.files = <<[path |-> Target, doc |-> doc]>> /\ Scaffolded(doc)
    /\ command.result = "done" => Scaffolded(dir[Target])

LEMMA ReadNothing ==
  ASSUME NEW m, ~\E i : i \in DOMAIN ReadSchema(m)
  PROVE  ReadSchema(m) = <<>>
<1>. DEFINE cols == Items(At(m, "schema"))
            read == [i \in DOMAIN cols |-> [name |-> Text(cols[i], "name"), type |-> Text(cols[i], "type")]]
<1>1. ReadSchema(m) = IF m \in {Missing, Unreadable} THEN <<>> ELSE read
  BY Zenon DEF ReadSchema
<1>2. CASE m \in {Missing, Unreadable} BY <1>1, <1>2
<1>3. CASE m \notin {Missing, Unreadable}
  <2>1. ReadSchema(m) = read BY <1>1, <1>3
  <2>2. DOMAIN cols = {}
    <3>. HIDE DEF cols
    <3>. QED BY <2>1
  <2>. HIDE DEF cols
  <2>. QED BY <2>1, <2>2, EmptyDomain
<1>. QED BY <1>2, <1>3

LEMMA ScaffoldBegins ==
  ASSUME NEW tenant, ScaffoldDataset("scaffolded", tenant)
  PROVE  ScaffoldInv'
<1>. DEFINE cols == ReadSchema(dir[Source])
            refused == cols = <<>> \/ "scaffolded" \notin SafeIdents \/ (tenant # Absent /\ ~HasColumn(cols, tenant))
            doc == RenderDataset("scaffolded", cols, tenant)
            file == [path |-> Target, doc |-> doc]
<1>1. /\ command' = [name |-> "scaffold", force |-> TRUE, there |-> There, alone |-> TRUE,
                     files |-> IF refused THEN <<>> ELSE <<file>>,
                     result |-> IF refused THEN "failed" ELSE Absent]
      /\ dir' = dir
  BY Zenon DEF ScaffoldDataset, Absent
<1>2. command'.files # <<>> => ~refused /\ command'.files = <<file>>
  <2>. HIDE DEF refused, file
  <2>. QED BY <1>1
<1>3. ~refused => Scaffolded(doc)
  <2>1. ~refused => \E i : i \in DOMAIN cols BY ReadNothing
  <2>. HIDE DEF cols
  <2>. QED BY <2>1 DEF Scaffolded, cols
<1>4. command'.result # "done"
  <2>1. "done" # "failed" /\ "done" # Absent BY Zenon DEF Absent
  <2>. HIDE DEF refused, file
  <2>. QED BY <1>1, <2>1
<1>5. ASSUME NEW d, Scaffolded(d) PROVE Scaffolded(d)'
  BY <1>1, <1>5 DEF Scaffolded
<1>6. command'.files # <<>> =>
        \E d : command'.files = <<[path |-> Target, doc |-> d]>> /\ Scaffolded(d)'
  <2>. HIDE DEF refused, doc
  <2>. QED BY <1>2, <1>3, <1>5
<1>. HIDE DEF refused, doc
<1>. QED BY <1>4, <1>6 DEF ScaffoldInv

LEMMA ScaffoldWrites ==
  ASSUME KeepInv, ScaffoldInv, WriteFile
  PROVE  ScaffoldInv'
<1>. SUFFICES ASSUME command'.name = "scaffold", command'.alone, Target \in Paths'
              PROVE  /\ command'.files # <<>> =>
                          \E doc : /\ command'.files = <<[path |-> Target, doc |-> doc]>>
                                   /\ Scaffolded(doc)'
                     /\ command'.result = "done" => Scaffolded(dir[Target])'
  BY DEF ScaffoldInv
<1>1. /\ command.files # <<>>
      /\ dir' = [dir EXCEPT ![Head(command.files).path] = Head(command.files).doc]
      /\ command'.files = Tail(command.files)
      /\ command.name = "scaffold" /\ command.alone /\ Target \in Paths
  BY DEF WriteFile, KeepInv, CommandFields, Paths
<1>2. PICK doc : command.files = <<[path |-> Target, doc |-> doc]>> /\ Scaffolded(doc)
  BY <1>1 DEF ScaffoldInv
<1>3. /\ Head(command.files).path = Target /\ Head(command.files).doc = doc
      /\ command'.files = <<>>
  BY <1>1, <1>2
<1>4. dir'[Target] = doc
  BY <1>1, <1>3 DEF Paths
<1>5. dir'[Source] = dir[Source]
  <2>1. Source # Target BY Zenon DEF Source, Target
  <2>. QED BY <1>1, <1>3, <2>1
<1>6. Scaffolded(doc)'
  BY <1>2, <1>5 DEF Scaffolded
<1>. QED BY <1>3, <1>4, <1>6

LEMMA ScaffoldInvNext ==
  ASSUME KeepInv, ScaffoldInv, [Next]_vars
  PROVE  ScaffoldInv'
<1>1. CASE UNCHANGED toolVars
  BY <1>1 DEF toolVars, ScaffoldInv, Scaffolded, Paths
<1>2. CASE ToolNext
  <2>1. ASSUME NEW e \in Edits, Edit(e)
        PROVE  ScaffoldInv'
    <3>1. command'.alone => command'.name # "scaffold"
      <4>1. "none" # "scaffold" BY Zenon
      <4>. QED BY <2>1, <4>1 DEF Edit, KeepInv, CommandFields
    <3>. QED BY <3>1 DEF ScaffoldInv
  <2>2. ASSUME NEW public \in BOOLEAN, NEW force \in BOOLEAN, InitCommand(public, force)
        PROVE  ScaffoldInv'
    <3>1. command'.name = "init" BY <2>2, Zenon DEF InitCommand
    <3>2. command'.name # "scaffold" BY <3>1, Zenon
    <3>. QED BY <3>2, Zenon DEF ScaffoldInv
  <2>3. ASSUME NEW tenant \in {"", "tenant_id"}, ScaffoldDataset("scaffolded", tenant)
        PROVE  ScaffoldInv'
    BY <2>3, ScaffoldBegins
  <2>4. CASE WriteFile
    BY <2>4, ScaffoldWrites
  <2>5. CASE WriteFails
    <3>1. command'.files = <<>> /\ command'.result = "failed"
      BY <2>5 DEF WriteFails, KeepInv, CommandFields
    <3>. QED BY <3>1 DEF ScaffoldInv
  <2>6. CASE CommandEnds
    <3>1. command'.name = "none" BY <2>6, Zenon DEF CommandEnds, Idle
    <3>2. command'.name # "scaffold" BY <3>1, Zenon
    <3>. QED BY <3>2, Zenon DEF ScaffoldInv
  <2>. QED
    BY <1>2, <2>1, <2>2, <2>3, <2>4, <2>5, <2>6, Zenon DEF ToolNext
<1>. QED
  BY <1>1, <1>2 DEF Next, vars

(* The dataset that scaffold-dataset writes for a manifest without         *)
(* findings (scaffold_dataset.go) has none either (validate.go), and the   *)
(* snapshot of the manifest serves it (Offloader.Manifest.compatibility),  *)
(* whatever columns it has, if YAML reads their names as strings.          *)
THEOREM ScaffoldedServe ==
  Spec => []((Target \in Paths /\ Source \in Paths /\ (\E V : Decoded(V))) => ScaffoldServes)
<1>1. ASSUME ScaffoldInv, Target \in Paths, Source \in Paths, NEW V, Decoded(V)
      PROVE  ScaffoldServes
  <2>. DEFINE m == dir[Source]
              cols == ReadSchema(m)
              items == Items(At(m, "schema"))
              types == Tool!BuildDataset(dir[Target]).types
  <2>. SUFFICES ASSUME command.name = "scaffold", command.result = "done", command.alone,
                       ValidateManifest(m) = {},
                       \A col \in Elements(cols) : Bare(col.name) = Str(col.name)
                PROVE  Tool!ValidateDataset(dir[Target]) = {} /\ Compatible(m, types)
    BY Zenon DEF ScaffoldServes
  <2>1. Scaffolded(dir[Target]) BY <1>1 DEF ScaffoldInv
  <2>2. PICK tenant : /\ tenant # Absent => HasColumn(cols, tenant)
                      /\ dir[Target] = RenderDataset("scaffolded", cols, tenant)
    BY <2>1 DEF Scaffolded
  <2>3. "scaffolded" \in SafeIdents BY <2>1 DEF Scaffolded
  <2>4. /\ Columnar(cols) /\ DOMAIN cols = DOMAIN items
        /\ \A i \in DOMAIN cols : /\ cols[i].name = At(items[i], "name")[2]
                                  /\ cols[i].type = At(items[i], "type")[2]
                                  /\ IsStr(At(items[i], "name"))
    <3>1. \E i : i \in DOMAIN cols BY <2>1 DEF Scaffolded
    <3>. QED BY <3>1, ManifestColumnar
  <2>5. Sound(dir[Target]) BY <2>2, <2>3, <2>4, RenderedIsSound
  <2>6. /\ DOMAIN types = {cols[i].name : i \in DOMAIN cols}
        /\ \A i \in DOMAIN cols : types[cols[i].name] = cols[i].type
    <3>. DEFINE made == Items(At(dir[Target], "schema"))
    <3>1. made = Rendered(cols) BY <2>2, <2>3, RenderedFields, ListHolds
    <3>2. /\ DOMAIN made = DOMAIN cols
          /\ \A i \in DOMAIN cols : At(made[i], "name") = Str(cols[i].name) /\ At(made[i], "type") = Str(cols[i].type)
      <4>1. DOMAIN Rendered(cols) = DOMAIN cols BY DEF Rendered
      <4>. HIDE DEF made, cols
      <4>. QED BY <2>4, <3>1, <4>1, RenderedColumns
    <3>3. /\ DOMAIN types = {At(made[i], "name")[2] : i \in DOMAIN made}
          /\ \A i \in DOMAIN made : types[At(made[i], "name")[2]] = At(made[i], "type")[2]
      BY <2>5, SoundBuilt
    <3>. HIDE DEF made, types, cols
    <3>4. \A i \in DOMAIN made : At(made[i], "name")[2] = cols[i].name /\ At(made[i], "type")[2] = cols[i].type
      BY <3>2, StrHolds
    <3>. QED BY <3>2, <3>3, <3>4
  <2>7. \A i \in DOMAIN items : At(items[i], "name") = Str(cols[i].name)
    <3>1. IsMap(m) BY FieldsThere
    <3>2. m \in Documents(V) BY <1>1 DEF Decoded, Paths
    <3>3. m \in V BY <3>1, <3>2 DEF Documents, Missing, Unreadable, Empty, IsMap
    <3>. HIDE DEF m
    <3>4. \A i \in DOMAIN items : At(items[i], "name") \in V BY <1>1, <3>3, TreeInside DEF Decoded
    <3>. HIDE DEF items
    <3>. QED BY <1>1, <2>4, <3>4, TreeInside DEF Decoded
  <2>. HIDE DEF m, cols, items, types
  <2>8. \A name \in DOMAIN types : \E i \in DOMAIN items :
           At(items[i], "name") = Str(name) /\ Wide(At(items[i], "type")[2], types[name])
    BY <2>4, <2>6, <2>7 DEF Wide
  <2>9. {At(items[i], "name")[2] : i \in DOMAIN items} \subseteq DOMAIN types
    BY <2>4, <2>6
  <2>10. Compatible(m, types)
    BY <2>8, <2>9 DEF Compatible, items
  <2>. QED BY <2>5, <2>10, SoundPasses
<1>2. ScaffoldInv /\ (Target \in Paths /\ Source \in Paths /\ (\E V : Decoded(V))) => ScaffoldServes
  BY <1>1
<1>3. Init => KeepInv /\ ScaffoldInv
  <2>1. ASSUME Init PROVE command = Idle BY <2>1 DEF Init, ToolInit
  <2>2. Idle.name # "scaffold"
    <3>1. Idle.name = "none" BY Zenon DEF Idle
    <3>. QED BY <3>1, Zenon
  <2>. QED BY <2>1, <2>2, IdleKeeps DEF ScaffoldInv
<1>4. KeepInv /\ ScaffoldInv /\ [Next]_vars => KeepInv' /\ ScaffoldInv'
  BY KeepInvNext, ScaffoldInvNext
<1>. QED
  BY <1>2, <1>3, <1>4, PTL DEF Spec

-----------------------------------------------------------------------------
(* The starter project of init                                             *)

LEMMA ColumnHolds ==
  ASSUME NEW name, NEW type
  PROVE  /\ IsMap(Column(name, type))
         /\ At(Column(name, type), "name") = Str(name) /\ At(Column(name, type), "type") = Str(type)
<1>. DEFINE f == [name |-> Str(name), type |-> Str(type)]
<1>1. Column(name, type) = Map(f) BY DEF Column
<1>2. "name" \in DOMAIN f /\ "type" \in DOMAIN f /\ f["name"] = Str(name) /\ f["type"] = Str(type)
  OBVIOUS
<1>. HIDE DEF f
<1>. QED BY <1>1, <1>2, MapHolds

\* The names and types of the columns of a starter project's dataset.
StarterNames(public) ==
  IF public THEN <<"event_date", "account_id", "event_type", "event_count">>
            ELSE <<"event_date", "tenant_id", "account_id", "event_type", "event_count">>
StarterTypes(public) ==
  IF public THEN <<"DATE", "VARCHAR", "VARCHAR", "BIGINT">>
            ELSE <<"DATE", "VARCHAR", "VARCHAR", "VARCHAR", "BIGINT">>

\* A list whose second part may be left out.
LEMMA JoinsFour ==
  ASSUME NEW a, NEW b, NEW c, NEW d
  PROVE  LET s == <<a>> \o <<>> \o <<b, c, d>>
         IN  DOMAIN s = 1 .. 4 /\ s[1] = a /\ s[2] = b /\ s[3] = c /\ s[4] = d
OBVIOUS

LEMMA JoinsFive ==
  ASSUME NEW a, NEW b, NEW c, NEW d, NEW e
  PROVE  LET s == <<a>> \o <<e>> \o <<b, c, d>>
         IN  DOMAIN s = 1 .. 5 /\ s[1] = a /\ s[2] = e /\ s[3] = b /\ s[4] = c /\ s[5] = d
OBVIOUS

LEMMA StarterFields ==
  ASSUME NEW public \in BOOLEAN
  PROVE  LET raw == DatasetTemplate(public)
             items == Items(At(raw, "schema"))
         IN  /\ IsMap(raw) /\ DOMAIN raw[2] \subseteq {"id", "description", "manifest", "tenant_column", "schema"}
             /\ At(raw, "id") = Str("events") /\ At(raw, "manifest") = Str("data/events/manifest.json")
             /\ At(raw, "tenant_column") = IF public THEN Nil ELSE Str("tenant_id")
             /\ DOMAIN items = IF public THEN 1 .. 4 ELSE 1 .. 5
             /\ \A i \in DOMAIN items : items[i] = Column(StarterNames(public)[i], StarterTypes(public)[i])
<1>. DEFINE col == IF public THEN Nil ELSE Str("tenant_id")
            date == Column("event_date", "DATE")
            tenant == Column("tenant_id", "VARCHAR")
            account == Column("account_id", "VARCHAR")
            type == Column("event_type", "VARCHAR")
            count == Column("event_count", "BIGINT")
            cols == <<date>> \o (IF public THEN <<>> ELSE <<tenant>>) \o <<account, type, count>>
            f == [id |-> Str("events"), description |-> Str("text"),
                  manifest |-> Str("data/events/manifest.json"), tenant_column |-> col, schema |-> List(cols)]
            raw == DatasetTemplate(public)
<1>1. raw = Object(f) BY Zenon DEF DatasetTemplate
<1>2. /\ DOMAIN f = {"id", "description", "manifest", "tenant_column", "schema"}
      /\ f["id"] = Str("events") /\ f["manifest"] = Str("data/events/manifest.json")
      /\ f["tenant_column"] = col /\ f["schema"] = List(cols)
  <2>. HIDE DEF col, cols
  <2>. QED OBVIOUS
<1>. HIDE DEF f, raw
<1>3. Items(List(cols)) = cols BY ListHolds
<1>4. /\ DOMAIN cols = IF public THEN 1 .. 4 ELSE 1 .. 5
      /\ \A i \in DOMAIN cols : cols[i] = Column(StarterNames(public)[i], StarterTypes(public)[i])
  <2>1. CASE public
    <3>1. cols = <<date>> \o <<>> \o <<account, type, count>> BY <2>1
    <3>2. DOMAIN cols = 1 .. 4 /\ cols[1] = date /\ cols[2] = account /\ cols[3] = type /\ cols[4] = count
      <4>. HIDE DEF date, account, type, count
      <4>. QED BY <3>1, JoinsFour
    <3>. HIDE DEF cols
    <3>3. \A i \in 1 .. 4 : cols[i] = Column(StarterNames(public)[i], StarterTypes(public)[i])
      BY <2>1, <3>2 DEF StarterNames, StarterTypes
    <3>. HIDE DEF date, account, type, count
    <3>. QED BY <2>1, <3>2, <3>3
  <2>2. CASE ~public
    <3>1. cols = <<date>> \o <<tenant>> \o <<account, type, count>> BY <2>2
    <3>2. /\ DOMAIN cols = 1 .. 5 /\ cols[1] = date /\ cols[2] = tenant
          /\ cols[3] = account /\ cols[4] = type /\ cols[5] = count
      <4>. HIDE DEF date, account, type, count, tenant
      <4>. QED BY <3>1, JoinsFive
    <3>. HIDE DEF cols
    <3>3. \A i \in 1 .. 5 : cols[i] = Column(StarterNames(public)[i], StarterTypes(public)[i])
      BY <2>2, <3>2 DEF StarterNames, StarterTypes
    <3>. HIDE DEF date, account, type, count, tenant
    <3>. QED BY <2>2, <3>2, <3>3
  <2>. QED BY <2>1, <2>2
<1>. HIDE DEF cols
<1>. QED BY <1>1, <1>2, <1>3, <1>4, ObjectHolds DEF raw, col

\* The dataset of a starter project has no findings; its tenant and its types.
LEMMA StarterNamesSafe ==
  ASSUME NEW public \in BOOLEAN
  PROVE  LET D == IF public THEN 1 .. 4 ELSE 1 .. 5
         IN  /\ \A i \in D : StarterNames(public)[i] \in SafeColumns /\ StarterTypes(public)[i] \in ColumnTypes
             /\ \A i, j \in D : i # j => StarterNames(public)[i] # StarterNames(public)[j]
<1>1. {"event_date", "tenant_id", "account_id", "event_type", "event_count"} \subseteq SafeColumns
  BY StarterAssumption, StringAssumption
<1>2. {"DATE", "VARCHAR", "BIGINT"} \subseteq ColumnTypes BY DEF ColumnTypes
<1>. QED BY <1>1, <1>2 DEF StarterNames, StarterTypes

LEMMA StarterIsSound ==
  ASSUME NEW public \in BOOLEAN
  PROVE  Sound(DatasetTemplate(public))
<1>. DEFINE raw == DatasetTemplate(public)
            items == Items(At(raw, "schema"))
            D == IF public THEN 1 .. 4 ELSE 1 .. 5
            names == StarterNames(public)
            types == StarterTypes(public)
<1>1. /\ IsMap(raw) /\ DOMAIN raw[2] \subseteq {"id", "description", "manifest", "tenant_column", "schema"}
      /\ At(raw, "id") = Str("events") /\ At(raw, "manifest") = Str("data/events/manifest.json")
      /\ At(raw, "tenant_column") = IF public THEN Nil ELSE Str("tenant_id")
      /\ DOMAIN items = D
      /\ \A i \in D : items[i] = Column(names[i], types[i])
  BY StarterFields
<1>2. /\ \A i \in D : names[i] \in SafeColumns /\ types[i] \in ColumnTypes
      /\ \A i, j \in D : i # j => names[i] # names[j]
  BY StarterNamesSafe
<1>3. ~public => 2 \in D /\ names[2] = "tenant_id" /\ "tenant_id" \in SafeColumns
  BY <1>2 DEF StarterNames
<1>4. \E i : i \in D BY SMT
<1>5. SafeIdent(Str("events")) /\ IsNonEmpty(Str("data/events/manifest.json"))
  <2>1. "data/events/manifest.json" # Absent BY Zenon DEF Absent
  <2>2. "events" \in SafeIdents BY StarterAssumption
  <2>. QED BY <2>1, <2>2, StrHolds
<1>. HIDE DEF raw, items, D, names, types
<1>6. \A i \in D : At(items[i], "name") = Str(names[i]) /\ At(items[i], "type") = Str(types[i])
  BY <1>1, ColumnHolds
<1>7. \A i \in D : /\ SafeColumn(At(items[i], "name")) /\ At(items[i], "name")[2] = names[i]
                   /\ IsOneOf(At(items[i], "type"), ColumnTypes)
  BY <1>2, <1>6, StrHolds
<1>8. At(raw, "tenant_column") # Nil =>
        SafeColumn(At(raw, "tenant_column")) /\ \E i \in D : At(items[i], "name") = At(raw, "tenant_column")
  BY <1>1, <1>3, <1>6, StrHolds
<1>. QED BY <1>1, <1>2, <1>4, <1>5, <1>7, <1>8 DEF Sound, raw, items

\* What the endpoint of a starter project is judged against.
StarterSet(ds, public) ==
  /\ ds.tenant = IF public THEN Absent ELSE "tenant_id"
  /\ {"account_id", "event_date", "event_count"} \subseteq DOMAIN ds.types
  /\ ds.types["account_id"] = "VARCHAR"
  /\ ds.types["event_date"] = "DATE"
  /\ ds.types["event_count"] = "BIGINT"

LEMMA StarterBuilt ==
  ASSUME NEW public \in BOOLEAN
  PROVE  StarterSet(Tool!BuildDataset(DatasetTemplate(public)), public)
<1>. DEFINE raw == DatasetTemplate(public)
            ds == Tool!BuildDataset(raw)
            items == Items(At(raw, "schema"))
            D == IF public THEN 1 .. 4 ELSE 1 .. 5
            names == StarterNames(public)
            types == StarterTypes(public)
<1>1. /\ At(raw, "tenant_column") = IF public THEN Nil ELSE Str("tenant_id")
      /\ DOMAIN items = D
      /\ \A i \in D : items[i] = Column(names[i], types[i])
  BY StarterFields
<1>2. /\ DOMAIN ds.types = {At(items[i], "name")[2] : i \in DOMAIN items}
      /\ \A i \in DOMAIN items : ds.types[At(items[i], "name")[2]] = At(items[i], "type")[2]
      /\ ds.tenant = Tool!StringOr(At(raw, "tenant_column"), Absent)
  BY StarterIsSound, SoundBuilt
<1>3. ds.tenant = IF public THEN Absent ELSE "tenant_id"
  <2>1. /\ Tool!StringOr(Nil, Absent) = Absent
        /\ Tool!StringOr(Str("tenant_id"), Absent) = "tenant_id"
    <3>1. "tenant_id" # Absent BY Zenon DEF Absent
    <3>2. Tool!IsNonEmpty(Str("tenant_id")) /\ ~Tool!IsNonEmpty(Nil) /\ Str("tenant_id")[2] = "tenant_id"
      BY <3>1, StrHolds, ToolReading DEF IsNonEmpty, IsStr, Nil
    <3>. QED BY <3>2 DEF Tool!StringOr
  <2>. HIDE DEF ds, raw
  <2>. QED BY <1>1, <1>2, <2>1
<1>4. \E i, j, k \in D : /\ names[i] = "event_date" /\ types[i] = "DATE"
                         /\ names[j] = "account_id" /\ types[j] = "VARCHAR"
                         /\ names[k] = "event_count" /\ types[k] = "BIGINT"
  <2>1. CASE public
    <3>1. /\ 1 \in D /\ names[1] = "event_date" /\ types[1] = "DATE"
          /\ 2 \in D /\ names[2] = "account_id" /\ types[2] = "VARCHAR"
          /\ 4 \in D /\ names[4] = "event_count" /\ types[4] = "BIGINT"
      BY <2>1 DEF StarterNames, StarterTypes
    <3>. HIDE DEF D, names, types
    <3>. QED BY <3>1
  <2>2. CASE ~public
    <3>1. /\ 1 \in D /\ names[1] = "event_date" /\ types[1] = "DATE"
          /\ 3 \in D /\ names[3] = "account_id" /\ types[3] = "VARCHAR"
          /\ 5 \in D /\ names[5] = "event_count" /\ types[5] = "BIGINT"
      BY <2>2 DEF StarterNames, StarterTypes
    <3>. HIDE DEF D, names, types
    <3>. QED BY <3>1
  <2>. QED BY <2>1, <2>2
<1>. HIDE DEF raw, items, D, names, types, ds
<1>5. \A i \in D : At(items[i], "name")[2] = names[i] /\ At(items[i], "type")[2] = types[i]
  BY <1>1, ColumnHolds, StrHolds
<1>6. \A i \in D : names[i] \in DOMAIN ds.types /\ ds.types[names[i]] = types[i]
  BY <1>1, <1>2, <1>5
<1>7. StarterSet(ds, public) BY <1>3, <1>4, <1>6 DEF StarterSet
<1>. QED BY <1>7 DEF ds, raw

\* A mapping with no other keys than those allowed.
LEMMA KnownKeys ==
  ASSUME NEW v, NEW allowed, IsMap(v) => DOMAIN v[2] \subseteq allowed, NEW parent, NEW i
  PROVE  Tool!UnknownKeys(v, allowed, parent, i) = {}
BY ToolReading DEF Tool!UnknownKeys

\* The parts of the endpoint of a starter project.
StarterParams ==
  <<ParamOf("account_id", "string", FALSE), ParamOf("from", "date", TRUE), ParamOf("to", "date", TRUE)>>
StarterSelects ==
  <<Map([as |-> Str("account_id"), column |-> Str("account_id")]),
    Map([as |-> Str("event_count_total"), column |-> Str("event_count"), agg |-> Str("sum")])>>
StarterFilters ==
  <<FilterOn("account_id", "eq", "account_id"), FilterOn("event_date", "gte", "from"),
    FilterOn("event_date", "lte", "to")>>
StarterOrder == <<Map([column |-> Str("event_count_total"), dir |-> Str("desc")])>>
StarterQuery ==
  Map([group_by |-> List(<<Str("account_id")>>), select |-> List(StarterSelects),
       filters |-> List(StarterFilters), order_by |-> List(StarterOrder)])
StarterPages == Map([default_limit |-> Int_(1), max_limit |-> Int_(2)])
StarterColumns == <<Str("account_id"), Str("event_count_total")>>

LEMMA EndpointFields ==
  ASSUME NEW public \in BOOLEAN
  PROVE  LET raw == EndpointTemplate(public)
         IN  /\ IsMap(raw) /\ DOMAIN raw[2] \subseteq Tool!EndpointKeys
             /\ At(raw, "name") = Str("events_by_day") /\ At(raw, "version") = Int_(1)
             /\ At(raw, "owner") = Str("text") /\ At(raw, "dataset") = Str("events")
             /\ At(raw, "serving_mode") = Str("local_table")
             /\ At(raw, "tenant") = IF public THEN Nil ELSE Map([column |-> Str("tenant_id")])
             /\ At(raw, "freshness") = Map([max_staleness_minutes |-> Int_(2)])
             /\ At(raw, "params") = List(StarterParams) /\ At(raw, "combinations") = Nil
             /\ At(raw, "query") = StarterQuery
             /\ At(raw, "columns") = List(StarterColumns)
             /\ At(raw, "pagination") = StarterPages
             /\ At(raw, "cache") = Map([policy |-> Str("snapshot")])
<1>. DEFINE tenant == IF public THEN Nil ELSE Map([column |-> Str("tenant_id")])
            fresh == Map([max_staleness_minutes |-> Int_(2)])
            cache == Map([policy |-> Str("snapshot")])
            params == List(StarterParams)
            columns == List(StarterColumns)
            f == [name |-> Str("events_by_day"), version |-> Int_(1), owner |-> Str("text"),
                  description |-> Str("text"), dataset |-> Str("events"), serving_mode |-> Str("local_table"),
                  tenant |-> tenant, freshness |-> fresh, params |-> params, query |-> StarterQuery,
                  columns |-> columns, pagination |-> StarterPages, cache |-> cache]
<1>1. EndpointTemplate(public) = Object(f)
  BY Zenon DEF EndpointTemplate, StarterParams, StarterColumns, StarterQuery, StarterPages, StarterSelects,
     StarterFilters, StarterOrder
<1>. HIDE DEF tenant, fresh, cache, params, columns
<1>2. /\ DOMAIN f = {"name", "version", "owner", "description", "dataset", "serving_mode", "tenant",
                     "freshness", "params", "query", "columns", "pagination", "cache"}
      /\ f["name"] = Str("events_by_day") /\ f["version"] = Int_(1) /\ f["owner"] = Str("text")
      /\ f["dataset"] = Str("events") /\ f["serving_mode"] = Str("local_table")
      /\ f["tenant"] = tenant /\ f["freshness"] = fresh /\ f["params"] = params
      /\ f["query"] = StarterQuery /\ f["columns"] = columns /\ f["pagination"] = StarterPages
      /\ f["cache"] = cache
  OBVIOUS
<1>. HIDE DEF f
<1>3. DOMAIN f \subseteq Tool!EndpointKeys /\ "combinations" \notin DOMAIN f
  BY <1>2 DEF Tool!EndpointKeys
<1>4. /\ IsMap(Object(f)) /\ DOMAIN Object(f)[2] \subseteq DOMAIN f
      /\ At(Object(f), "combinations") = Nil
  BY <1>3, ObjectHolds
<1>5. \A key \in DOMAIN f : At(Object(f), key) = f[key] BY ObjectHolds
<1>. QED BY <1>1, <1>2, <1>3, <1>4, <1>5 DEF tenant, fresh, cache, params, columns

LEMMA DeclaredHolds ==
  ASSUME NEW name, NEW type, NEW required
  PROVE  LET p == ParamOf(name, type, required)
         IN  /\ IsMap(p) /\ DOMAIN p[2] = {"name", "type", "required"}
             /\ At(p, "name") = Str(name) /\ At(p, "type") = Str(type)
             /\ \A key : key \notin {"name", "type", "required"} => At(p, key) = Nil
<1>. DEFINE f == [name |-> Str(name), type |-> Str(type), required |-> Bool(required)]
<1>1. ParamOf(name, type, required) = Map(f) BY DEF ParamOf
<1>2. DOMAIN f = {"name", "type", "required"} /\ f["name"] = Str(name) /\ f["type"] = Str(type)
  OBVIOUS
<1>. HIDE DEF f
<1>. QED BY <1>1, <1>2, MapHolds

LEMMA DeclaredPasses ==
  ASSUME NEW name \in SafeIdents, NEW type \in {"string", "date"}, NEW required, NEW i
  PROVE  Tool!Param(ParamOf(name, type, required), i) = {}
<1>. DEFINE p == ParamOf(name, type, required)
<1>1. /\ IsMap(p) /\ DOMAIN p[2] = {"name", "type", "required"}
      /\ At(p, "name") = Str(name) /\ At(p, "type") = Str(type)
      /\ At(p, "default") = Nil /\ At(p, "aliases") = Nil
  <2>1. "default" \notin {"name", "type", "required"} /\ "aliases" \notin {"name", "type", "required"}
    OBVIOUS
  <2>. QED BY <2>1, DeclaredHolds
<1>. HIDE DEF p
<1>2. Tool!IsMap(p) /\ Tool!Nil = Nil /\ \A key : Tool!At(p, key) = At(p, key) BY <1>1, ToolReading
<1>3. Tool!UnknownKeys(p, {"name", "type", "required", "default", "enum", "max", "aliases"}, "params", i) = {}
  BY <1>1, KnownKeys
<1>4. Tool!Flag(~Tool!SafeIdent(Tool!At(p, "name")), "params", i, "name", "unsafe_identifier") = {}
  <2>1. Tool!SafeIdent(Tool!At(p, "name")) BY <1>1, <1>2, StrHolds, ToolReading
  <2>. QED BY <2>1, NoFinding
<1>5. Tool!ParamTypeRule(p, i) = {}
  <2>1. Tool!At(p, "type") # Tool!Str("enum") BY <1>1, <1>2, StrHolds, ToolReading
  <2>2. Tool!IsOneOf(Tool!At(p, "type"), Tool!ParamTypes)
    BY <1>1, <1>2, StrHolds, ToolReading DEF Tool!ParamTypes
  <2>. QED BY <2>1, <2>2, NoFinding DEF Tool!ParamTypeRule
<1>6. Tool!Flag(Tool!At(p, "default") # Tool!Nil /\ ~Tool!DefaultFits(p),
                "params", i, "default", "invalid_default") = {}
  BY <1>1, <1>2, NoFinding
<1>7. Tool!Aliases(p, i) = {}
  <2>1. Tool!At(p, "aliases") = Tool!Nil /\ ~Tool!IsMap(Tool!Nil)
    BY <1>1, <1>2, KindsApart, ToolReading
  <2>. QED BY <2>1, Zenon DEF Tool!Aliases
<1>8. Tool!Param(p, i) =
        Tool!UnknownKeys(p, {"name", "type", "required", "default", "enum", "max", "aliases"}, "params", i)
        \cup Tool!Flag(~Tool!SafeIdent(Tool!At(p, "name")), "params", i, "name", "unsafe_identifier")
        \cup Tool!ParamTypeRule(p, i)
        \cup Tool!Flag(Tool!At(p, "default") # Tool!Nil /\ ~Tool!DefaultFits(p),
                       "params", i, "default", "invalid_default")
        \cup Tool!Aliases(p, i)
  BY <1>2, Zenon DEF Tool!Param
<1>9. Tool!Param(p, i) = {}
  BY <1>3, <1>4, <1>5, <1>6, <1>7, <1>8
<1>. QED BY <1>9 DEF p

LEMMA StarterParamsAre ==
  /\ DOMAIN StarterParams = 1 .. 3
  /\ At(StarterParams[1], "name") = Str("account_id") /\ At(StarterParams[1], "type") = Str("string")
  /\ At(StarterParams[2], "name") = Str("from") /\ At(StarterParams[2], "type") = Str("date")
  /\ At(StarterParams[3], "name") = Str("to") /\ At(StarterParams[3], "type") = Str("date")
  /\ \A i \in 1 .. 3 : Tool!Param(StarterParams[i], i) = {}
<1>. DEFINE a == ParamOf("account_id", "string", FALSE)
            b == ParamOf("from", "date", TRUE)
            c == ParamOf("to", "date", TRUE)
<1>1. StarterParams = <<a, b, c>> BY DEF StarterParams
<1>2. {"account_id", "from", "to"} \subseteq SafeIdents BY StarterAssumption
<1>3. At(a, "name") = Str("account_id") /\ At(a, "type") = Str("string") /\ Tool!Param(a, 1) = {}
  <2>1. "account_id" \in SafeIdents /\ "string" \in {"string", "date"} BY <1>2
  <2>2. \A r : Tool!Param(ParamOf("account_id", "string", r), 1) = {} BY <2>1, DeclaredPasses
  <2>3. \A r : /\ At(ParamOf("account_id", "string", r), "name") = Str("account_id")
               /\ At(ParamOf("account_id", "string", r), "type") = Str("string")
    BY DeclaredHolds
  <2>. QED BY <2>2, <2>3, Zenon
<1>4. At(b, "name") = Str("from") /\ At(b, "type") = Str("date") /\ Tool!Param(b, 2) = {}
  <2>1. "from" \in SafeIdents /\ "date" \in {"string", "date"} BY <1>2
  <2>. QED BY <2>1, DeclaredHolds, DeclaredPasses, Zenon
<1>5. At(c, "name") = Str("to") /\ At(c, "type") = Str("date") /\ Tool!Param(c, 3) = {}
  <2>1. "to" \in SafeIdents /\ "date" \in {"string", "date"} BY <1>2
  <2>. QED BY <2>1, DeclaredHolds, DeclaredPasses, Zenon
<1>. HIDE DEF a, b, c
<1>6. /\ DOMAIN StarterParams = 1 .. 3
      /\ StarterParams[1] = a /\ StarterParams[2] = b /\ StarterParams[3] = c
  BY <1>1
<1>. QED BY <1>3, <1>4, <1>5, <1>6

LEMMA StarterParamsPass == Tool!Params(StarterParams) = {}
<1>. DEFINE names == Names(StarterParams, "name")
<1>4. \A i, j \in 1 .. 3 : i # j => At(StarterParams[i], "name") # At(StarterParams[j], "name")
  BY StarterParamsAre, StrHolds
<1>5. ~Tool!HasDuplicates(Tool!Names(StarterParams, "name"))
  <2>1. Tool!Names(StarterParams, "name") = names BY NamesRead
  <2>2. \A i \in DOMAIN names : i \in 1 .. 3 /\ names[i] = At(StarterParams[i], "name")
    BY StarterParamsAre DEF Names
  <2>. HIDE DEF names
  <2>. QED BY <1>4, <2>1, <2>2 DEF Tool!HasDuplicates, Tool!Same
<1>. QED BY <1>5, StarterParamsAre, NoFinding DEF Tool!Params

\* No parameter is an integer, so that none has a range.
LEMMA StarterRanges ==
  ASSUME NEW filters, NEW ds
  PROVE  Tool!DefaultRanges(StarterParams, filters, ds) = {}
<1>1. \A i \in 1 .. 3 : Tool!At(StarterParams[i], "type") # Tool!Str("integer")
  <2>1. Str("string") # Str("integer") /\ Str("date") # Str("integer") BY DEF Str
  <2>. QED BY <2>1, StarterParamsAre, ToolReading
<1>2. \A i \in 1 .. 3 : ~Tool!OutOfRange(StarterParams[i], filters, ds)
  BY <1>1 DEF Tool!OutOfRange
<1>. QED BY <1>2, StarterParamsAre DEF Tool!DefaultRanges

LEMMA NothingLeaves ==
  ASSUME NEW a, NEW b, IsFiniteSet(DOMAIN a), DOMAIN a = DOMAIN b,
         \A i \in DOMAIN a : a[i] = b[i] /\ IsScalar(a[i])
  PROVE  ~Tool!Leaves(a, b)
<1>. SUFFICES ASSUME Tool!Leaves(a, b) PROVE FALSE OBVIOUS
<1>. PICK i \in DOMAIN a : Tool!IsScalar(a[i]) =>
                             Cardinality({k \in DOMAIN a : Tool!Same(a[k], a[i])})
                               > Cardinality({k \in DOMAIN b : Tool!Same(b[k], a[i])})
  BY SameCount DEF Tool!Leaves
<1>. DEFINE S == {k \in DOMAIN a : Tool!Same(a[k], a[i])}
<1>1. {k \in DOMAIN b : Tool!Same(b[k], a[i])} = S OBVIOUS
<1>2. Cardinality(S) \in Nat
  <2>1. S \subseteq DOMAIN a OBVIOUS
  <2>. HIDE DEF S
  <2>. QED BY <2>1, FS_Subset, FS_CardinalityType
<1>3. Tool!IsScalar(a[i]) BY ToolReading
<1>4. Cardinality(S) > Cardinality(S) BY <1>1, <1>3
<1>. HIDE DEF S
<1>. QED BY <1>2, <1>4

LEMMA SelectAccepted ==
  ASSUME NEW s, IsMap(s), DOMAIN s[2] \subseteq {"as", "column", "agg"},
         SafeColumn(At(s, "as")), SafeColumn(At(s, "column")),
         NEW ds, Tool!TypeOf(ds, At(s, "column")) \notin {Tool!Absent, "JSON"},
         At(s, "agg") = Nil \/ Tool!IsOneOf(At(s, "agg"), Tool!Aggs),
         NEW i
  PROVE  Tool!Select(s, i, ds) = {}
<1>1. /\ Tool!IsMap(s) /\ Tool!Nil = Nil /\ \A key : Tool!At(s, key) = At(s, key)
      /\ Tool!SafeColumn(At(s, "as")) /\ Tool!SafeColumn(At(s, "column"))
  BY ToolReading
<1>2. Tool!Select(s, i, ds) =
        Tool!UnknownKeys(s, {"as", "column", "agg"}, "query.select", i)
        \cup Tool!Flag(~Tool!SafeColumn(Tool!At(s, "as")), "query.select", i, "as", "unsafe_identifier")
        \cup Tool!ColumnInDataset(Tool!At(s, "column"), ds, "query.select", i)
        \cup Tool!Flag(Tool!At(s, "agg") # Tool!Nil /\ ~Tool!IsOneOf(Tool!At(s, "agg"), Tool!Aggs),
                       "query.select", i, "agg", "invalid_value")
        \cup Tool!Flag(Tool!At(s, "agg") # Tool!Nil /\ Tool!TypeOf(ds, Tool!At(s, "column")) = "JSON",
                       "query.select", i, "agg", "invalid_agg_on_json")
  BY <1>1, Zenon DEF Tool!Select
<1>3. Tool!UnknownKeys(s, {"as", "column", "agg"}, "query.select", i) = {} BY KnownKeys
<1>4. Tool!Flag(~Tool!SafeColumn(Tool!At(s, "as")), "query.select", i, "as", "unsafe_identifier") = {}
  BY <1>1, NoFinding
<1>5. Tool!ColumnInDataset(Tool!At(s, "column"), ds, "query.select", i) = {}
  BY <1>1, NoFinding DEF Tool!ColumnInDataset
<1>6. Tool!Flag(Tool!At(s, "agg") # Tool!Nil /\ ~Tool!IsOneOf(Tool!At(s, "agg"), Tool!Aggs),
                "query.select", i, "agg", "invalid_value") = {}
  BY <1>1, NoFinding
<1>7. Tool!Flag(Tool!At(s, "agg") # Tool!Nil /\ Tool!TypeOf(ds, Tool!At(s, "column")) = "JSON",
                "query.select", i, "agg", "invalid_agg_on_json") = {}
  BY <1>1, NoFinding
<1>. QED BY <1>2, <1>3, <1>4, <1>5, <1>6, <1>7

\* The types of the columns that the endpoint names.
LEMMA StarterTypeOf ==
  ASSUME NEW ds, NEW public, StarterSet(ds, public)
  PROVE  /\ Tool!TypeOf(ds, Str("account_id")) = "VARCHAR"
         /\ Tool!TypeOf(ds, Str("event_date")) = "DATE"
         /\ Tool!TypeOf(ds, Str("event_count")) = "BIGINT"
         /\ "VARCHAR" # Tool!Absent /\ "DATE" # Tool!Absent /\ "BIGINT" # Tool!Absent
<1>1. ASSUME NEW s \in DOMAIN ds.types PROVE Tool!TypeOf(ds, Str(s)) = ds.types[s]
  <2>1. Tool!IsStr(Str(s)) /\ Str(s)[2] = s BY StrHolds, ToolReading
  <2>. QED BY <2>1 DEF Tool!TypeOf
<1>2. "VARCHAR" # Tool!Absent /\ "DATE" # Tool!Absent /\ "BIGINT" # Tool!Absent BY Zenon DEF Tool!Absent
<1>. QED BY <1>1, <1>2 DEF StarterSet

LEMMA StarterSafe ==
  {"tenant_id", "event_date", "event_type", "event_count", "event_count_total", "account_id"} \subseteq SafeColumns
BY StarterAssumption, StringAssumption

LEMMA StarterSelectsAre ==
  ASSUME NEW ds, NEW public, StarterSet(ds, public)
  PROVE  /\ DOMAIN StarterSelects = 1 .. 2
         /\ At(StarterSelects[1], "as") = Str("account_id") /\ At(StarterSelects[1], "agg") = Nil
         /\ At(StarterSelects[2], "as") = Str("event_count_total") /\ At(StarterSelects[2], "agg") # Nil
         /\ \A i \in 1 .. 2 : Tool!Select(StarterSelects[i], i, ds) = {}
<1>. DEFINE f == [as |-> Str("account_id"), column |-> Str("account_id")]
            g == [as |-> Str("event_count_total"), column |-> Str("event_count"), agg |-> Str("sum")]
            a == Map(f)
            b == Map(g)
<1>1. StarterSelects = <<a, b>> BY DEF StarterSelects
<1>2. DOMAIN f = {"as", "column"} /\ f["as"] = Str("account_id") /\ f["column"] = Str("account_id")
  OBVIOUS
<1>3. /\ DOMAIN g = {"as", "column", "agg"} /\ g["as"] = Str("event_count_total")
      /\ g["column"] = Str("event_count") /\ g["agg"] = Str("sum")
  OBVIOUS
<1>. HIDE DEF f, g
<1>4. /\ IsMap(a) /\ DOMAIN a[2] \subseteq {"as", "column", "agg"}
      /\ At(a, "as") = Str("account_id") /\ At(a, "column") = Str("account_id") /\ At(a, "agg") = Nil
  <2>1. "agg" \notin DOMAIN f BY <1>2
  <2>. QED BY <1>2, <2>1, MapHolds
<1>5. /\ IsMap(b) /\ DOMAIN b[2] \subseteq {"as", "column", "agg"}
      /\ At(b, "as") = Str("event_count_total") /\ At(b, "column") = Str("event_count")
      /\ At(b, "agg") = Str("sum")
  BY <1>3, MapHolds
<1>. HIDE DEF a, b
<1>6. /\ DOMAIN StarterSelects = 1 .. 2 /\ StarterSelects[1] = a /\ StarterSelects[2] = b
  BY <1>1
<1>7. Tool!Select(a, 1, ds) = {}
  <2>1. SafeColumn(At(a, "as")) /\ SafeColumn(At(a, "column")) BY <1>4, StarterSafe, StrHolds
  <2>2. Tool!TypeOf(ds, At(a, "column")) \notin {Tool!Absent, "JSON"} BY <1>4, StarterTypeOf
  <2>. QED BY <1>4, <2>1, <2>2, SelectAccepted
<1>8. Tool!Select(b, 2, ds) = {}
  <2>1. SafeColumn(At(b, "as")) /\ SafeColumn(At(b, "column")) BY <1>5, StarterSafe, StrHolds
  <2>2. Tool!TypeOf(ds, At(b, "column")) \notin {Tool!Absent, "JSON"} BY <1>5, StarterTypeOf
  <2>3. Tool!IsOneOf(At(b, "agg"), Tool!Aggs) BY <1>5, StrHolds, ToolReading DEF Tool!Aggs
  <2>. QED BY <1>5, <2>1, <2>2, <2>3, SelectAccepted
<1>9. At(b, "agg") # Nil BY <1>5, StrHolds
<1>. QED BY <1>4, <1>5, <1>6, <1>7, <1>8, <1>9

\* The strings of the names that a select and its clauses go by.
LEMMA StarterSelectAs ==
  ASSUME NEW ds, NEW public, StarterSet(ds, public)
  PROVE  LET as == Tool!Names(StarterSelects, "as")
         IN  /\ as = Names(StarterSelects, "as") /\ DOMAIN as = 1 .. 2
             /\ as[1] = Str("account_id") /\ as[2] = Str("event_count_total")
<1>. DEFINE as == Names(StarterSelects, "as")
<1>1. Tool!Names(StarterSelects, "as") = as BY NamesRead
<1>2. /\ DOMAIN StarterSelects = 1 .. 2
      /\ At(StarterSelects[1], "as") = Str("account_id")
      /\ At(StarterSelects[2], "as") = Str("event_count_total")
  BY StarterSelectsAre
<1>3. \A i \in 1 .. 2 : IsStr(At(StarterSelects[i], "as")) BY <1>2, StrHolds
<1>4. DOMAIN as = 1 .. 2 /\ \A i \in 1 .. 2 : as[i] = At(StarterSelects[i], "as")
  BY <1>2, <1>3 DEF Names
<1>. HIDE DEF as
<1>. QED BY <1>1, <1>2, <1>4 DEF as

LEMMA OneOfStrings ==
  ASSUME NEW s
  PROVE  LET v == List(<<Str(s)>>)
         IN  /\ IsList(v) /\ v # Nil /\ DOMAIN Items(v) = {1} /\ Items(v)[1] = Str(s)
<1>. DEFINE x == <<Str(s)>>
<1>1. DOMAIN x = {1} /\ x[1] = Str(s) OBVIOUS
<1>. HIDE DEF x
<1>2. Items(List(x)) = x /\ IsList(List(x)) /\ List(x) # Nil BY ListHolds
<1>. QED BY <1>1, <1>2 DEF x

LEMMA StarterGroups ==
  ASSUME NEW ds, NEW public, StarterSet(ds, public)
  PROVE  Tool!GroupBy(List(<<Str("account_id")>>), StarterSelects, Tool!Names(StarterSelects, "as")) = {}
<1>. DEFINE v == List(<<Str("account_id")>>)
            as == Tool!Names(StarterSelects, "as")
            groupBy == Tool!Items(v)
            chosen == [i \in {j \in DOMAIN StarterSelects :
                                Tool!At(StarterSelects[j], "agg") = Tool!Nil} |-> StarterSelects[i]]
            plain == Tool!Names(chosen, "as")
            unknown == \E i \in DOMAIN groupBy : ~Tool!ContainsAny(as, groupBy[i])
<1>1. Tool!IsList(v) /\ v # Tool!Nil /\ groupBy = Items(v) /\ DOMAIN groupBy = {1} /\ groupBy[1] = Str("account_id")
  <2>1. IsList(v) /\ v # Nil /\ DOMAIN Items(v) = {1} /\ Items(v)[1] = Str("account_id") BY OneOfStrings
  <2>. HIDE DEF v
  <2>. QED BY <2>1, ToolReading
<1>2. DOMAIN as = 1 .. 2 /\ as[1] = Str("account_id") BY StarterSelectAs
<1>3. groupBy # <<>>
  <2>. HIDE DEF groupBy
  <2>. QED BY <1>1
<1>4. DOMAIN chosen = {1} /\ chosen[1] = StarterSelects[1]
  <2>1. /\ DOMAIN StarterSelects = 1 .. 2 /\ Tool!At(StarterSelects[1], "agg") = Tool!Nil
        /\ Tool!At(StarterSelects[2], "agg") # Tool!Nil
    BY StarterSelectsAre, ToolReading
  <2>. QED BY <2>1
<1>5. DOMAIN plain = {1} /\ plain[1] = Str("account_id")
  <2>. HIDE DEF chosen
  <2>1. plain = Names(chosen, "as") BY NamesRead
  <2>2. At(chosen[1], "as") = Str("account_id") /\ IsStr(Str("account_id"))
    BY <1>4, StarterSelectsAre, StrHolds
  <2>. HIDE DEF plain
  <2>. QED BY <1>4, <2>1, <2>2 DEF Names
<1>6. ~Tool!Leaves(plain, groupBy)
  <2>1. IsFiniteSet({1}) BY FS_Singleton
  <2>2. IsScalar(Str("account_id")) BY StrHolds
  <2>. HIDE DEF plain, groupBy
  <2>. QED BY <1>1, <1>5, <2>1, <2>2, NothingLeaves
<1>7. ~unknown
  <2>1. Tool!IsScalar(Str("account_id")) BY StrHolds, ToolReading
  <2>2. 1 \in DOMAIN as BY <1>2
  <2>. HIDE DEF groupBy, as
  <2>. QED BY <1>1, <1>2, <2>1, <2>2 DEF Tool!ContainsAny, Tool!Same
<1>. HIDE DEF v, as
<1>8. Tool!GroupBy(v, StarterSelects, as) =
        Tool!Flag(unknown, "query", 0, "group_by", "unknown_column")
        \cup Tool!Flag(Tool!Leaves(plain, groupBy), "query", 0, "group_by", "ungrouped_column")
  BY <1>1, <1>3, Zenon DEF Tool!GroupBy
<1>. HIDE DEF groupBy, plain, unknown
<1>9. Tool!GroupBy(v, StarterSelects, as) = {} BY <1>6, <1>7, <1>8, NoFinding
<1>. QED BY <1>9 DEF v, as

LEMMA StarterFieldsOfQuery ==
  /\ IsMap(StarterQuery) /\ DOMAIN StarterQuery[2] = {"group_by", "select", "filters", "order_by"}
  /\ At(StarterQuery, "group_by") = List(<<Str("account_id")>>)
  /\ At(StarterQuery, "select") = List(StarterSelects)
  /\ At(StarterQuery, "filters") = List(StarterFilters)
  /\ At(StarterQuery, "order_by") = List(StarterOrder)
<1>. DEFINE a == List(<<Str("account_id")>>)
            b == List(StarterSelects)
            c == List(StarterFilters)
            d == List(StarterOrder)
            f == [group_by |-> a, select |-> b, filters |-> c, order_by |-> d]
<1>1. StarterQuery = Map(f) BY DEF StarterQuery
<1>. HIDE DEF a, b, c, d
<1>2. /\ DOMAIN f = {"group_by", "select", "filters", "order_by"}
      /\ f["group_by"] = a /\ f["select"] = b /\ f["filters"] = c /\ f["order_by"] = d
  OBVIOUS
<1>. HIDE DEF f
<1>3. /\ IsMap(StarterQuery) /\ DOMAIN StarterQuery[2] = {"group_by", "select", "filters", "order_by"}
      /\ At(StarterQuery, "group_by") = a /\ At(StarterQuery, "select") = b
      /\ At(StarterQuery, "filters") = c /\ At(StarterQuery, "order_by") = d
  BY <1>1, <1>2, MapHolds
<1>. QED BY <1>3 DEF a, b, c, d

LEMMA StarterSelectsPass ==
  ASSUME NEW ds, NEW public, StarterSet(ds, public)
  PROVE  Tool!Selects(StarterQuery, Tool!Names(StarterSelects, "as"), ds) = {}
<1>. DEFINE as == Tool!Names(StarterSelects, "as")
            each == UNION {Tool!Select(StarterSelects[i], i, ds) : i \in DOMAIN StarterSelects}
<1>1. /\ Tool!Items(Tool!At(StarterQuery, "select")) = StarterSelects
      /\ Tool!At(StarterQuery, "group_by") = List(<<Str("account_id")>>)
  BY StarterFieldsOfQuery, ListHolds, ToolReading
<1>2. StarterSelects # <<>> BY StarterSelectsAre
<1>3. Tool!Selects(StarterQuery, as, ds) =
        Tool!Flag(Tool!HasDuplicates(as), "query", 0, "select", "duplicate_column")
        \cup each
        \cup Tool!GroupBy(List(<<Str("account_id")>>), StarterSelects, as)
  <2>. HIDE DEF as
  <2>. QED BY <1>1, <1>2, Zenon DEF Tool!Selects
<1>4. Tool!GroupBy(List(<<Str("account_id")>>), StarterSelects, as) = {} BY StarterGroups
<1>5. each = {} BY StarterSelectsAre
<1>6. ~Tool!HasDuplicates(as)
  <2>1. DOMAIN as = 1 .. 2 /\ as[1] = Str("account_id") /\ as[2] = Str("event_count_total")
    BY StarterSelectAs
  <2>2. Str("account_id") # Str("event_count_total") BY StrHolds
  <2>. HIDE DEF as
  <2>3. \A i \in 1 .. 2 : i = 1 \/ i = 2 OBVIOUS
  <2>4. \A i, j \in DOMAIN as : i # j => as[i] # as[j] BY <2>1, <2>2, <2>3, Zenon
  <2>. QED BY <2>4 DEF Tool!HasDuplicates, Tool!Same
<1>. HIDE DEF as, each
<1>7. Tool!Selects(StarterQuery, as, ds) = {} BY <1>3, <1>4, <1>5, <1>6, NoFinding
<1>. QED BY <1>7 DEF as

\* A parameter of the endpoint is declared once, with its type.
LEMMA StarterDeclares ==
  ASSUME NEW k \in 1 .. 3
  PROVE  LET name == At(StarterParams[k], "name")
         IN  /\ Tool!Declares(StarterParams, name)
             /\ Tool!ParamType(StarterParams, name) = At(StarterParams[k], "type")
<1>. DEFINE name == At(StarterParams[k], "name")
            last(i) == /\ Tool!At(StarterParams[i], "name") = name
                       /\ \A j \in DOMAIN StarterParams : j > i => Tool!At(StarterParams[j], "name") # name
            at == CHOOSE i \in DOMAIN StarterParams : last(i)
<1>1. \A i, j \in 1 .. 3 : i # j => At(StarterParams[i], "name") # At(StarterParams[j], "name")
  BY StarterParamsAre, StrHolds
<1>2. DOMAIN StarterParams = 1 .. 3 /\ \A i : Tool!At(StarterParams[i], "name") = At(StarterParams[i], "name")
  BY StarterParamsAre, ToolReading
<1>3. \A i \in DOMAIN StarterParams : last(i) <=> i = k BY <1>1, <1>2
<1>. HIDE DEF last
<1>4. at = k BY <1>2, <1>3
<1>5. Tool!IsStr(name)
  <2>1. name \in {Str("account_id"), Str("from"), Str("to")} BY StarterParamsAre
  <2>. QED BY <2>1, StrHolds, ToolReading
<1>6. Tool!Declares(StarterParams, name) BY <1>2, <1>5 DEF Tool!Declares
<1>. HIDE DEF at, name
<1>7. Tool!ParamType(StarterParams, name) = Tool!At(StarterParams[at], "type")
  BY <1>6 DEF Tool!ParamType, at, last
<1>. QED BY <1>4, <1>6, <1>7, ToolReading DEF name

LEMMA FilterHolds ==
  ASSUME NEW col, NEW op, NEW param
  PROVE  LET m == FilterOn(col, op, param)
         IN  /\ IsMap(m) /\ DOMAIN m[2] = {"column", "op", "param"}
             /\ At(m, "column") = Str(col) /\ At(m, "op") = Str(op) /\ At(m, "param") = Str(param)
<1>. DEFINE f == [column |-> Str(col), op |-> Str(op), param |-> Str(param)]
<1>1. FilterOn(col, op, param) = Map(f) BY DEF FilterOn
<1>2. /\ DOMAIN f = {"column", "op", "param"}
      /\ f["column"] = Str(col) /\ f["op"] = Str(op) /\ f["param"] = Str(param)
  OBVIOUS
<1>. HIDE DEF f
<1>. QED BY <1>1, <1>2, MapHolds

LEMMA FilterAccepted ==
  ASSUME NEW ds, NEW params, NEW col \in SafeColumns, NEW op \in {"eq", "gte", "lte"}, NEW param,
         Tool!Declares(params, Str(param)),
         NEW type \in {"string", "date"}, Tool!ParamType(params, Str(param)) = Str(type),
         Tool!TypeOf(ds, Str(col)) # Tool!Absent,
         Tool!TypeOf(ds, Str(col)) \in Tool!Filterable[type],
         ds.tenant # col, NEW i
  PROVE  Tool!Filter(FilterOn(col, op, param), i, params, ds) = {}
<1>. DEFINE m == FilterOn(col, op, param)
            ptype == Tool!ParamType(params, Str(param))
            ctype == Tool!TypeOf(ds, Str(col))
            known == Tool!UnknownKeys(m, {"column", "op", "param"}, "query.filters", i)
            column == Tool!ColumnInDataset(Str(col), ds, "query.filters", i)
            tenant == ds.tenant # Tool!Absent /\ Str(col) = Tool!Str(ds.tenant)
            ops == ~Tool!IsOneOf(Str(op), Tool!FilterOps)
            declared == ~Tool!Declares(params, Str(param))
            unfit == /\ Tool!IsOneOf(ptype, DOMAIN Tool!Filterable)
                     /\ ctype # Tool!Absent
                     /\ ctype \notin Tool!Filterable[ptype[2]]
            range == Tool!IsOneOf(Str(op), Tool!FilterOps \ {"eq"}) /\ ptype = Tool!Str("boolean")
<1>1. /\ IsMap(m) /\ DOMAIN m[2] = {"column", "op", "param"} /\ Tool!IsMap(m)
      /\ Tool!At(m, "column") = Str(col) /\ Tool!At(m, "op") = Str(op) /\ Tool!At(m, "param") = Str(param)
  BY FilterHolds, ToolReading
<1>. HIDE DEF m
<1>2. Tool!Filter(m, i, params, ds) =
        known \cup column
        \cup Tool!Flag(tenant, "query.filters", i, "column", "tenant_filter_forbidden")
        \cup Tool!Flag(ops, "query.filters", i, "op", "invalid_value")
        \cup Tool!Flag(declared, "query.filters", i, "param", "unknown_param")
        \cup Tool!Flag(unfit, "query.filters", i, "param", "incompatible_filter")
        \cup Tool!Flag(range, "query.filters", i, "op", "incompatible_filter")
  BY <1>1, Zenon DEF Tool!Filter
<1>3. known = {} BY <1>1, KnownKeys
<1>4. column = {}
  <2>1. Tool!SafeColumn(Str(col)) BY StrHolds, ToolReading
  <2>. QED BY <2>1, NoFinding DEF Tool!ColumnInDataset
<1>5. ~tenant BY StrHolds, ToolReading
<1>6. ~ops BY StrHolds, ToolReading DEF Tool!FilterOps
<1>7. ~unfit
  <2>1. ptype[2] = type BY StrHolds
  <2>. QED BY <2>1
<1>8. ~range
  <2>1. Str(type) # Str("boolean") BY StrHolds
  <2>. QED BY <2>1, ToolReading
<1>. HIDE DEF known, column, tenant, ops, declared, unfit, range
<1>9. ~declared BY DEF declared
<1>10. Tool!Filter(m, i, params, ds) = {}
  BY <1>2, <1>3, <1>4, <1>5, <1>6, <1>7, <1>8, <1>9, NoFinding
<1>. QED BY <1>10 DEF m

LEMMA StarterFiltersPass ==
  ASSUME NEW ds, NEW public \in BOOLEAN, StarterSet(ds, public)
  PROVE  Tool!Filters(List(StarterFilters), StarterParams, ds) = {}
<1>. DEFINE a == FilterOn("account_id", "eq", "account_id")
            b == FilterOn("event_date", "gte", "from")
            c == FilterOn("event_date", "lte", "to")
<1>1. /\ "account_id" \in SafeColumns /\ "event_date" \in SafeColumns
      /\ ds.tenant # "account_id" /\ ds.tenant # "event_date"
  <2>1. "account_id" # Absent /\ "event_date" # Absent BY Zenon DEF Absent
  <2>. QED BY <2>1, StarterSafe DEF StarterSet
<1>2. /\ Tool!Declares(StarterParams, Str("account_id"))
      /\ Tool!ParamType(StarterParams, Str("account_id")) = Str("string")
  <2>1. 1 \in 1 .. 3 OBVIOUS
  <2>. QED BY <2>1, StarterDeclares, StarterParamsAre
<1>3. /\ Tool!Declares(StarterParams, Str("from"))
      /\ Tool!ParamType(StarterParams, Str("from")) = Str("date")
  <2>1. 2 \in 1 .. 3 OBVIOUS
  <2>. QED BY <2>1, StarterDeclares, StarterParamsAre
<1>4. /\ Tool!Declares(StarterParams, Str("to"))
      /\ Tool!ParamType(StarterParams, Str("to")) = Str("date")
  <2>1. 3 \in 1 .. 3 OBVIOUS
  <2>. QED BY <2>1, StarterDeclares, StarterParamsAre
<1>5. /\ Tool!TypeOf(ds, Str("account_id")) # Tool!Absent
      /\ Tool!TypeOf(ds, Str("account_id")) \in Tool!Filterable["string"]
      /\ Tool!TypeOf(ds, Str("event_date")) # Tool!Absent
      /\ Tool!TypeOf(ds, Str("event_date")) \in Tool!Filterable["date"]
  BY StarterTypeOf DEF Tool!Filterable
<1>6. Tool!Filter(a, 1, StarterParams, ds) = {} BY <1>1, <1>2, <1>5, FilterAccepted
<1>7. Tool!Filter(b, 2, StarterParams, ds) = {} BY <1>1, <1>3, <1>5, FilterAccepted
<1>8. Tool!Filter(c, 3, StarterParams, ds) = {} BY <1>1, <1>4, <1>5, FilterAccepted
<1>9. StarterFilters = <<a, b, c>> BY DEF StarterFilters
<1>. HIDE DEF a, b, c
<1>10. /\ DOMAIN StarterFilters = 1 .. 3
       /\ StarterFilters[1] = a /\ StarterFilters[2] = b /\ StarterFilters[3] = c
  BY <1>9
<1>11. \A i \in DOMAIN StarterFilters : Tool!Filter(StarterFilters[i], i, StarterParams, ds) = {}
  BY <1>6, <1>7, <1>8, <1>10
<1>12. Tool!Filters(List(StarterFilters), StarterParams, ds) =
         UNION {Tool!Filter(StarterFilters[i], i, StarterParams, ds) : i \in DOMAIN StarterFilters}
  <2>1. /\ Tool!IsList(List(StarterFilters)) /\ List(StarterFilters) # Tool!Nil
        /\ List(StarterFilters)[2] = StarterFilters
    BY ListHolds, ToolReading
  <2>. QED BY <2>1, Zenon DEF Tool!Filters
<1>. QED BY <1>11, <1>12

LEMMA StarterOrderPasses ==
  ASSUME NEW ds, NEW public, StarterSet(ds, public)
  PROVE  Tool!OrderBy(List(StarterOrder), Tool!Names(StarterSelects, "as")) = {}
<1>. DEFINE f == [column |-> Str("event_count_total"), dir |-> Str("desc")]
            o == Map(f)
            as == Tool!Names(StarterSelects, "as")
<1>1. DOMAIN f = {"column", "dir"} /\ f["column"] = Str("event_count_total") /\ f["dir"] = Str("desc")
  OBVIOUS
<1>2. StarterOrder = <<o>> BY DEF StarterOrder
<1>. HIDE DEF f
<1>3. /\ IsMap(o) /\ DOMAIN o[2] = {"column", "dir"} /\ Tool!IsMap(o)
      /\ Tool!At(o, "column") = Str("event_count_total") /\ Tool!At(o, "dir") = Str("desc")
  BY <1>1, MapHolds, ToolReading
<1>. HIDE DEF o
<1>4. DOMAIN as = 1 .. 2 /\ as[2] = Str("event_count_total") BY StarterSelectAs
<1>. HIDE DEF as
<1>5. Tool!Order(o, 1, as) =
        Tool!UnknownKeys(o, {"column", "dir"}, "query.order_by", 1)
        \cup Tool!Flag(~Tool!IsStr(Tool!At(o, "column")) \/ ~Tool!ContainsAny(as, Tool!At(o, "column")),
                       "query.order_by", 1, "column", "unknown_column")
        \cup Tool!Flag(Tool!At(o, "dir") # Tool!Nil /\ ~Tool!IsOneOf(Tool!At(o, "dir"), {"asc", "desc"}),
                       "query.order_by", 1, "dir", "invalid_value")
  BY <1>3, Zenon DEF Tool!Order
<1>6. Tool!UnknownKeys(o, {"column", "dir"}, "query.order_by", 1) = {} BY <1>3, KnownKeys
<1>7. Tool!IsStr(Tool!At(o, "column")) /\ Tool!ContainsAny(as, Tool!At(o, "column"))
  <2>1. Tool!IsStr(Str("event_count_total")) /\ Tool!IsScalar(Str("event_count_total"))
    BY StrHolds, ToolReading
  <2>2. 2 \in DOMAIN as BY <1>4
  <2>. QED BY <1>3, <1>4, <2>1, <2>2 DEF Tool!ContainsAny, Tool!Same
<1>8. Tool!IsOneOf(Tool!At(o, "dir"), {"asc", "desc"}) BY <1>3, StrHolds, ToolReading
<1>9. Tool!Order(o, 1, as) = {} BY <1>5, <1>6, <1>7, <1>8, NoFinding
<1>10. DOMAIN StarterOrder = {1} /\ StarterOrder[1] = o BY <1>2
<1>11. Tool!OrderBy(List(StarterOrder), as) =
         UNION {Tool!Order(StarterOrder[i], i, as) : i \in DOMAIN StarterOrder}
  <2>1. /\ Tool!IsList(List(StarterOrder)) /\ List(StarterOrder) # Tool!Nil
        /\ List(StarterOrder)[2] = StarterOrder
    BY ListHolds, ToolReading
  <2>. QED BY <2>1, Zenon DEF Tool!OrderBy
<1>12. Tool!OrderBy(List(StarterOrder), as) = {} BY <1>9, <1>10, <1>11
<1>. QED BY <1>12 DEF as

LEMMA StarterColumnsPass ==
  ASSUME NEW ds, NEW public, StarterSet(ds, public)
  PROVE  Tool!ColumnsRule(List(StarterColumns), Tool!Names(StarterSelects, "as")) = {}
<1>. DEFINE as == Tool!Names(StarterSelects, "as")
            a == Str("account_id")
            b == Str("event_count_total")
<1>1. DOMAIN as = 1 .. 2 /\ as[1] = a /\ as[2] = b BY StarterSelectAs
<1>2. StarterColumns = <<a, b>> BY DEF StarterColumns
<1>3. IsScalar(a) /\ IsScalar(b) BY StrHolds
<1>. HIDE DEF a, b, as
<1>4. DOMAIN StarterColumns = 1 .. 2 /\ StarterColumns[1] = a /\ StarterColumns[2] = b BY <1>2
<1>5. IsFiniteSet(1 .. 2)
  <2>1. 1 \in Int /\ 2 \in Int OBVIOUS
  <2>. QED BY <2>1, FS_Interval, Zenon
<1>6. \A i \in 1 .. 2 : as[i] = StarterColumns[i] /\ IsScalar(as[i])
  <2>1. \A i \in 1 .. 2 : i = 1 \/ i = 2 OBVIOUS
  <2>. QED BY <1>1, <1>3, <1>4, <2>1, Zenon
<1>7. ~Tool!Leaves(as, StarterColumns) /\ ~Tool!Leaves(StarterColumns, as)
  BY <1>1, <1>4, <1>5, <1>6, NothingLeaves
<1>8. Tool!Items(List(StarterColumns)) = StarterColumns /\ List(StarterColumns)[2] = StarterColumns
  BY ListHolds, ToolReading
<1>9. StarterColumns # <<>> BY <1>4
<1>10. Tool!ColumnsRule(List(StarterColumns), as) =
         Tool!Flag(Tool!Leaves(StarterColumns, as), Tool!Top, 0, "columns", "column_not_selected")
         \cup Tool!Flag(Tool!Leaves(as, StarterColumns), Tool!Top, 0, "columns", "column_not_allowlisted")
  BY <1>8, <1>9, Zenon DEF Tool!ColumnsRule
<1>11. Tool!ColumnsRule(List(StarterColumns), as) = {} BY <1>7, <1>10, NoFinding
<1>. QED BY <1>11 DEF as

LEMMA SmallNumbers ==
  /\ Tool!IsInt(Int_(1)) /\ Tool!IsPositive(Int_(1)) /\ Tool!AsInt(Int_(1)) = 1
  /\ Tool!IsInt(Int_(2)) /\ Tool!IsPositive(Int_(2)) /\ Tool!AsInt(Int_(2)) \in {1, 2}
BY WidthAssumption DEF Tool!IsInt, Tool!IsPositive, Tool!AsInt, Int_, Tool!MinInt64, Tool!MaxUint64

LEMMA StarterFresh == Tool!Freshness(Map([max_staleness_minutes |-> Int_(2)])) = {}
<1>. DEFINE f == [max_staleness_minutes |-> Int_(2)]
            v == Map(f)
<1>1. DOMAIN f = {"max_staleness_minutes"} /\ f["max_staleness_minutes"] = Int_(2) OBVIOUS
<1>. HIDE DEF f
<1>2. /\ IsMap(v) /\ DOMAIN v[2] \subseteq {"max_staleness_minutes"} /\ Tool!IsMap(v) /\ v # Tool!Nil
      /\ Tool!At(v, "max_staleness_minutes") = Int_(2)
  BY <1>1, MapHolds, ToolReading
<1>. HIDE DEF v
<1>3. Tool!Freshness(v) =
        Tool!UnknownKeys(v, {"max_staleness_minutes"}, "freshness", 0)
        \cup Tool!Flag(~Tool!IsPositive(Int_(2)), "freshness", 0, "max_staleness_minutes", "invalid_value")
  BY <1>2, Zenon DEF Tool!Freshness
<1>4. Tool!Freshness(v) = {} BY <1>2, <1>3, KnownKeys, SmallNumbers, NoFinding
<1>. QED BY <1>4 DEF v, f

LEMMA StarterPaged == Tool!Pagination(StarterPages) = {}
<1>. DEFINE f == [default_limit |-> Int_(1), max_limit |-> Int_(2)]
            v == StarterPages
            a == Int_(1)
            b == Int_(2)
<1>1. DOMAIN f = {"default_limit", "max_limit"} /\ f["default_limit"] = a /\ f["max_limit"] = b
  <2>. HIDE DEF a, b
  <2>1. f = [default_limit |-> a, max_limit |-> b] BY DEF a, b
  <2>. HIDE DEF f
  <2>. QED BY <2>1
<1>2. v = Map(f) BY DEF StarterPages
<1>3. Tool!IsPositive(a) /\ Tool!IsPositive(b) /\ ~(Tool!AsInt(a) > Tool!AsInt(b)) BY SmallNumbers
<1>. HIDE DEF f, v, a, b
<1>4. /\ IsMap(v) /\ DOMAIN v[2] = {"default_limit", "max_limit"} /\ Tool!IsMap(v) /\ v # Tool!Nil
      /\ Tool!At(v, "default_limit") = a /\ Tool!At(v, "max_limit") = b
  BY <1>1, <1>2, MapHolds, ToolReading
<1>5. Tool!Pagination(v) =
        Tool!UnknownKeys(v, {"default_limit", "max_limit"}, "pagination", 0)
        \cup Tool!Flag(~Tool!IsPositive(a) \/ (Tool!IsPositive(b) /\ Tool!AsInt(a) > Tool!AsInt(b)),
                       "pagination", 0, "default_limit", "invalid_value")
        \cup Tool!Flag(Tool!IsPositive(a) /\ ~Tool!IsPositive(b),
                       "pagination", 0, "max_limit", "invalid_value")
  BY <1>4, Zenon DEF Tool!Pagination
<1>6. Tool!Pagination(v) = {}
  <2>1. Tool!UnknownKeys(v, {"default_limit", "max_limit"}, "pagination", 0) = {} BY <1>4, KnownKeys
  <2>. QED BY <1>3, <1>5, <2>1, NoFinding
<1>. QED BY <1>6 DEF v

LEMMA StarterCached == Tool!Cache(Map([policy |-> Str("snapshot")])) = {}
<1>. DEFINE f == [policy |-> Str("snapshot")]
            v == Map(f)
<1>1. DOMAIN f = {"policy"} /\ f["policy"] = Str("snapshot") OBVIOUS
<1>. HIDE DEF f
<1>2. /\ IsMap(v) /\ DOMAIN v[2] \subseteq {"policy"} /\ Tool!Has(v, "policy") /\ v # Tool!Nil
      /\ Tool!At(v, "policy") = Str("snapshot")
  BY <1>1, MapHolds, ToolReading DEF Has
<1>. HIDE DEF v
<1>3. Tool!Cache(v) =
        Tool!UnknownKeys(v, {"policy"}, "cache", 0)
        \cup Tool!Flag(~Tool!IsOneOf(Tool!At(v, "policy"), {"none", "snapshot"}),
                       "cache", 0, "policy", "invalid_value")
  BY <1>2, Zenon DEF Tool!Cache
<1>4. Tool!IsOneOf(Tool!At(v, "policy"), {"none", "snapshot"}) BY <1>2, StrHolds, ToolReading
<1>5. Tool!Cache(v) = {} BY <1>2, <1>3, <1>4, KnownKeys, NoFinding
<1>. QED BY <1>5 DEF v, f

LEMMA StarterHeader ==
  ASSUME NEW public \in BOOLEAN
  PROVE  Tool!Header(EndpointTemplate(public)) = {}
<1>. DEFINE raw == EndpointTemplate(public)
<1>1. /\ IsMap(raw) /\ DOMAIN raw[2] \subseteq Tool!EndpointKeys
      /\ At(raw, "name") = Str("events_by_day") /\ At(raw, "version") = Int_(1)
      /\ At(raw, "owner") = Str("text") /\ At(raw, "serving_mode") = Str("local_table")
      /\ IsList(At(raw, "params"))
  <2>1. IsList(List(StarterParams)) BY ListHolds
  <2>. QED BY <2>1, EndpointFields
<1>. HIDE DEF raw
<1>2. Tool!Identifier(Tool!At(raw, "name"), "name") = {}
  <2>1. "events_by_day" \in SafeIdents BY StarterAssumption
  <2>2. Tool!IsStr(Str("events_by_day")) /\ Tool!SafeIdent(Str("events_by_day")) BY <2>1, StrHolds, ToolReading
  <2>3. Tool!At(raw, "name") = Str("events_by_day") BY <1>1, ToolReading
  <2>. QED BY <2>2, <2>3, NoFinding DEF Tool!Identifier
<1>3. Tool!IsInt(Tool!At(raw, "version")) BY <1>1, SmallNumbers, ToolReading
<1>4. Tool!IsNonEmpty(Tool!At(raw, "owner"))
  <2>1. "text" # Absent BY Zenon DEF Absent
  <2>. QED BY <1>1, <2>1, StrHolds, ToolReading
<1>5. Tool!IsOneOf(Tool!At(raw, "serving_mode"), Tool!ServingModes)
  BY <1>1, StrHolds, ToolReading DEF Tool!ServingModes
<1>6. Tool!IsList(Tool!At(raw, "params")) BY <1>1, ToolReading
<1>7. Tool!UnknownKeys(raw, Tool!EndpointKeys, Tool!Top, 0) = {} BY <1>1, KnownKeys
<1>8. Tool!Header(raw) = {} BY <1>2, <1>3, <1>4, <1>5, <1>6, <1>7, NoFinding DEF Tool!Header
<1>. QED BY <1>8 DEF raw

LEMMA StarterTenant ==
  ASSUME NEW ds, NEW public \in BOOLEAN, StarterSet(ds, public)
  PROVE  Tool!Tenant(IF public THEN Nil ELSE Map([column |-> Str("tenant_id")]), ds) = {}
<1>. DEFINE f == [column |-> Str("tenant_id")]
            t == Map(f)
<1>1. CASE public
  <2>1. ds.tenant = Tool!Absent BY <1>1, ToolReading DEF StarterSet
  <2>2. Tool!Nil = Nil BY ToolReading
  <2>3. Tool!Tenant(Nil, ds) = Tool!Flag(ds.tenant # Tool!Absent, Tool!Top, 0, "tenant", "missing")
    BY <2>1, <2>2, Zenon DEF Tool!Tenant
  <2>. QED BY <1>1, <2>1, <2>3, NoFinding
<1>2. CASE ~public
  <2>1. "tenant_id" # Tool!Absent BY Zenon DEF Tool!Absent
  <2>2. ds.tenant = "tenant_id" BY <1>2 DEF StarterSet
  <2>3. DOMAIN f = {"column"} /\ f["column"] = Str("tenant_id") OBVIOUS
  <2>. HIDE DEF f
  <2>4. /\ IsMap(t) /\ DOMAIN t[2] \subseteq {"column"} /\ Tool!Has(t, "column") /\ t # Tool!Nil
        /\ Tool!At(t, "column") = Str("tenant_id")
    BY <2>3, MapHolds, ToolReading DEF Has
  <2>. HIDE DEF t
  <2>5. Tool!SafeColumn(Str("tenant_id")) /\ Str("tenant_id")[2] = "tenant_id"
    BY StarterSafe, StrHolds, ToolReading
  <2>6. Tool!Tenant(t, ds) =
          Tool!UnknownKeys(t, {"column"}, "tenant", 0)
          \cup Tool!Flag("tenant_id" # ds.tenant, "tenant", 0, "column", "tenant_mismatch")
    BY <2>1, <2>2, <2>4, <2>5, Zenon DEF Tool!Tenant
  <2>7. Tool!Tenant(t, ds) = {} BY <2>2, <2>4, <2>6, KnownKeys, NoFinding
  <2>. QED BY <1>2, <2>7 DEF t, f
<1>. QED BY <1>1, <1>2

LEMMA StarterQueryPasses ==
  ASSUME NEW ds, NEW public \in BOOLEAN, StarterSet(ds, public)
  PROVE  Tool!Query(StarterQuery, StarterParams, Tool!Names(StarterSelects, "as"), ds) = {}
<1>. DEFINE as == Tool!Names(StarterSelects, "as")
            q == StarterQuery
<1>1. /\ Tool!IsMap(q) /\ Tool!At(q, "filters") = List(StarterFilters)
      /\ Tool!At(q, "order_by") = List(StarterOrder)
  BY StarterFieldsOfQuery, ToolReading
<1>2. Tool!UnknownKeys(q, {"group_by", "select", "filters", "order_by"}, "query", 0) = {}
  BY StarterFieldsOfQuery, KnownKeys
<1>3. Tool!Selects(q, as, ds) = {} BY StarterSelectsPass
<1>4. Tool!Filters(List(StarterFilters), StarterParams, ds) = {} BY StarterFiltersPass
<1>5. Tool!OrderBy(List(StarterOrder), as) = {} BY StarterOrderPasses
<1>. HIDE DEF as, q
<1>6. Tool!Query(q, StarterParams, as, ds) = {} BY <1>1, <1>2, <1>3, <1>4, <1>5 DEF Tool!Query
<1>. QED BY <1>6 DEF as, q

LEMMA StarterEndpointPasses ==
  ASSUME NEW ds, NEW public \in BOOLEAN, StarterSet(ds, public)
  PROVE  Tool!ValidateEndpoint(EndpointTemplate(public), ds) = {}
<1>. DEFINE raw == EndpointTemplate(public)
            params == Tool!Items(Tool!At(raw, "params"))
            q == Tool!At(raw, "query")
            as == Tool!Names(Tool!Items(Tool!At(q, "select")), "as")
            tenant == IF public THEN Nil ELSE Map([column |-> Str("tenant_id")])
            fresh == Map([max_staleness_minutes |-> Int_(2)])
            cache == Map([policy |-> Str("snapshot")])
<1>1. /\ params = StarterParams /\ q = StarterQuery
      /\ Tool!At(raw, "tenant") = tenant /\ Tool!At(raw, "freshness") = fresh
      /\ Tool!At(raw, "combinations") = Tool!Nil /\ Tool!At(raw, "columns") = List(StarterColumns)
      /\ Tool!At(raw, "pagination") = StarterPages /\ Tool!At(raw, "cache") = cache
  <2>1. Tool!Items(List(StarterParams)) = StarterParams BY ListHolds, ToolReading
  <2>2. Tool!Nil = Nil /\ \A key : Tool!At(raw, key) = At(raw, key) BY ToolReading
  <2>. QED BY <2>1, <2>2, EndpointFields
<1>2. Tool!Items(Tool!At(StarterQuery, "select")) = StarterSelects
  BY StarterFieldsOfQuery, ListHolds, ToolReading
<1>3. Tool!Header(raw) = {} BY StarterHeader
<1>4. Tool!Freshness(fresh) = {} BY StarterFresh
<1>5. Tool!Tenant(tenant, ds) = {} BY StarterTenant
<1>6. Tool!Cache(cache) = {} BY StarterCached
<1>7. Tool!Combinations(Tool!Nil, Tool!Names(params, "name")) = {}
  <2>1. ~Tool!IsList(Tool!Nil) BY KindsApart, ToolReading
  <2>. HIDE DEF params
  <2>. QED BY <2>1, Zenon DEF Tool!Combinations
<1>. HIDE DEF raw, tenant, fresh, cache
<1>8. as = Tool!Names(StarterSelects, "as") BY <1>1, <1>2
<1>9. Tool!ValidateEndpoint(raw, ds) =
        Tool!Header(raw)
        \cup Tool!Freshness(Tool!At(raw, "freshness"))
        \cup Tool!Tenant(Tool!At(raw, "tenant"), ds)
        \cup Tool!Params(params)
        \cup Tool!DefaultRanges(params, Tool!Items(Tool!At(q, "filters")), ds)
        \cup Tool!Combinations(Tool!At(raw, "combinations"), Tool!Names(params, "name"))
        \cup Tool!Query(q, params, as, ds)
        \cup Tool!ColumnsRule(Tool!At(raw, "columns"), as)
        \cup Tool!Pagination(Tool!At(raw, "pagination"))
        \cup Tool!Cache(Tool!At(raw, "cache"))
  BY Zenon DEF Tool!ValidateEndpoint
<1>10. Tool!Params(params) = {} BY <1>1, StarterParamsPass
<1>11. Tool!DefaultRanges(params, Tool!Items(Tool!At(q, "filters")), ds) = {} BY <1>1, StarterRanges
<1>. HIDE DEF params, q, as
<1>12. Tool!Query(q, params, as, ds) = {} BY <1>1, <1>8, StarterQueryPasses
<1>13. Tool!ColumnsRule(List(StarterColumns), as) = {} BY <1>8, StarterColumnsPass
<1>14. Tool!ValidateEndpoint(raw, ds) = {}
  BY <1>1, <1>3, <1>4, <1>5, <1>6, <1>7, <1>9, <1>10, <1>11, <1>12, <1>13, StarterPaged
<1>. QED BY <1>14 DEF raw

\* A directory that holds a starter project, and nothing else that is read.
Holding(d, public) ==
  /\ StarterPaths \subseteq DOMAIN d
  /\ \A sub \in DOMAIN Listing : Elements(Listing[sub]) \subseteq DOMAIN d
  /\ \A path \in DOMAIN d : d[path] # Missing => path \in StarterPaths \cup {Source}
  /\ d["datasets/events.yml"] = DatasetTemplate(public)
  /\ d["endpoints/events_by_day.yml"] = EndpointTemplate(public)
  /\ d["offloader.yml"] = ProjectTemplate(public)
  /\ ~public => d["keys/keys.yml"] = KeysTemplate

LEMMA MapIsThere ==
  ASSUME NEW doc, IsMap(doc)
  PROVE  doc # Missing /\ Tool!IsMapping(doc) /\ Tool!IsMap(doc)
<1>1. doc # Missing BY DEF Missing, IsMap
<1>2. Tool!IsMap(doc) BY ToolReading
<1>. QED BY <1>1, <1>2 DEF Tool!IsMapping

LEMMA OnlyFile ==
  ASSUME NEW d, NEW public, Holding(d, public), NEW sub \in DOMAIN Listing,
         NEW path \in StarterPaths, ListsOnly(sub, path), d[path] # Missing
  PROVE  \E k \in Nat : DOMAIN Files(d, sub) = {k} /\ Files(d, sub)[k] = d[path]
<1>. DEFINE listed == Listing[sub]
<1>1. PICK k \in DOMAIN listed :
        \A j \in DOMAIN listed : IF k = j THEN listed[j] = path ELSE listed[j] \notin StarterPaths \cup {Source}
  BY Zenon DEF ListsOnly
<1>2. \A j \in DOMAIN listed : listed[j] \in DOMAIN d BY DEF Holding, Elements
<1>3. \A j \in DOMAIN listed : d[listed[j]] # Missing <=> j = k
  <2>. HIDE DEF listed
  <2>. QED BY <1>1, <1>2 DEF Holding
<1>4. Files(d, sub) = [i \in {j \in DOMAIN listed : d[listed[j]] # Missing} |-> d[listed[i]]]
  BY DEF Files
<1>5. {j \in DOMAIN listed : d[listed[j]] # Missing} = {k}
  <2>. HIDE DEF listed
  <2>. QED BY <1>3
<1>6. listed[k] = path BY <1>1
<1>8. k \in Nat
  <2>1. Listing[sub] \in Seq(STRING) BY ListingAssumption
  <2>. QED BY <2>1 DEF listed
<1>. HIDE DEF listed
<1>7. DOMAIN Files(d, sub) = {k} /\ Files(d, sub)[k] = d[path] BY <1>4, <1>5, <1>6
<1>. QED BY <1>7, <1>8

\* Of one file alone, none clashes with another.
LEMMA OneNeverClashes ==
  ASSUME NEW files, NEW passed, NEW k, passed \subseteq {k}, NEW key
  PROVE  ~Tool!Clash(files, passed, key)
BY DEF Tool!Clash

LEMMA NothingInFile ==
  ASSUME NEW file
  PROVE  Tool!In(file, {}) = {}
BY DEF Tool!In

LEMMA StarterDatasets ==
  ASSUME NEW files, NEW k \in Nat, DOMAIN files = {k}, NEW public \in BOOLEAN, files[k] = DatasetTemplate(public)
  PROVE  /\ Tool!LoadDatasets(files).found = {}
         /\ DOMAIN Tool!LoadDatasets(files).byId = {"events"}
         /\ StarterSet(Tool!LoadDatasets(files).byId["events"], public)
<1>. DEFINE passed == Passed(files)
            id(i) == Tool!At(files[i], "id")[2]
            last(name) == CHOOSE i \in passed : id(i) = name /\ \A j \in passed : id(j) = name => j <= i
            byId == [name \in {id(i) : i \in passed} |-> Tool!BuildDataset(files[last(name)])]
            found == Tool!InEach("datasets", files, Tool!ValidateDataset)
                     \cup Tool!In(<<"datasets", 0>>,
                                  Tool!Flag(Tool!Clash(files, passed, "id"), Tool!Top, 0,
                                            "datasets", "duplicate_dataset"))
<1>1. Tool!LoadDatasets(files) = [found |-> found, byId |-> byId]
  BY DEF Tool!LoadDatasets, Passed
<1>2. Tool!ValidateDataset(files[k]) = {} BY StarterIsSound, SoundPasses
<1>3. passed = {k} BY <1>2 DEF Passed
<1>4. id(k) = "events"
  <2>1. At(DatasetTemplate(public), "id") = Str("events") BY StarterFields
  <2>. QED BY <2>1, StrHolds, ToolReading
<1>5. Tool!InEach("datasets", files, Tool!ValidateDataset) = {}
  <2>1. Tool!InEach("datasets", files, Tool!ValidateDataset)
        = UNION {Tool!In(<<"datasets", i>>, Tool!ValidateDataset(files[i])) : i \in DOMAIN files}
    BY DEF Tool!InEach
  <2>2. \A i \in DOMAIN files : Tool!In(<<"datasets", i>>, Tool!ValidateDataset(files[i])) = {}
    BY <1>2, NothingInFile
  <2>. QED BY <2>1, <2>2
<1>6. found = {}
  <2>1. ~Tool!Clash(files, passed, "id") BY <1>3, OneNeverClashes
  <2>. HIDE DEF passed
  <2>. QED BY <1>5, <2>1, NoFinding, NothingInFile
<1>. HIDE DEF passed, id, found
<1>7. last("events") = k
  <2>. DEFINE is(i) == id(i) = "events" /\ \A j \in passed : id(j) = "events" => j <= i
  <2>1. \A i \in passed : is(i) <=> i = k BY <1>3, <1>4
  <2>. HIDE DEF is
  <2>2. (CHOOSE i \in passed : is(i)) = k BY <1>3, <2>1
  <2>. QED BY <2>2 DEF is
<1>. HIDE DEF last
<1>8. DOMAIN byId = {"events"} /\ byId["events"] = Tool!BuildDataset(files[k])
  BY <1>3, <1>4, <1>7
<1>9. StarterSet(byId["events"], public) BY <1>8, StarterBuilt
<1>. HIDE DEF byId
<1>. QED BY <1>1, <1>6, <1>8, <1>9

LEMMA StarterEndpoints ==
  ASSUME NEW files, NEW k \in Nat, DOMAIN files = {k}, NEW public \in BOOLEAN,
         files[k] = EndpointTemplate(public),
         NEW datasets, DOMAIN datasets = {"events"}, StarterSet(datasets["events"], public)
  PROVE  /\ Tool!LoadEndpoints(files, datasets).found = {}
         /\ \A ep \in Tool!LoadEndpoints(files, datasets).served : ep.dataset = "events"
         /\ {ep.name : ep \in Tool!LoadEndpoints(files, datasets).served} = {Str("events_by_day")}
<1>. DEFINE passed == PassedEndpoints(files, datasets)
            doc == EndpointTemplate(public)
            rules(x) == Tool!EndpointFile(x, datasets)
            found == Tool!InEach("endpoints", files, rules)
                     \cup Tool!In(<<"endpoints", 0>>,
                                  Tool!Flag(Tool!Clash(files, passed, "name"), Tool!Top, 0,
                                            "endpoints", "duplicate_endpoint"))
            served == {[name |-> Tool!At(files[i], "name"), dataset |-> Tool!At(files[i], "dataset")[2]] :
                         i \in passed}
<1>1. Tool!LoadEndpoints(files, datasets) = [found |-> found, served |-> served]
  BY DEF Tool!LoadEndpoints, PassedEndpoints
<1>2. /\ Tool!IsMapping(doc) /\ Tool!At(doc, "name") = Str("events_by_day")
      /\ Tool!At(doc, "dataset") = Str("events") /\ Tool!IsStr(Str("events")) /\ Str("events")[2] = "events"
  <2>1. IsMap(doc) /\ At(doc, "name") = Str("events_by_day") /\ At(doc, "dataset") = Str("events")
    BY EndpointFields
  <2>2. Tool!IsMapping(doc) BY <2>1, MapIsThere
  <2>. QED BY <2>1, <2>2, StrHolds, ToolReading
<1>3. rules(doc) = {}
  <2>1. Tool!ValidateEndpoint(doc, datasets["events"]) = {} BY StarterEndpointPasses
  <2>. HIDE DEF doc
  <2>2. "events" \in DOMAIN datasets OBVIOUS
  <2>3. rules(doc) = Tool!ValidateEndpoint(doc, datasets["events"])
    BY <1>2, <2>2, Zenon DEF Tool!EndpointFile
  <2>. QED BY <2>1, <2>3
<1>4. passed = {k} BY <1>3 DEF PassedEndpoints
<1>5. Tool!InEach("endpoints", files, rules) = {}
  <2>1. Tool!InEach("endpoints", files, rules)
        = UNION {Tool!In(<<"endpoints", i>>, rules(files[i])) : i \in DOMAIN files}
    BY DEF Tool!InEach
  <2>. HIDE DEF rules
  <2>2. \A i \in DOMAIN files : Tool!In(<<"endpoints", i>>, rules(files[i])) = {}
    BY <1>3, NothingInFile
  <2>. QED BY <2>1, <2>2
<1>6. found = {}
  <2>1. ~Tool!Clash(files, passed, "name") BY <1>4, OneNeverClashes
  <2>. HIDE DEF passed, rules
  <2>. QED BY <1>5, <2>1, NoFinding, NothingInFile
<1>. HIDE DEF passed, rules, found, doc
<1>7. served = {[name |-> Str("events_by_day"), dataset |-> "events"]}
  <2>1. files[k] = doc BY DEF doc
  <2>. QED BY <1>2, <1>4, <2>1
<1>. HIDE DEF served
<1>8. (\A ep \in served : ep.dataset = "events") /\ {ep.name : ep \in served} = {Str("events_by_day")}
  <2>. DEFINE ep == [name |-> Str("events_by_day"), dataset |-> "events"]
  <2>1. ep.name = Str("events_by_day") /\ ep.dataset = "events" OBVIOUS
  <2>2. served = {ep} BY <1>7
  <2>. HIDE DEF ep
  <2>. QED BY <2>1, <2>2
<1>. QED BY <1>1, <1>6, <1>8

LEMMA ProjectFields ==
  ASSUME NEW public \in BOOLEAN
  PROVE  LET raw == ProjectTemplate(public)
         IN  /\ IsMap(raw)
             /\ DOMAIN raw[2] \subseteq {"version", "datasets_dir", "endpoints_dir", "keys", "auth"}
             /\ At(raw, "datasets_dir") = Str("datasets") /\ At(raw, "endpoints_dir") = Str("endpoints")
             /\ At(raw, "keys") = IF public THEN Nil ELSE Str("keys/keys.yml")
             /\ At(raw, "auth") = Str(IF public THEN "none" ELSE "required")
<1>. DEFINE keys == IF public THEN Nil ELSE Str("keys/keys.yml")
            auth == Str(IF public THEN "none" ELSE "required")
            version == Int_(1)
            f == [version |-> version, datasets_dir |-> Str("datasets"), endpoints_dir |-> Str("endpoints"),
                  keys |-> keys, auth |-> auth]
<1>1. ProjectTemplate(public) = Object(f) BY Zenon DEF ProjectTemplate
<1>. HIDE DEF keys, auth, version
<1>2. /\ DOMAIN f = {"version", "datasets_dir", "endpoints_dir", "keys", "auth"}
      /\ f["datasets_dir"] = Str("datasets") /\ f["endpoints_dir"] = Str("endpoints")
      /\ f["keys"] = keys /\ f["auth"] = auth
  OBVIOUS
<1>. HIDE DEF f
<1>3. /\ IsMap(Object(f)) /\ DOMAIN Object(f)[2] \subseteq DOMAIN f
      /\ \A key \in DOMAIN f : At(Object(f), key) = f[key]
  BY ObjectHolds
<1>. QED BY <1>1, <1>2, <1>3 DEF keys, auth

LEMMA StarterProjectFile ==
  ASSUME NEW public \in BOOLEAN
  PROVE  Tool!ProjectFile(ProjectTemplate(public)) = {}
<1>. DEFINE raw == ProjectTemplate(public)
<1>1. /\ IsMap(raw) /\ DOMAIN raw[2] \subseteq {"version", "datasets_dir", "endpoints_dir", "keys", "auth"}
      /\ At(raw, "datasets_dir") = Str("datasets") /\ At(raw, "endpoints_dir") = Str("endpoints")
      /\ At(raw, "keys") \in {Nil, Str("keys/keys.yml")}
  BY ProjectFields
<1>. HIDE DEF raw
<1>2. Tool!IsMapping(raw) BY <1>1, MapIsThere
<1>3. Tool!UnknownKeys(raw, Tool!ProjectKeys, Tool!Top, 0) = {}
  <2>1. DOMAIN raw[2] \subseteq Tool!ProjectKeys BY <1>1 DEF Tool!ProjectKeys
  <2>. QED BY <2>1, KnownKeys
<1>4. \A k \in Tool!ProjectPaths : Tool!At(raw, k) = Tool!Nil \/ Tool!IsNonEmpty(Tool!At(raw, k))
  <2>1. "datasets" # Absent /\ "endpoints" # Absent /\ "keys/keys.yml" # Absent BY Zenon DEF Absent
  <2>2. /\ Tool!IsNonEmpty(Str("datasets")) /\ Tool!IsNonEmpty(Str("endpoints"))
        /\ Tool!IsNonEmpty(Str("keys/keys.yml")) /\ Tool!Nil = Nil
    BY <2>1, StrHolds, ToolReading
  <2>3. \A k : Tool!At(raw, k) = At(raw, k) BY ToolReading
  <2>. QED BY <1>1, <2>2, <2>3 DEF Tool!ProjectPaths
<1>5. \A k \in Tool!ProjectPaths :
        Tool!Flag(Tool!At(raw, k) # Tool!Nil /\ ~Tool!IsNonEmpty(Tool!At(raw, k)), Tool!Top, 0, k, "invalid_type") = {}
  BY <1>4, NoFinding
<1>6. Tool!ProjectFile(raw) =
        Tool!UnknownKeys(raw, Tool!ProjectKeys, Tool!Top, 0)
        \cup UNION {Tool!Flag(Tool!At(raw, k) # Tool!Nil /\ ~Tool!IsNonEmpty(Tool!At(raw, k)),
                              Tool!Top, 0, k, "invalid_type") : k \in Tool!ProjectPaths}
  BY <1>2, Zenon DEF Tool!ProjectFile
<1>7. Tool!ProjectFile(raw) = {} BY <1>3, <1>5, <1>6
<1>. QED BY <1>7 DEF raw

StarterKey ==
  Map([id |-> Str("demo"), hash |-> Str("hash"), tenant |-> Str("tenant_demo"),
       endpoints |-> List(<<Str("events_by_day")>>), status |-> Str("active")])

LEMMA StarterKeyFields ==
  /\ IsMap(StarterKey) /\ DOMAIN StarterKey[2] = {"id", "hash", "tenant", "endpoints", "status"}
  /\ At(StarterKey, "id") = Str("demo") /\ At(StarterKey, "hash") = Str("hash")
  /\ At(StarterKey, "tenant") = Str("tenant_demo") /\ At(StarterKey, "status") = Str("active")
  /\ At(StarterKey, "endpoints") = List(<<Str("events_by_day")>>)
<1>. DEFINE granted == List(<<Str("events_by_day")>>)
            f == [id |-> Str("demo"), hash |-> Str("hash"), tenant |-> Str("tenant_demo"),
                  endpoints |-> granted, status |-> Str("active")]
<1>1. StarterKey = Map(f) BY DEF StarterKey
<1>. HIDE DEF granted
<1>2. /\ DOMAIN f = {"id", "hash", "tenant", "endpoints", "status"}
      /\ f["id"] = Str("demo") /\ f["hash"] = Str("hash") /\ f["tenant"] = Str("tenant_demo")
      /\ f["endpoints"] = granted /\ f["status"] = Str("active")
  OBVIOUS
<1>. HIDE DEF f
<1>3. /\ IsMap(StarterKey) /\ DOMAIN StarterKey[2] = DOMAIN f
      /\ \A key \in DOMAIN f : At(StarterKey, key) = f[key]
  BY <1>1, MapHolds
<1>. QED BY <1>2, <1>3 DEF granted

LEMMA StarterKeyPasses ==
  ASSUME NEW i
  PROVE  Tool!Key(StarterKey, i, {Str("events_by_day")}) = {}
<1>. DEFINE k == StarterKey
            known == {Str("events_by_day")}
            granted == Tool!Items(Tool!At(k, "endpoints"))
            none == granted = <<>>
            unknown == \E j \in DOMAIN granted : ~(Tool!IsStr(granted[j]) /\ granted[j] \in known)
<1>1. /\ IsMap(k) /\ Tool!IsMap(k) /\ DOMAIN k[2] = {"id", "hash", "tenant", "endpoints", "status"}
      /\ Tool!At(k, "id") = Str("demo") /\ Tool!At(k, "hash") = Str("hash")
      /\ Tool!At(k, "tenant") = Str("tenant_demo") /\ Tool!At(k, "status") = Str("active")
      /\ Tool!At(k, "endpoints") = List(<<Str("events_by_day")>>)
  BY StarterKeyFields, ToolReading
<1>2. DOMAIN granted = {1} /\ granted[1] = Str("events_by_day")
  <2>1. granted = Items(List(<<Str("events_by_day")>>)) BY <1>1, ToolReading
  <2>. HIDE DEF granted
  <2>. QED BY <2>1, OneOfStrings
<1>. HIDE DEF k, granted
<1>3. /\ Tool!SafeIdent(Str("demo")) /\ Tool!IsOneOf(Str("hash"), Hashes)
      /\ Tool!IsNonEmpty(Str("tenant_demo")) /\ Tool!IsOneOf(Str("active"), Tool!KeyStatuses)
      /\ Tool!IsStr(Str("events_by_day"))
  <2>1. "demo" \in SafeIdents /\ "hash" \in Hashes BY StarterAssumption
  <2>2. "tenant_demo" # Absent BY Zenon DEF Absent
  <2>. QED BY <2>1, <2>2, StrHolds, ToolReading DEF Tool!KeyStatuses
<1>4. ~none BY <1>2
<1>5. ~unknown BY <1>2, <1>3
<1>6. Tool!UnknownKeys(k, Tool!KeyFields, "keys", i) = {} BY <1>1, KnownKeys DEF Tool!KeyFields
<1>7. Tool!Key(k, i, known) =
        Tool!UnknownKeys(k, Tool!KeyFields, "keys", i)
        \cup Tool!Flag(~Tool!SafeIdent(Str("demo")), "keys", i, "id", "unsafe_identifier")
        \cup Tool!Flag(~Tool!IsOneOf(Str("hash"), Hashes), "keys", i, "hash", "invalid_value")
        \cup Tool!Flag(~Tool!IsNonEmpty(Str("tenant_demo")), "keys", i, "tenant", "missing")
        \cup Tool!Flag(~Tool!IsOneOf(Str("active"), Tool!KeyStatuses), "keys", i, "status", "invalid_value")
        \cup Tool!Flag(none, "keys", i, "endpoints", "missing")
        \cup Tool!Flag(unknown, "keys", i, "endpoints", "unknown_endpoint")
  BY <1>1, Zenon DEF Tool!Key, granted
<1>. HIDE DEF none, unknown, known
<1>8. /\ Tool!Flag(~Tool!SafeIdent(Str("demo")), "keys", i, "id", "unsafe_identifier") = {}
      /\ Tool!Flag(~Tool!IsOneOf(Str("hash"), Hashes), "keys", i, "hash", "invalid_value") = {}
      /\ Tool!Flag(~Tool!IsNonEmpty(Str("tenant_demo")), "keys", i, "tenant", "missing") = {}
      /\ Tool!Flag(~Tool!IsOneOf(Str("active"), Tool!KeyStatuses), "keys", i, "status", "invalid_value") = {}
  BY <1>3, NoFinding
<1>9. Tool!Flag(none, "keys", i, "endpoints", "missing") = {} BY <1>4, NoFinding
<1>10. Tool!Flag(unknown, "keys", i, "endpoints", "unknown_endpoint") = {} BY <1>5, NoFinding
<1>11. Tool!Key(k, i, known) = {} BY <1>6, <1>7, <1>8, <1>9, <1>10
<1>. QED BY <1>11 DEF k, known

LEMMA StarterKeysPass == Tool!LoadKeys(KeysTemplate, {Str("events_by_day")}) = {}
<1>. DEFINE known == {Str("events_by_day")}
            seq == <<StarterKey>>
            f == [keys |-> List(seq)]
            doc == KeysTemplate
            keys == Tool!Items(Tool!At(doc, "keys"))
            passed == {i \in DOMAIN keys : Tool!Key(keys[i], i, known) = {}}
            each == UNION {Tool!Key(keys[i], i, known) : i \in DOMAIN keys}
<1>1. doc = Map(f) BY Zenon DEF KeysTemplate, StarterKey
<1>2. DOMAIN f = {"keys"} /\ f["keys"] = List(seq)
  <2>. HIDE DEF seq
  <2>. QED OBVIOUS
<1>3. DOMAIN seq = {1} /\ seq[1] = StarterKey OBVIOUS
<1>. HIDE DEF f, seq, doc
<1>4. IsMap(doc) /\ At(doc, "keys") = List(seq) BY <1>1, <1>2, MapHolds
<1>5. Tool!IsMapping(doc) /\ Tool!IsList(Tool!At(doc, "keys")) /\ keys = seq
  <2>1. Tool!IsMapping(doc) BY <1>4, MapIsThere
  <2>. QED BY <1>4, <2>1, ListHolds, ToolReading
<1>. HIDE DEF keys
<1>6. \A i \in DOMAIN keys : Tool!Key(keys[i], i, known) = {} BY <1>3, <1>5, StarterKeyPasses
<1>7. each = {} BY <1>6
<1>8. ~Tool!Clash(keys, passed, "id")
  <2>1. passed \subseteq {1} BY <1>3, <1>5
  <2>. HIDE DEF passed
  <2>. QED BY <2>1, OneNeverClashes
<1>. HIDE DEF known
<1>9. Tool!LoadKeys(doc, known) =
        Tool!In(<<"keys", 1>>, each)
        \cup Tool!In(<<"keys", 0>>, Tool!Flag(Tool!Clash(keys, passed, "id"), Tool!Top, 0, "keys", "duplicate_key"))
  BY <1>5, Zenon DEF Tool!LoadKeys, keys
<1>. HIDE DEF each, passed
<1>10. Tool!LoadKeys(doc, known) = {} BY <1>7, <1>8, <1>9, NoFinding, NothingInFile
<1>. QED BY <1>10 DEF doc, known

\* A public project's dataset has no tenant.
LEMMA StarterAuth ==
  ASSUME NEW public \in BOOLEAN, NEW served, \A ep \in served : ep.dataset = "events",
         NEW datasets, StarterSet(datasets["events"], public)
  PROVE  Tool!ValidateAuth(Str(IF public THEN "none" ELSE "required"), served, datasets) = {}
<1>. DEFINE mode == IF public THEN "none" ELSE "required"
            auth == Str(mode)
            tenanted == \E ep \in served : datasets[ep.dataset].tenant # Tool!Absent
<1>1. mode \in {"none", "required"} /\ (mode = "none" => public) OBVIOUS
<1>. HIDE DEF mode
<1>2. auth # Tool!Nil /\ Tool!IsOneOf(auth, Tool!AuthModes)
  BY <1>1, StrHolds, ToolReading DEF Tool!AuthModes
<1>3. ~(auth = Tool!Str("none") /\ tenanted)
  <2>1. Tool!Str("none") = Str("none") /\ Tool!Absent = Absent BY ToolReading
  <2>2. auth = Str("none") => public BY <1>1, StrHolds
  <2>. HIDE DEF auth
  <2>. QED BY <2>1, <2>2 DEF StarterSet
<1>. HIDE DEF auth
<1>4. Tool!ValidateAuth(auth, served, datasets) =
        Tool!Flag(auth = Tool!Str("none") /\ tenanted, Tool!Top, 0, "auth", "public_tenant_endpoint")
  BY <1>2, Zenon DEF Tool!ValidateAuth
<1>. HIDE DEF tenanted
<1>5. Tool!ValidateAuth(auth, served, datasets) = {} BY <1>3, <1>4, NoFinding
<1>. QED BY <1>5 DEF auth, mode

LEMMA HoldingPasses ==
  ASSUME NEW d, NEW public \in BOOLEAN, Holding(d, public)
  PROVE  Tool!ValidateProject(d) = {}
<1>. DEFINE project == Tool!FileAt(d, "offloader.yml")
            keys == Tool!At(project, "keys")
            auth == Tool!At(project, "auth")
            dsPath == Tool!StringOr(Tool!At(project, "datasets_dir"), "datasets")
            epPath == Tool!StringOr(Tool!At(project, "endpoints_dir"), "endpoints")
            datasets == Tool!LoadDatasets(Tool!Files(d, dsPath))
            endpoints == Tool!LoadEndpoints(Tool!Files(d, epPath), datasets.byId)
<1>. DEFINE mode == Str(IF public THEN "none" ELSE "required")
            keysAre == IF public THEN Nil ELSE Str("keys/keys.yml")
<1>1. project = ProjectTemplate(public)
  <2>1. "offloader.yml" \in DOMAIN d BY DEF Holding, StarterPaths
  <2>2. Tool!FileAt(d, "offloader.yml") = d["offloader.yml"] BY <2>1, SameDocuments DEF FileAt
  <2>. QED BY <2>2 DEF Holding
<1>2. /\ At(project, "datasets_dir") = Str("datasets") /\ At(project, "endpoints_dir") = Str("endpoints")
      /\ keys = keysAre /\ auth = mode
      /\ Tool!ProjectFile(project) = {}
  <2>1. \A key : Tool!At(project, key) = At(project, key) BY ToolReading
  <2>. QED BY <1>1, <2>1, ProjectFields, StarterProjectFile
<1>. HIDE DEF project, keys, auth, mode, keysAre
<1>3. dsPath = "datasets" /\ epPath = "endpoints"
  <2>1. "datasets" # Absent /\ "endpoints" # Absent BY Zenon DEF Absent
  <2>2. /\ Tool!IsNonEmpty(Str("datasets")) /\ Tool!IsNonEmpty(Str("endpoints"))
        /\ Str("datasets")[2] = "datasets" /\ Str("endpoints")[2] = "endpoints"
        /\ \A key : Tool!At(project, key) = At(project, key)
    BY <2>1, StrHolds, ToolReading
  <2>. QED BY <1>2, <2>2 DEF Tool!StringOr
<1>. HIDE DEF dsPath, epPath
<1>4. /\ datasets.found = {} /\ DOMAIN datasets.byId = {"events"}
      /\ StarterSet(datasets.byId["events"], public)
  <2>1. /\ "datasets" \in DOMAIN Listing /\ "datasets/events.yml" \in StarterPaths
        /\ ListsOnly("datasets", "datasets/events.yml")
    BY StarterAssumption, Zenon DEF StarterPaths
  <2>2. d["datasets/events.yml"] = DatasetTemplate(public) BY DEF Holding
  <2>3. DatasetTemplate(public) # Missing BY StarterFields, MapIsThere
  <2>4. PICK k \in Nat : DOMAIN Files(d, "datasets") = {k} /\ Files(d, "datasets")[k] = d["datasets/events.yml"]
    BY <2>1, <2>2, <2>3, OnlyFile
  <2>5. Tool!Files(d, dsPath) = Files(d, "datasets") BY <1>3, SameDocuments
  <2>. QED BY <2>2, <2>4, <2>5, StarterDatasets
<1>5. /\ endpoints.found = {}
      /\ \A ep \in endpoints.served : ep.dataset = "events"
      /\ {ep.name : ep \in endpoints.served} = {Str("events_by_day")}
  <2>1. /\ "endpoints" \in DOMAIN Listing /\ "endpoints/events_by_day.yml" \in StarterPaths
        /\ ListsOnly("endpoints", "endpoints/events_by_day.yml")
    BY StarterAssumption, Zenon DEF StarterPaths
  <2>2. d["endpoints/events_by_day.yml"] = EndpointTemplate(public) BY DEF Holding
  <2>3. EndpointTemplate(public) # Missing BY EndpointFields, MapIsThere
  <2>4. PICK k \in Nat : /\ DOMAIN Files(d, "endpoints") = {k}
                         /\ Files(d, "endpoints")[k] = d["endpoints/events_by_day.yml"]
    BY <2>1, <2>2, <2>3, OnlyFile
  <2>5. Tool!Files(d, epPath) = Files(d, "endpoints") BY <1>3, SameDocuments
  <2>. DEFINE files == Tool!Files(d, epPath)
              byId == datasets.byId
              loaded == Tool!LoadEndpoints(files, byId)
  <2>6. DOMAIN byId = {"events"} /\ StarterSet(byId["events"], public) BY <1>4
  <2>7. DOMAIN files = {k} /\ files[k] = EndpointTemplate(public) BY <2>2, <2>4, <2>5
  <2>8. endpoints = loaded OBVIOUS
  <2>. HIDE DEF datasets, endpoints, files, byId
  <2>9. /\ loaded.found = {}
        /\ \A ep \in loaded.served : ep.dataset = "events"
        /\ {ep.name : ep \in loaded.served} = {Str("events_by_day")}
    BY <2>6, <2>7, StarterEndpoints
  <2>. HIDE DEF loaded
  <2>. QED BY <2>8, <2>9
<1>. DEFINE granted == IF Tool!IsStr(keys)
                       THEN Tool!LoadKeys(Tool!FileAt(d, keys[2]), {ep.name : ep \in endpoints.served})
                       ELSE {}
<1>. HIDE DEF datasets, endpoints
<1>6. granted = {}
  <2>1. CASE public
    <3>1. keys = Nil BY <1>2, <2>1 DEF keysAre
    <3>2. ~Tool!IsStr(Nil) BY KindsApart, ToolReading
    <3>. QED BY <3>1, <3>2
  <2>2. CASE ~public
    <3>1. keys = Str("keys/keys.yml") BY <1>2, <2>2 DEF keysAre
    <3>2. keys[2] = "keys/keys.yml" BY <3>1, StrHolds
    <3>3. "keys/keys.yml" \in DOMAIN d BY DEF Holding, StarterPaths
    <3>4. Tool!FileAt(d, "keys/keys.yml") = KeysTemplate
      BY <2>2, <3>3, SameDocuments DEF Holding, FileAt
    <3>. QED BY <1>5, <3>2, <3>4, StarterKeysPass
  <2>. QED BY <2>1, <2>2
<1>7. Tool!ValidateAuth(auth, endpoints.served, datasets.byId) = {}
  <2>1. Tool!ValidateAuth(mode, endpoints.served, datasets.byId) = {}
    BY <1>4, <1>5, StarterAuth DEF mode
  <2>. QED BY <1>2, <2>1
<1>8. Tool!Findings(d, project, datasets, endpoints) =
        datasets.found \cup endpoints.found \cup granted
        \cup Tool!In(<<"offloader.yml", 0>>, Tool!ValidateAuth(auth, endpoints.served, datasets.byId))
  BY Zenon DEF Tool!Findings, keys, auth
<1>. HIDE DEF granted
<1>9. Tool!Findings(d, project, datasets, endpoints) = {}
  BY <1>4, <1>5, <1>6, <1>7, <1>8, NothingInFile
<1>10. Tool!ValidateProject(d) = Tool!Findings(d, project, datasets, endpoints)
  BY <1>2, Zenon DEF Tool!ValidateProject, project, datasets, endpoints, dsPath, epPath
<1>. QED BY <1>9, <1>10

LEMMA ElementsJoined ==
  ASSUME NEW a, NEW b, NEW c, NEW e
  PROVE  /\ Elements(<<a, b>> \o <<>> \o <<c>>) = {a, b, c}
         /\ Elements(<<a, b>> \o <<e>> \o <<c>>) = {a, b, e, c}
<1>1. Elements(<<a, b>> \o <<>> \o <<c>>) = {a, b, c}
  <2>. DEFINE s == <<a, b>> \o <<>> \o <<c>>
  <2>1. DOMAIN s = 1 .. 3 /\ s[1] = a /\ s[2] = b /\ s[3] = c OBVIOUS
  <2>. HIDE DEF s
  <2>2. \A i \in 1 .. 3 : i = 1 \/ i = 2 \/ i = 3 OBVIOUS
  <2>3. 1 \in 1 .. 3 /\ 2 \in 1 .. 3 /\ 3 \in 1 .. 3 OBVIOUS
  <2>4. Elements(s) = {a, b, c} BY <2>1, <2>2, <2>3 DEF Elements
  <2>. QED BY <2>4 DEF s
<1>2. Elements(<<a, b>> \o <<e>> \o <<c>>) = {a, b, e, c}
  <2>. DEFINE s == <<a, b>> \o <<e>> \o <<c>>
  <2>1. DOMAIN s = 1 .. 4 /\ s[1] = a /\ s[2] = b /\ s[3] = e /\ s[4] = c OBVIOUS
  <2>. HIDE DEF s
  <2>2. \A i \in 1 .. 4 : i = 1 \/ i = 2 \/ i = 3 \/ i = 4 OBVIOUS
  <2>3. 1 \in 1 .. 4 /\ 2 \in 1 .. 4 /\ 3 \in 1 .. 4 /\ 4 \in 1 .. 4 OBVIOUS
  <2>4. Elements(s) = {a, b, e, c} BY <2>1, <2>2, <2>3 DEF Elements
  <2>. QED BY <2>4 DEF s
<1>. QED BY <1>1, <1>2

\* The files of a starter project, one for each of its paths.
LEMMA StarterElements ==
  ASSUME NEW public \in BOOLEAN
  PROVE  LET all == Elements(ScaffoldProject(public))
         IN  /\ [path |-> "datasets/events.yml", doc |-> DatasetTemplate(public)] \in all
             /\ [path |-> "endpoints/events_by_day.yml", doc |-> EndpointTemplate(public)] \in all
             /\ [path |-> "offloader.yml", doc |-> ProjectTemplate(public)] \in all
             /\ ~public => [path |-> "keys/keys.yml", doc |-> KeysTemplate] \in all
             /\ \A file \in all : file.path \in StarterPaths
             /\ \A file, other \in all : file.path = other.path => file = other
<1>. DEFINE dataset == [path |-> "datasets/events.yml", doc |-> DatasetTemplate(public)]
            endpoint == [path |-> "endpoints/events_by_day.yml", doc |-> EndpointTemplate(public)]
            keys == [path |-> "keys/keys.yml", doc |-> KeysTemplate]
            project == [path |-> "offloader.yml", doc |-> ProjectTemplate(public)]
            all == Elements(ScaffoldProject(public))
<1>1. ScaffoldProject(public)
        = <<dataset, endpoint>> \o (IF public THEN <<>> ELSE <<keys>>) \o <<project>>
  BY DEF ScaffoldProject
<1>2. /\ dataset.path = "datasets/events.yml" /\ endpoint.path = "endpoints/events_by_day.yml"
      /\ keys.path = "keys/keys.yml" /\ project.path = "offloader.yml"
  OBVIOUS
<1>. HIDE DEF dataset, endpoint, keys, project
<1>3. all = IF public THEN {dataset, endpoint, project} ELSE {dataset, endpoint, keys, project}
  <2>1. CASE public = TRUE
    BY <1>1, <2>1, ElementsJoined
  <2>2. CASE public = FALSE
    BY <1>1, <2>2, ElementsJoined
  <2>. QED BY <2>1, <2>2
<1>. HIDE DEF all
<1>4. \A file, other \in {dataset, endpoint, keys, project} : file.path = other.path => file = other
  BY <1>2
<1>5. \A file \in {dataset, endpoint, keys, project} : file.path \in StarterPaths
  BY <1>2 DEF StarterPaths
<1>6. /\ dataset \in all /\ endpoint \in all /\ project \in all /\ (~public => keys \in all)
      /\ all \subseteq {dataset, endpoint, keys, project}
  BY <1>3
<1>7. /\ \A file \in all : file.path \in StarterPaths
      /\ \A file, other \in all : file.path = other.path => file = other
  BY <1>4, <1>5, <1>6
<1>. QED BY <1>6, <1>7 DEF dataset, endpoint, keys, project, all

\* Of a starter project, what is not to be written has been.
Written(public) ==
  LET all == Elements(ScaffoldProject(public))
  IN  /\ Elements(command.files) \subseteq all
      /\ \A file \in all : file \in Elements(command.files) \/ dir[file.path] = file.doc

OnlyStarter == \A path \in Paths : dir[path] # Missing => path \in StarterPaths \cup {Source}

\* An init at work, or done, in a directory where nothing else was.
Starting ==
  /\ StarterPaths \subseteq Paths
  /\ command.name = "init" /\ command.alone /\ command.there \subseteq StarterPaths \cup {Source}
  /\ command.files # <<>> \/ command.result = "done"

StarterInv ==
  /\ command.result = "done" => command.files = <<>>
  /\ Starting => OnlyStarter /\ \E public \in BOOLEAN : Written(public)

LEMMA StarterBegins ==
  ASSUME NEW public \in BOOLEAN, NEW force \in BOOLEAN, InitCommand(public, force)
  PROVE  StarterInv'
<1>. DEFINE files == ScaffoldProject(public)
            refused == ~force /\ Clobbers(files) # {}
<1>1. /\ command' = [name |-> "init", force |-> force, there |-> There, alone |-> TRUE,
                     files |-> IF refused THEN <<>> ELSE files,
                     result |-> IF refused THEN "failed" ELSE Absent]
      /\ dir' = dir
  BY Zenon DEF InitCommand, Absent
<1>. HIDE DEF refused, files
<1>2. /\ command'.there = There /\ command'.result # "done"
      /\ command'.files # <<>> => command'.files = files
  <2>1. "done" # "failed" /\ "done" # Absent BY Zenon DEF Absent
  <2>. QED BY <1>1, <2>1
<1>3. Starting' => OnlyStarter'
  BY <1>1, <1>2 DEF Starting, OnlyStarter, There, Paths
<1>4. command'.files = files => Written(public)'
  BY DEF Written, files
<1>. QED BY <1>2, <1>3, <1>4 DEF StarterInv, Starting

LEMMA RestElements ==
  ASSUME NEW S, NEW files \in Seq(S), files # <<>>
  PROVE  Elements(files) = Elements(Tail(files)) \cup {Head(files)}
<1>. DEFINE left == Tail(files)
<1>1. /\ Head(files) = files[1] /\ 1 \in DOMAIN files
      /\ \A i \in DOMAIN left : i + 1 \in DOMAIN files /\ left[i] = files[i + 1]
  BY RestOfFiles, Zenon
<1>2. \A i \in DOMAIN files : i = 1 \/ (i - 1 \in DOMAIN left /\ left[i - 1] = files[i])
  OBVIOUS
<1>. HIDE DEF left
<1>3. Elements(files) \subseteq Elements(left) \cup {Head(files)} BY <1>1, <1>2 DEF Elements
<1>4. Elements(left) \cup {Head(files)} \subseteq Elements(files) BY <1>1 DEF Elements
<1>5. Elements(files) = Elements(left) \cup {Head(files)} BY <1>3, <1>4
<1>. QED BY <1>5 DEF left

LEMMA StarterWrites ==
  ASSUME KeepInv, StarterInv, WriteFile
  PROVE  StarterInv'
<1>. DEFINE file == Head(command.files)
            left == Tail(command.files)
<1>1. /\ command.files # <<>> /\ dir' = [dir EXCEPT ![file.path] = file.doc]
      /\ \A f \in {"name", "alone", "there"} : command'[f] = command[f]
      /\ command'.files = left
      /\ command'.result = IF left = <<>> THEN "done" ELSE Absent
  <2>1. command' = [command EXCEPT !.files = left, !.result = IF left = <<>> THEN "done" ELSE Absent]
    BY Zenon DEF WriteFile, Absent
  <2>2. command.files # <<>> /\ dir' = [dir EXCEPT ![file.path] = file.doc] BY DEF WriteFile
  <2>3. command = [f \in CommandFields |-> command[f]] BY DEF KeepInv
  <2>. HIDE DEF left, file
  <2>. QED BY <2>1, <2>2, <2>3 DEF CommandFields
<1>2. command'.result = "done" => command'.files = <<>>
  <2>1. "done" # Absent BY Zenon DEF Absent
  <2>. HIDE DEF left, file
  <2>. QED BY <1>1, <2>1
<1>3. ASSUME Starting'
      PROVE  OnlyStarter' /\ \E public \in BOOLEAN : Written(public)'
  <2>1. Starting BY <1>1, <1>3 DEF Starting, Paths
  <2>2. OnlyStarter /\ \E public \in BOOLEAN : Written(public) BY <2>1 DEF StarterInv
  <2>3. PICK public \in BOOLEAN : Written(public) BY <2>2
  <2>4. command.files \in Seq(StarterFile) BY <2>1 DEF KeepInv, Starting
  <2>5. Elements(command.files) = Elements(left) \cup {file}
    BY <1>1, <2>4, RestElements
  <2>. DEFINE all == Elements(ScaffoldProject(public))
  <2>6. file \in all BY <2>3, <2>5 DEF Written
  <2>7. /\ \A f \in all : f.path \in DOMAIN dir
        /\ \A f, g \in all : f.path = g.path => f = g
    <3>1. StarterPaths \subseteq DOMAIN dir BY <2>1 DEF Starting, Paths
    <3>. QED BY <3>1, StarterElements
  <2>8. Written(public)'
    <3>1. Elements(command'.files) \subseteq all BY <1>1, <2>3, <2>5 DEF Written
    <3>2. ASSUME NEW f \in all, f \notin Elements(command'.files)
          PROVE  dir'[f.path] = f.doc
      <4>1. CASE f.path = file.path
        <5>1. f = file BY <2>6, <2>7, <4>1
        <5>. HIDE DEF file, all
        <5>. QED BY <1>1, <2>7, <5>1
      <4>2. CASE f.path # file.path
        <5>1. f \notin Elements(command.files) BY <1>1, <2>5, <3>2, <4>2
        <5>2. dir[f.path] = f.doc BY <2>3, <5>1 DEF Written
        <5>. HIDE DEF file, all
        <5>. QED BY <1>1, <2>7, <4>2, <5>2
      <4>. QED BY <4>1, <4>2
    <3>. QED BY <3>1, <3>2 DEF Written
  <2>9. OnlyStarter'
    <3>1. file.path \in StarterPaths BY <2>6, StarterElements
    <3>. HIDE DEF file
    <3>. QED BY <1>1, <2>2, <3>1 DEF OnlyStarter, Paths
  <2>. QED BY <2>8, <2>9
<1>. QED BY <1>2, <1>3 DEF StarterInv

LEMMA StarterInvNext ==
  ASSUME KeepInv, StarterInv, [Next]_vars
  PROVE  StarterInv'
<1>1. CASE UNCHANGED toolVars
  BY <1>1 DEF toolVars, StarterInv, Starting, OnlyStarter, Written, Paths
<1>2. CASE ToolNext
  <2>1. ASSUME NEW e \in Edits, Edit(e)
        PROVE  StarterInv'
    <3>1. /\ command'.alone => command'.name # "init"
          /\ command'.result = command.result /\ command'.files = command.files
      <4>1. "none" # "init" BY Zenon
      <4>. QED BY <2>1, <4>1 DEF Edit, KeepInv, CommandFields
    <3>. QED BY <3>1 DEF StarterInv, Starting
  <2>2. ASSUME NEW public \in BOOLEAN, NEW force \in BOOLEAN, InitCommand(public, force)
        PROVE  StarterInv'
    BY <2>2, StarterBegins
  <2>3. ASSUME NEW tenant \in {"", "tenant_id"}, ScaffoldDataset("scaffolded", tenant)
        PROVE  StarterInv'
    <3>1. command'.name = "scaffold" /\ command'.result \in {"failed", ""}
      BY <2>3, Zenon DEF ScaffoldDataset
    <3>2. command'.name # "init" /\ command'.result # "done" BY <3>1, Zenon
    <3>. QED BY <3>2, Zenon DEF StarterInv, Starting
  <2>4. CASE WriteFile
    BY <2>4, StarterWrites
  <2>5. CASE WriteFails
    <3>1. command'.files = <<>> /\ command'.result = "failed"
      BY <2>5 DEF WriteFails, KeepInv, CommandFields
    <3>. QED BY <3>1 DEF StarterInv, Starting
  <2>6. CASE CommandEnds
    <3>1. command'.name = "none" /\ command'.result = "" BY <2>6, Zenon DEF CommandEnds, Idle
    <3>2. command'.name # "init" /\ command'.result # "done" BY <3>1, Zenon
    <3>. QED BY <3>2, Zenon DEF StarterInv, Starting
  <2>. QED
    BY <1>2, <2>1, <2>2, <2>3, <2>4, <2>5, <2>6, Zenon DEF ToolNext
<1>. QED
  BY <1>1, <1>2 DEF Next, vars

(* What init leaves behind when it is done (init.go: "guaranteed to pass") *)
(* passes validate, public or not, forced over an older starter project or *)
(* over part of one: if nothing else than its files and a manifest lay     *)
(* there when it began, and nobody edited a file since.                    *)
THEOREM StartersPass ==
  Spec => []((/\ StarterPaths \subseteq Paths
              /\ \A sub \in DOMAIN Listing : Elements(Listing[sub]) \subseteq Paths)
             => InitPasses)
<1>1. ASSUME StarterInv, StarterPaths \subseteq Paths,
             \A sub \in DOMAIN Listing : Elements(Listing[sub]) \subseteq Paths
      PROVE  InitPasses
  <2>. SUFFICES ASSUME command.name = "init", command.result = "done", command.alone,
                       command.there \subseteq StarterPaths \cup {Source}
                PROVE  Tool!ValidateProject(dir) = {}
    BY Zenon DEF InitPasses
  <2>1. OnlyStarter /\ command.files = <<>> /\ \E public \in BOOLEAN : Written(public)
    BY <1>1 DEF StarterInv, Starting
  <2>2. PICK public \in BOOLEAN : Written(public) BY <2>1
  <2>3. Elements(command.files) = {} BY <2>1, EmptyDomain DEF Elements
  <2>4. \A file \in Elements(ScaffoldProject(public)) : dir[file.path] = file.doc
    BY <2>2, <2>3 DEF Written
  <2>5. /\ dir["datasets/events.yml"] = DatasetTemplate(public)
        /\ dir["endpoints/events_by_day.yml"] = EndpointTemplate(public)
        /\ dir["offloader.yml"] = ProjectTemplate(public)
        /\ ~public => dir["keys/keys.yml"] = KeysTemplate
    BY <2>4, StarterElements
  <2>6. Holding(dir, public) BY <1>1, <2>1, <2>5 DEF Holding, OnlyStarter, Paths
  <2>. QED BY <2>6, HoldingPasses
<1>2. StarterInv /\ (/\ StarterPaths \subseteq Paths
                     /\ \A sub \in DOMAIN Listing : Elements(Listing[sub]) \subseteq Paths)
        => InitPasses
  BY <1>1
<1>3. Init => KeepInv /\ StarterInv
  <2>1. ASSUME Init PROVE command = Idle BY <2>1 DEF Init, ToolInit
  <2>2. Idle.name # "init" /\ Idle.result # "done"
    <3>1. Idle.name = "none" /\ Idle.result = "" BY Zenon DEF Idle
    <3>. QED BY <3>1, Zenon
  <2>. QED BY <2>1, <2>2, IdleKeeps DEF StarterInv, Starting
<1>4. KeepInv /\ StarterInv /\ [Next]_vars => KeepInv' /\ StarterInv'
  BY KeepInvNext, StarterInvNext
<1>. QED
  BY <1>2, <1>3, <1>4, PTL DEF Spec
=============================================================================
