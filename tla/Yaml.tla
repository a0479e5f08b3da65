-------------------------------- MODULE Yaml --------------------------------
(***************************************************************************)
(* The values a configuration file decodes to, as both parsers see them:   *)
(* the helper CLI (tools/validate_endpoint.go, yamlValue) and the server   *)
(* (YamlElixir).  A value is a tuple whose first element is its type, so   *)
(* that values of different types can be compared.  Strings are opaque:    *)
(* what a regular expression or a parser says of one is a constant.        *)
(***************************************************************************)
EXTENDS Integers, Sequences, FiniteSets

CONSTANTS
  SafeIdents,   \* the strings that match ^[a-z][a-z0-9_]{0,62}$
  SafeColumns,  \* the strings that match ^[A-Za-z0-9_]{1,63}$
  Hashes,       \* the strings that are 64 lowercase hexadecimal digits
  IsoDates,     \* the strings that are ISO-8601 dates
  Numerals,     \* the strings that are decimal integers, and their values
  OtherNumbers, \* the strings that YAML reads as another number: 1e5, 0x1F
  MaxInt32,     \* 2^31 - 1, scaled down
  MaxInt64,     \* 2^63 - 1, scaled down
  Listing       \* the paths each subdirectory of a project may have, sorted

ASSUME NumeralAssumption == \A s \in DOMAIN Numerals : Numerals[s] \in Int
ASSUME ListingAssumption == \A sub \in DOMAIN Listing : Listing[sub] \in Seq(STRING)
ASSUME WidthAssumption ==
  /\ MaxInt32 \in Nat
  /\ MaxInt64 \in Nat
  /\ MaxInt32 < MaxInt64

MinInt32 == -MaxInt32 - 1
MinInt64 == -MaxInt64 - 1
MaxUint64 == 2 * MaxInt64 + 1

-----------------------------------------------------------------------------
(* Values *)

Nil == <<"nil">>          \* null, and what reading an absent key returns
Str(s) == <<"str", s>>
Int_(n) == <<"int", n>>
Number_(s) == <<"number", s>>    \* of no use but to be no string
Bool(b) == <<"bool", b>>
List(seq) == <<"list", seq>>
Map(f) == <<"map", f>>    \* f maps key strings to values

IsStr(v) == v[1] = "str"
IsBool(v) == v[1] = "bool"
IsList(v) == v[1] = "list"
IsMap(v) == v[1] = "map"
IsScalar(v) == ~IsList(v) /\ ~IsMap(v)
Absent == ""              \* a string field that is not set
IsNonEmpty(v) == IsStr(v) /\ v[2] # Absent

ASSUME StringAssumption ==
  /\ SafeIdents \subseteq SafeColumns
  /\ Absent \notin SafeColumns

Has(v, key) == IsMap(v) /\ key \in DOMAIN v[2]
At(v, key) == IF Has(v, key) THEN v[2][key] ELSE Nil
Items(v) == IF IsList(v) THEN v[2] ELSE <<>>

SafeIdent(v) == IsStr(v) /\ v[2] \in SafeIdents
SafeColumn(v) == IsStr(v) /\ v[2] \in SafeColumns
IsOneOf(v, allowed) == IsStr(v) /\ v[2] \in allowed

\* The strings under a key of the mappings in a list, by their places in it.
Names(items, key) ==
  [i \in {j \in DOMAIN items : IsStr(At(items[j], key))} |-> At(items[i], key)]

-----------------------------------------------------------------------------
(* Findings.  A path such as params[0].default is its parent, the position *)
(* in the parent (from 1; 0 when the parent is no list) and the field.     *)

Top == ""     \* the parent of the fields of a document
Self == ""    \* the field of a finding about a document or an item as a whole

Flag(cond, parent, i, field, code) ==
  IF cond THEN {<<parent, i, field, code>>} ELSE {}

UnknownKeys(v, allowed, parent, i) ==
  IF IsMap(v)
  THEN {<<parent, i, k, "unknown_field">> : k \in DOMAIN v[2] \ allowed}
  ELSE {}

In(file, found) == {<<file, f>> : f \in found}    \* the findings of one file

-----------------------------------------------------------------------------
(* Projects.  A directory maps the paths its files may have to what each   *)
(* decodes to, or to one of these.                                         *)

Missing == <<"missing">>
Unreadable == <<"unreadable">>    \* not YAML
Empty == <<"empty">>              \* no value at all

\* The files of a subdirectory, by their place in the listing.
Files(dir, sub) ==
  LET listed == IF sub \in DOMAIN Listing THEN Listing[sub] ELSE <<>>
  IN  [i \in {j \in DOMAIN listed : dir[listed[j]] # Missing} |-> dir[listed[i]]]
FileAt(dir, path) == IF path \in DOMAIN dir THEN dir[path] ELSE Missing

ColumnTypes ==
  {"DATE", "TIMESTAMP", "VARCHAR", "INTEGER", "BIGINT", "DOUBLE", "BOOLEAN", "JSON"}

\* No name or type is a number: those begin with a digit, a sign or a dot.
ASSUME NamingAssumption ==
  (DOMAIN Numerals \cup OtherNumbers) \cap (SafeIdents \cup ColumnTypes) = {}
=============================================================================
