-------------------------------- MODULE Tools --------------------------------
(***************************************************************************)
(* A project directory and who writes to it: an operator with an editor,   *)
(* `offloader init` (tools/init.go), which writes a starter project file   *)
(* by file and may fail half-way, and `offloader scaffold-dataset`         *)
(* (tools/scaffold_dataset.go), which turns a manifest into a dataset.     *)
(* What the directory is worth is told by two validators: the helper's     *)
(* (Tool) and the server's (Server).                                       *)
(***************************************************************************)
EXTENDS ManifestRules

CONSTANTS
  Starts,      \* the directories the operator may start with
  Edits,       \* what one edit may be: [path, key, to]
  MaxChanges,  \* bound: how many edits and writing commands
  Requests     \* the requests to an endpoint whose plans are looked at

ASSUME ChangesAssumption == MaxChanges \in Nat

Tool == INSTANCE ProjectRules
Server == INSTANCE Compiler

VARIABLES
  dir,       \* the project directory
  changes,   \* how many edits and commands there were
  command    \* the command in the foreground: what it is and what it has left to write

toolVars == <<dir, changes, command>>

\* there: the files there were when it began; alone: no edit has come between.
Elements(seq) == {seq[i] : i \in DOMAIN seq}
Source == "data/manifest.json"          \* what scaffold-dataset reads
Target == "datasets/scaffolded.yml"     \* and writes
Idle == [name |-> "none", force |-> FALSE, files |-> <<>>, there |-> {}, alone |-> TRUE, result |-> ""]
Paths == DOMAIN dir
There == {path \in Paths : dir[path] # Missing}

ToolInit == dir \in Starts /\ changes = 0 /\ command = Idle

-----------------------------------------------------------------------------
(* The starter project *)

Object(f) == Map([k \in {x \in DOMAIN f : f[x] # Nil} |-> f[k]])
Column(name, type) == Map([name |-> Str(name), type |-> Str(type)])

ProjectTemplate(public) ==
  Object([version |-> Int_(1), datasets_dir |-> Str("datasets"), endpoints_dir |-> Str("endpoints"),
          keys |-> IF public THEN Nil ELSE Str("keys/keys.yml"),
          auth |-> Str(IF public THEN "none" ELSE "required")])

DatasetTemplate(public) ==
  Object([id |-> Str("events"), description |-> Str("text"),
          manifest |-> Str("data/events/manifest.json"),
          tenant_column |-> IF public THEN Nil ELSE Str("tenant_id"),
          schema |-> List(<<Column("event_date", "DATE")>>
                          \o (IF public THEN <<>> ELSE <<Column("tenant_id", "VARCHAR")>>)
                          \o <<Column("account_id", "VARCHAR"), Column("event_type", "VARCHAR"),
                               Column("event_count", "BIGINT")>>)])

FilterOn(col, op, param) == Map([column |-> Str(col), op |-> Str(op), param |-> Str(param)])
ParamOf(name, type, required) ==
  Map([name |-> Str(name), type |-> Str(type), required |-> Bool(required)])

EndpointTemplate(public) ==
  Object([name |-> Str("events_by_day"), version |-> Int_(1), owner |-> Str("text"),
          description |-> Str("text"), dataset |-> Str("events"), serving_mode |-> Str("local_table"),
          tenant |-> IF public THEN Nil ELSE Map([column |-> Str("tenant_id")]),
          freshness |-> Map([max_staleness_minutes |-> Int_(2)]),
          params |-> List(<<ParamOf("account_id", "string", FALSE), ParamOf("from", "date", TRUE),
                            ParamOf("to", "date", TRUE)>>),
          query |-> Map([group_by |-> List(<<Str("account_id")>>),
                         select |-> List(<<Map([as |-> Str("account_id"), column |-> Str("account_id")]),
                                           Map([as |-> Str("event_count_total"),
                                                column |-> Str("event_count"), agg |-> Str("sum")])>>),
                         filters |-> List(<<FilterOn("account_id", "eq", "account_id"),
                                            FilterOn("event_date", "gte", "from"),
                                            FilterOn("event_date", "lte", "to")>>),
                         order_by |-> List(<<Map([column |-> Str("event_count_total"),
                                                  dir |-> Str("desc")])>>)]),
          columns |-> List(<<Str("account_id"), Str("event_count_total")>>),
          pagination |-> Map([default_limit |-> Int_(1), max_limit |-> Int_(2)]),
          cache |-> Map([policy |-> Str("snapshot")])])

KeysTemplate ==
  Map([keys |-> List(<<Map([id |-> Str("demo"), hash |-> Str("hash"), tenant |-> Str("tenant_demo"),
                            endpoints |-> List(<<Str("events_by_day")>>), status |-> Str("active")])>>)])

\* Mutant: a public project gets the dataset of the other.
ScaffoldOneDataset(public) ==
  <<[path |-> "datasets/events.yml", doc |-> DatasetTemplate(FALSE)],
    [path |-> "endpoints/events_by_day.yml", doc |-> EndpointTemplate(public)],
    [path |-> "offloader.yml", doc |-> ProjectTemplate(public)]>>

\* The files of a starter project in the order they are written, that of their paths.
ScaffoldProject(public) ==
  <<[path |-> "datasets/events.yml", doc |-> DatasetTemplate(public)],
    [path |-> "endpoints/events_by_day.yml", doc |-> EndpointTemplate(public)]>>
  \o (IF public THEN <<>> ELSE <<[path |-> "keys/keys.yml", doc |-> KeysTemplate]>>)
  \o <<[path |-> "offloader.yml", doc |-> ProjectTemplate(public)]>>

StarterPaths == {"datasets/events.yml", "endpoints/events_by_day.yml", "keys/keys.yml", "offloader.yml"}

\* What is listed in a subdirectory of a project with no files but those and Source.
ListsOnly(sub, path) ==
  \E i \in DOMAIN Listing[sub] : \A j \in DOMAIN Listing[sub] :
    IF i = j THEN Listing[sub][j] = path ELSE Listing[sub][j] \notin StarterPaths \cup {Source}

\* The names that the templates use match the patterns, and each file is
\* listed in the subdirectory where it is written.
ASSUME StarterAssumption ==
  /\ {"events", "events_by_day", "account_id", "from", "to", "demo"} \subseteq SafeIdents
  /\ {"tenant_id", "event_date", "event_type", "event_count", "event_count_total"} \subseteq SafeColumns
  /\ "hash" \in Hashes
  /\ {"datasets", "endpoints"} \subseteq DOMAIN Listing
  /\ ListsOnly("datasets", "datasets/events.yml")
  /\ ListsOnly("endpoints", "endpoints/events_by_day.yml")

-----------------------------------------------------------------------------
(* offloader init *)

\* Mutant: a directory without a project file is taken for empty.
ClobbersProject(files) == {"offloader.yml"} \cap There

Clobbers(files) == {files[i].path : i \in DOMAIN files} \cap There

InitCommand(public, force) ==
  /\ command.name = "none"
  /\ changes < MaxChanges
  /\ changes' = changes + 1
  /\ LET files == ScaffoldProject(public)
         refused == ~force /\ Clobbers(files) # {}
     IN  command' = [name |-> "init", force |-> force, there |-> There, alone |-> TRUE,
                     files |-> IF refused THEN <<>> ELSE files,
                     result |-> IF refused THEN "failed" ELSE ""]
  /\ UNCHANGED dir

WriteFile ==
  /\ command.files # <<>>
  /\ LET file == Head(command.files)
         left == Tail(command.files)
     IN  /\ dir' = [dir EXCEPT ![file.path] = file.doc]
         /\ command' = [command EXCEPT !.files = left, !.result = IF left = <<>> THEN "done" ELSE ""]
  /\ UNCHANGED changes

\* The disk is full: files written so far stay, this one may have lost its content.
WriteFails ==
  /\ command.files # <<>>
  /\ \E left \in {dir[Head(command.files).path], Empty, Unreadable} :
       dir' = [dir EXCEPT ![Head(command.files).path] = left]
  /\ command' = [command EXCEPT !.files = <<>>, !.result = "failed"]
  /\ UNCHANGED changes

CommandEnds ==
  /\ command.result # ""
  /\ command' = Idle
  /\ UNCHANGED <<dir, changes>>

-----------------------------------------------------------------------------
(* offloader scaffold-dataset --from manifest.json --out datasets/scaffolded.yml *)

\* What YAML reads where renderDataset writes s bare.
Bare(s) ==
  CASE s \in DOMAIN Numerals -> Int_(Numerals[s])
    [] s \in OtherNumbers -> Number_(s)
    [] s \in {"", "~", "null", "Null", "NULL"} -> Nil
    [] s \in {"true", "True", "TRUE"} -> Bool(TRUE)
    [] s \in {"false", "False", "FALSE"} -> Bool(FALSE)
    [] OTHER -> Str(s)

\* The columns of the manifest's schema; fields it lacks are empty.
ReadSchema(m) ==
  LET cols == Items(At(m, "schema"))
  IN  IF m \in {Missing, Unreadable} THEN <<>>
      ELSE [i \in DOMAIN cols |-> [name |-> Text(cols[i], "name"), type |-> Text(cols[i], "type")]]

\* Mutant: a tenant column is taken as given.
HasColumns(cols, name) == cols # <<>>

HasColumn(cols, name) == \E i \in DOMAIN cols : cols[i].name = name

RenderDataset(id, cols, tenant) ==
  Object([id |-> Bare(id), description |-> Bare(id), manifest |-> Str(Source),
          tenant_column |-> IF tenant = "" THEN Nil ELSE Bare(tenant),
          schema |-> List([i \in DOMAIN cols |->
                             Map([name |-> Bare(cols[i].name), type |-> Bare(cols[i].type)])])])

\* An existing file is overwritten; a name that is not safe is only warned of.
ScaffoldDataset(id, tenant) ==
  /\ command.name = "none"
  /\ changes < MaxChanges
  /\ changes' = changes + 1
  /\ LET cols == ReadSchema(dir[Source])
         refused == cols = <<>> \/ id \notin SafeIdents \/ (tenant # "" /\ ~HasColumn(cols, tenant))
         file == [path |-> Target, doc |-> RenderDataset(id, cols, tenant)]
     IN  command' = [name |-> "scaffold", force |-> TRUE, there |-> There, alone |-> TRUE,
                     files |-> IF refused THEN <<>> ELSE <<file>>,
                     result |-> IF refused THEN "failed" ELSE ""]
  /\ UNCHANGED dir

-----------------------------------------------------------------------------
(* The operator's editor sets or drops a key of a file, or writes it whole. *)

SetKey(doc, key, v) ==
  Object([k \in DOMAIN doc[2] \cup {key} |-> IF k = key THEN v ELSE doc[2][k]])

Edit(e) ==
  /\ changes < MaxChanges
  /\ changes' = changes + 1
  /\ \/ e.key = "" /\ dir' = [dir EXCEPT ![e.path] = e.to]
     \/ /\ e.key # "" /\ IsMap(dir[e.path])
        /\ dir' = [dir EXCEPT ![e.path] = SetKey(dir[e.path], e.key, e.to)]
  /\ command' = [command EXCEPT !.alone = command.name = "none"]

ToolNext ==
  \/ \E e \in Edits : Edit(e)
  \/ \E public, force \in BOOLEAN : InitCommand(public, force)
  \/ \E tenant \in {"", "tenant_id"} : ScaffoldDataset("scaffolded", tenant)
  \/ WriteFile
  \/ WriteFails
  \/ CommandEnds

-----------------------------------------------------------------------------
(* What the commands promise *)

\* A starter project passes validate (init.go: "guaranteed to pass"), also
\* when it was forced over an older one, public or not, or over part of one.
InitPasses ==
  (/\ command.name = "init" /\ command.result = "done" /\ command.alone
   /\ command.there \subseteq StarterPaths \cup {Source})
  => Tool!ValidateProject(dir) = {}

\* Without --force, init changes no file that was there when it began.
InitKeeps ==
  [][(command.name = "init" /\ ~command.force /\ command'.files # command.files)
     => \A path \in command.there : dir'[path] = dir[path]]_toolVars

\* A dataset scaffolded from a manifest that passed the pre-check validates,
\* and the manifest's snapshot serves it, unless YAML reads the name of a
\* column, which is written bare, as another type than a string.
ScaffoldServes ==
  LET m == dir[Source]
  IN  (/\ command.name = "scaffold" /\ command.result = "done" /\ command.alone
       /\ ValidateManifest(m) = {}
       /\ \A col \in Elements(ReadSchema(m)) : Bare(col.name) = Str(col.name))
      => /\ Tool!ValidateDataset(dir[Target]) = {}
         /\ Compatible(m, Tool!BuildDataset(dir[Target]).types)

\* What `offloader manifest validate` accepts, the container accepts
\* (manifest_test.go: "this pre-check must reject what the container would"),
\* save for what the helper does not look at: the sign of the counts and the
\* columns inside the data files.
ManifestAgrees ==
  LET m == dir[Source]
      unseen == {<<"row_count", "invalid_value">>, <<"size_bytes", "invalid_value">>,
                 <<"schema_version", "invalid_value">>, <<"files", "schema_data_mismatch">>}
  IN  (command = Idle /\ ValidateManifest(m) = {}) => LoadManifest(m) \subseteq unseen
=============================================================================
