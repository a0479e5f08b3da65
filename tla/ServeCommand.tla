---------------------------- MODULE ServeCommand ----------------------------
(***************************************************************************)
(* `offloader serve` (tools/serve.go): it validates the project, pulls the *)
(* image, picks two free ports and runs the container, each docker command *)
(* a child process to which stop signals are passed on.  The container     *)
(* loads the project again, with the server's rules, while the directory   *)
(* goes on changing as module Tools says.                                  *)
(***************************************************************************)
EXTENDS Tools

CONSTANTS
  ApiPort, AdminPort,   \* the ports asked for
  LastPort,             \* 65535, scaled down
  Scan,                 \* how many ports are probed: 64, scaled down
  MaxMeanwhile          \* bound: how many changes before none is made while serve runs

ASSUME PortAssumption ==
  /\ {ApiPort, AdminPort} \subseteq Nat \ {0}
  /\ LastPort \in Nat
  /\ Scan \in Nat \ {0}

VARIABLES
  pc,        \* where serve is
  phase,     \* the docker command it runs: "pull", then "run"
  notified,  \* stop signals go to its channel; else they kill it
  pending,   \* a signal is in the channel, which holds one
  child,     \* the docker process
  told,      \* the child got a signal
  asked,     \* a stop signal was put in the channel while the container was up
  ports,     \* the host ports picked
  taken,     \* the ports other processes hold since the probe
  moved,     \* one was taken since the probe
  touched,   \* the directory changed since it was validated
  outcome    \* why the child ended

runVars == <<phase, notified, pending, child, told, asked>>
portVars == <<ports, taken, moved>>
serveVars == <<pc, runVars, portVars, touched, outcome>>
vars == <<toolVars, serveVars>>

NoPorts == [api |-> 0, admin |-> 0]

ServeInit ==
  /\ pc = "idle" /\ phase = "pull" /\ notified = FALSE /\ pending = FALSE /\ child = "none"
  /\ told = FALSE /\ asked = FALSE /\ ports = NoPorts /\ taken = {} /\ moved = FALSE
  /\ touched = FALSE /\ outcome = ""

Init == ToolInit /\ ServeInit

-----------------------------------------------------------------------------
(* runServe *)

Exit ==
  /\ pc' = "idle" /\ outcome' = ""
  /\ phase' = "pull" /\ notified' = FALSE /\ pending' = FALSE /\ child' = "none"
  /\ told' = FALSE /\ asked' = FALSE /\ ports' = NoPorts /\ taken' = {} /\ moved' = FALSE
  /\ touched' = FALSE

Check ==
  /\ pc = "idle"
  /\ IF dir["offloader.yml"] # Missing /\ Tool!ValidateProject(dir) = {}
     THEN /\ pc' = "lookup" /\ touched' = FALSE /\ outcome' = ""
          /\ UNCHANGED <<runVars, portVars>>
     ELSE Exit

\* Look for docker, then pull the image unless told not to.
LookPath(found, noPull) ==
  /\ pc = "lookup"
  /\ IF found
     THEN /\ pc' = IF noPull THEN "ports" ELSE "notify"
          /\ UNCHANGED <<runVars, portVars, touched, outcome>>
     ELSE Exit

\* Mutant: no free port within reach is no port.
FirstFreePortOrNone(start, held) ==
  LET free == {p \in start .. start + Scan - 1 : p <= LastPort /\ p \notin held}
  IN  IF free = {} THEN -1 ELSE CHOOSE p \in free : \A q \in free : p <= q

FirstFreePort(start, held) ==
  LET free == {p \in start .. start + Scan - 1 : p <= LastPort /\ p \notin held}
  IN  IF free = {} THEN start ELSE CHOOSE p \in free : \A q \in free : p <= q

\* Mutant: the port just picked for the API is probed again.
AdminStartAtApi(api) == IF AdminPort < api THEN api + 1 ELSE AdminPort

AdminStart(api) == IF AdminPort <= api THEN api + 1 ELSE AdminPort

PickPorts(held) ==
  /\ pc = "ports"
  /\ LET api == FirstFreePort(ApiPort, held)
     IN  ports' = [api |-> api, admin |-> FirstFreePort(AdminStart(api), held)]
  /\ taken' = held
  /\ phase' = "run" /\ pc' = "notify"
  /\ UNCHANGED <<notified, pending, child, told, asked, moved, touched, outcome>>

-----------------------------------------------------------------------------
(* runDocker *)

\* Mutant: the child is started without a handler for stop signals.
NotifyNobody ==
  /\ pc = "notify"
  /\ pc' = "start"
  /\ UNCHANGED <<runVars, portVars, touched, outcome>>

Notify ==
  /\ pc = "notify"
  /\ notified' = TRUE /\ pc' = "start"
  /\ UNCHANGED <<phase, pending, child, told, asked, portVars, touched, outcome>>

Start(starts) ==
  /\ pc = "start"
  /\ IF starts
     THEN /\ child' = "up" /\ pc' = "wait"
          /\ UNCHANGED <<phase, notified, pending, told, asked, portVars, touched, outcome>>
     ELSE Exit

\* The goroutine passes a signal on; a child that is gone does not get it.
Forward ==
  /\ pc = "wait" /\ pending
  /\ pending' = FALSE
  /\ told' = (told \/ child # "gone")
  /\ UNCHANGED <<pc, phase, notified, child, asked, portVars, touched, outcome>>

Wait ==
  /\ pc = "wait" /\ child = "gone"
  /\ pc' = "return"
  /\ UNCHANGED <<runVars, portVars, touched, outcome>>

\* The deferred signal.Stop: a signal still in the channel is lost.
StopNotify ==
  /\ pc = "return"
  /\ IF phase = "pull" /\ outcome = "pulled"
     THEN /\ pc' = "ports" /\ notified' = FALSE /\ pending' = FALSE /\ child' = "none"
          /\ told' = FALSE /\ outcome' = ""
          /\ UNCHANGED <<phase, asked, portVars, touched>>
     ELSE Exit

-----------------------------------------------------------------------------
(* Outside of serve: a stop signal, docker and the container, other        *)
(* processes.                                                              *)

Up == child \in {"up", "bound", "ready"}

\* Mutant: the channel has no buffer, and nobody receives before wait.
SignalUnbuffered ==
  /\ pc # "idle"
  /\ IF notified
     THEN /\ pending' = (pending \/ pc = "wait")
          /\ asked' = (asked \/ (phase = "run" /\ child # "gone"))
          /\ UNCHANGED <<pc, phase, notified, child, told, portVars, touched, outcome>>
     ELSE IF child = "none"
          THEN Exit
          ELSE /\ pc' = "killed" /\ UNCHANGED <<runVars, portVars, touched, outcome>>

Signal ==
  /\ pc # "idle"
  /\ IF notified
     THEN /\ pending' = TRUE
          /\ asked' = (asked \/ (phase = "run" /\ child # "gone"))
          /\ UNCHANGED <<pc, phase, notified, child, told, portVars, touched, outcome>>
     ELSE IF child = "none"
          THEN Exit
          ELSE /\ pc' = "killed" /\ UNCHANGED <<runVars, portVars, touched, outcome>>

PullEnds(ok) ==
  /\ phase = "pull" /\ child = "up"
  /\ child' = "gone" /\ outcome' = IF ok THEN "pulled" ELSE "not pulled"
  /\ UNCHANGED <<pc, phase, notified, pending, told, asked, portVars, touched>>

Bindable == ports.api # ports.admin /\ {ports.api, ports.admin} \subseteq (1 .. LastPort) \ taken

Bind ==
  /\ phase = "run" /\ child = "up"
  /\ IF Bindable
     THEN child' = "bound" /\ UNCHANGED outcome
     ELSE child' = "gone" /\ outcome' = "not bound"
  /\ UNCHANGED <<pc, phase, notified, pending, told, asked, portVars, touched>>

\* Offloader.Application: the container loads the mounted directory or stops.
Boot ==
  /\ child = "bound"
  /\ IF Server!Load(dir).errors = {}
     THEN child' = "ready" /\ UNCHANGED outcome
     ELSE child' = "gone" /\ outcome' = "refused"
  /\ UNCHANGED <<pc, phase, notified, pending, told, asked, portVars, touched>>

ContainerEnds ==
  /\ phase = "run" /\ Up
  /\ child' = "gone" /\ outcome' = "ended"
  /\ UNCHANGED <<pc, phase, notified, pending, told, asked, portVars, touched>>

\* Another process takes a port that serve picked, before docker binds it.
TakePort(p) ==
  /\ phase = "run" /\ pc \in {"notify", "start", "wait"} /\ child \in {"none", "up"}
  /\ ~moved /\ p \in {ports.api, ports.admin} \ taken
  /\ taken' = taken \cup {p} /\ moved' = TRUE
  /\ UNCHANGED <<pc, runVars, ports, touched, outcome>>

ServeNext ==
  \/ Check
  \/ \E found, noPull \in BOOLEAN : LookPath(found, noPull)
  \/ \E held \in SUBSET (1 .. LastPort) : PickPorts(held)
  \/ Notify
  \/ \E starts \in BOOLEAN : Start(starts)
  \/ Forward
  \/ Wait
  \/ StopNotify
  \/ Signal
  \/ \E ok \in BOOLEAN : PullEnds(ok)
  \/ Bind
  \/ Boot
  \/ ContainerEnds
  \/ \E p \in 1 .. LastPort : TakePort(p)

Next ==
  \/ ServeNext /\ UNCHANGED toolVars
  \/ /\ ToolNext
     /\ pc = "idle" \/ changes' <= MaxMeanwhile
     /\ touched' = (touched \/ (pc # "idle" /\ dir' # dir))
     /\ UNCHANGED <<pc, runVars, portVars, outcome>>

Spec == Init /\ [][Next]_vars

-----------------------------------------------------------------------------
TypeOK ==
  /\ changes \in 0 .. MaxChanges
  /\ command.name \in {"none", "init", "scaffold"}
  /\ command.result \in {"", "done", "failed"}
  /\ pc \in {"idle", "lookup", "ports", "notify", "start", "wait", "return", "killed"}
  /\ phase \in {"pull", "run"}
  /\ child \in {"none", "up", "bound", "ready", "gone"}
  /\ {notified, pending, told, asked, moved, touched} \subseteq BOOLEAN
  /\ {ports.api, ports.admin} \subseteq Nat
  /\ taken \subseteq 1 .. LastPort
  /\ outcome \in {"", "pulled", "not pulled", "not bound", "refused", "ended"}

-----------------------------------------------------------------------------
(* The two validators, asked while nothing else goes on *)

Quiet == pc = "idle" /\ command = Idle

Agree(tool, server) ==
  LET both(sub, code) == <<<<sub, 0>>, <<Top, 0, sub, code>>>> \in tool \cap server
      public == <<<<"offloader.yml", 0>>, <<Top, 0, "auth", "public_tenant_endpoint">>>>
  IN  \/ tool = server
      \/ both("datasets", "duplicate_dataset")
      \/ both("endpoints", "duplicate_endpoint") /\ tool = server \cup {public}

\* Both validators report the same findings (validation-cases.yml: they "must
\* both report exactly" these), whatever the project.  Only of a project in
\* which two datasets share an id do they judge the endpoints by another one
\* of the two, and of endpoints that share a name the helper asks each, and
\* the server the one it keeps, whether it may be public; both report the
\* duplicate.
ToolAgrees == Quiet => Agree(Tool!ValidateProject(dir), Server!Load(dir).errors)

Isolated(catalog) ==
  \A name \in DOMAIN catalog.endpoints :
    LET ep == catalog.endpoints[name]
        column == catalog.datasets[At(ep, "dataset")[2]].tenant
    IN  IF column = Absent
        THEN At(ep, "tenant") = Nil
        ELSE /\ At(At(ep, "tenant"), "column") = Str(column)
             /\ catalog.auth = "required"
             /\ \A f \in Elements(Items(At(At(ep, "query"), "filters"))) :
                  At(f, "column") # Str(column)

Accepts(catalog) == catalog.errors = {}

\* In a catalog that loads without errors a tenant cannot see another's rows:
\* each endpoint over a dataset with a tenant column binds that column, no
\* filter gives a request a say in it, and callers are authenticated.
TenantIsolation ==
  LET holds(catalog) == Accepts(catalog) => Isolated(catalog)
  IN  Quiet => holds(Server!Load(dir))

\* Whether a value can be bound to a column of a type.
Binds(v, type) ==
  CASE type = "VARCHAR" -> IsStr(v)
    [] type = "INTEGER" -> v[1] = "int" /\ v[2] \in MinInt32 .. MaxInt32
    [] type \in {"BIGINT", "DOUBLE"} -> v[1] = "int" /\ v[2] \in MinInt64 .. MaxInt64
    [] type \in {"DATE", "TIMESTAMP"} -> IsOneOf(v, IsoDates)
    [] OTHER -> type = "BOOLEAN" /\ IsBool(v)

PlanSound(plan, ep, ds) ==
  LET computed == Elements(plan.select) \cup Elements(plan.order)
      grouped == plan.group # <<>> \/ \E s \in computed : At(s, "agg") # Nil
      pinned == IF ds.tenant = Absent THEN {} ELSE {0}
  IN  /\ \A i \in DOMAIN plan.where :
           /\ Binds(plan.where[i].value, ds.types[plan.where[i].column])
           /\ (plan.where[i].column = ds.tenant) <=> (i \in pinned)
      /\ pinned \subseteq DOMAIN plan.where
      /\ grouped => \A s \in computed :
           At(s, "agg") = Nil => At(s, "column")[2] \in Elements(plan.group)
      /\ {At(s, "as") : s \in Elements(plan.select)} \subseteq Elements(Items(At(ep, "columns")))

\* What a query needs and the loader does not ask for: that the column which is
\* compared with the name of a tenant is text, and that an enum, compared with
\* text, holds nothing but strings.
Textual(ep, ds) ==
  /\ ds.tenant # Absent => ds.types[ds.tenant] = "VARCHAR"
  /\ \A p \in Elements(Server!ParamList(ep)) :
       At(p, "type") = Str("enum") => \A v \in Elements(Items(At(p, "enum"))) : IsStr(v)

DatasetOf(catalog, ep) == catalog.datasets[At(ep, "dataset")[2]]

AllSound(catalog) ==
  \A name \in DOMAIN catalog.endpoints :
    LET ep == catalog.endpoints[name]
        ds == DatasetOf(catalog, ep)
    IN  Textual(ep, ds) =>
          \A request \in Requests :
            Server!Valid(ep, request, ds) => PlanSound(Server!Build(ep, request, Str("acme"), ds), ep, ds)

\* Of a catalog that loads without errors, every request that the compiler
\* lets through becomes a query the engine can run, if tenants and enums are
\* text: each value, a default included, fits the column it is compared with;
\* the tenant has a condition, the only one on its column; an output that is
\* neither aggregated nor grouped is not computed, and nothing outside the
\* allowlist is returned, whichever outputs ?columns= leaves out.
PlansSound ==
  LET holds(catalog) == Accepts(catalog) => AllSound(catalog)
  IN  Quiet => holds(Server!Load(dir))

\* A default fits the columns it is compared with, else the catalog does not
\* load (endpoint.ex: "a bad default is a config error at load - not a runtime
\* surprise when the param is first omitted").
DefaultsFit(catalog) ==
  \A name \in DOMAIN catalog.endpoints :
    LET ep == catalog.endpoints[name]
    IN  \A p \in Elements(Server!ParamList(ep)), f \in Elements(Server!FilterList(ep)) :
          At(f, "param") = At(p, "name") =>
            \A v \in Server!Default(p) : Binds(v, DatasetOf(catalog, ep).types[At(f, "column")[2]])

DefaultsBind ==
  LET holds(catalog) == Accepts(catalog) => DefaultsFit(catalog)
  IN  Quiet => holds(Server!Load(dir))

-----------------------------------------------------------------------------
(* serve *)

\* The container refuses the project only if it changed after serve checked
\* it (serve.go: "a broken project fails here rather than as a container
\* that never becomes ready").
BootsWhatItChecked == outcome = "refused" => touched

\* A docker process never runs without serve waiting for it, whenever serve
\* itself is told to stop (serve.go: "instead of orphaning it").
NoOrphan == Up => pc = "wait"

\* A stop signal that came once the container's process was to be started is
\* passed on to it, or about to be, while it runs.
StopHeard == (asked /\ phase = "run" /\ Up) => pending \/ told

\* If two ports are free within reach of both that were asked for, docker can
\* bind the two that serve picked, unless somebody took one in between.
BindsWhatItProbed ==
  LET reach(start) == {p \in start .. start + Scan - 1 : p <= LastPort}
      free == (reach(ApiPort) \cap reach(AdminPort)) \ taken
  IN  (outcome = "not bound" /\ ~moved) => Cardinality(free) < 2
=============================================================================
