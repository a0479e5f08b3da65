------------------------------- MODULE Runtime -------------------------------
(***************************************************************************)
(* The serving runtime: one single-writer process (Offloader.Runtime), one *)
(* refresh worker per dataset (Offloader.Refresh.Worker), the staging      *)
(* tasks of blue-green schema cutovers, the delayed table drops, the       *)
(* DuckDB file and the warm-start sidecar, through crashes and restarts.   *)
(*                                                                         *)
(* A handler of the runtime is one action.  Two facts about the code make  *)
(* that exact: readers see a handler's effect through the one publish it   *)
(* makes, a worker through the one row of its dataset, and a table that is *)
(* retired is dropped by a separate task seconds after the handler wrote   *)
(* the sidecar, so a crash inside a handler leaves the disk as a crash     *)
(* just before it, or just after it, would.                                *)
(*                                                                         *)
(* Left out: last_attempted and the other diagnostics, the response cache  *)
(* with the generation that keys it, the length of the intervals (a worker *)
(* that polls may do so at any time, a timer fire at any time), and the    *)
(* table a crash in the middle of a boot refresh leaves behind, which      *)
(* nothing mentions.                                                       *)
(***************************************************************************)
EXTENDS Naturals, Sequences, FiniteSets, Functions

CONSTANTS
  Dataset,      (* dataset ids                                             *)
  Endpoint,     (* endpoint names                                          *)
  SnapshotId,   (* ids a producer gives its snapshots                      *)
  Contract,     (* what shapes a table: schema and tenant column           *)
  Tenanted,     (* the contracts that have a tenant column                 *)
  Path,         (* where a manifest comes from                             *)
  Polled,       (* the paths that are polled: sources, and manifests if a  *)
                (* refresh_interval_ms is set                              *)
  Table,        (* names of materialized tables; bounds how many coexist   *)
  Configs,      (* the validated catalogs an operator may publish          *)
  Faults,       (* which of "sidecar", "drop", "sweep" may fail            *)
  Limit,        (* bounds: how many "reload", "crash", "kill", "lost" steps*)
  None

(* Steps that TLC needs a bound on: reloads, crashes, workers and tasks    *)
(* that are killed, builds that are lost to a prune.                       *)
Bounded == {"reload", "crash", "kill", "lost"}

(* What Catalog validation leaves possible: an endpoint belongs to a       *)
(* dataset of the same config and is compiled against its contract, and    *)
(* auth: none is refused when an endpoint is tenant scoped.                *)
IsDef(x) == x \in [contract : Contract, path : Path]

IsConfig(c) ==
  /\ c \in [datasets  : [Dataset -> [contract : Contract, path : Path] \cup {None}],
            endpoints : [Endpoint -> [dataset : Dataset, contract : Contract] \cup {None}],
            auth      : {"none", "required"}]
  /\ \A e \in Endpoint : c.endpoints[e] # None =>
       /\ c.datasets[c.endpoints[e].dataset] # None
       /\ c.datasets[c.endpoints[e].dataset].contract = c.endpoints[e].contract
       /\ c.endpoints[e].contract \in Tenanted => c.auth = "required"

ASSUME ConstantsAssumption ==
  /\ Tenanted \subseteq Contract /\ Polled \subseteq Path
  /\ Configs # {} /\ \A c \in Configs : IsConfig(c)
  /\ Faults \subseteq {"sidecar", "drop", "sweep"}
  /\ Limit \in [Bounded -> Nat]

(* Null is not a value of anything it stands in for.                       *)
ASSUME NoneAssumption ==
  /\ None \notin SnapshotId \cup Path \cup Table \cup Contract
  /\ None \notin [contract : Contract, path : Path]
  /\ None \notin [dataset : Dataset, contract : Contract]
  /\ None \notin [id : SnapshotId, contract : Contract]
  /\ None \notin [id : SnapshotId, table : Table, contract : Contract, path : Path]
  /\ None \notin [gen : Nat, def : [contract : Contract, path : Path],
                  endpoints : [Endpoint -> [dataset : Dataset, contract : Contract] \cup {None}]]
  /\ None \notin Nat

VARIABLES
  phase,      (* "down", "boot" (Runtime.init is running) or "up"          *)
  todo,       (* datasets whose initial refresh has not run yet            *)
  catalog,    (* the SERVED catalog                                        *)
  wanted,     (* the config loaded last                                    *)
  snapshots,  (* per dataset: active, previous, quarantined                *)
  pending,    (* per dataset: the schema cutover in progress               *)
  stageGen,   (* per dataset: generation of its last staging build         *)
  builds,     (* staging tasks that have not finished                      *)
  retries,    (* armed :retry_stage timers                                 *)
  worker,     (* per dataset: its refresh worker                           *)
  inbox,      (* per dataset: messages the runtime has not handled         *)
  db,         (* tables in the DuckDB file, built or being built           *)
  retiring,   (* tables a cleanup task is about to drop                    *)
  sidecar,    (* snapshots.json                                            *)
  failed,     (* what failed and is not made up for: the last sidecar      *)
              (* write; drops, sweeps, builders since the last full sweep  *)
  spent       (* steps used up of each bounded kind                        *)

vars == <<phase, todo, catalog, wanted, snapshots, pending, stageGen, builds,
          retries, worker, inbox, db, retiring, sidecar, failed, spent>>

------------------------------------------------------------------------------
(* Values                                                                  *)

Def   == [contract : Contract, path : Path]
Ep    == [dataset : Dataset, contract : Contract]
Snap  == [id : SnapshotId, table : Table, contract : Contract, path : Path]
Entry == [active : Snap \cup {None}, previous : Snap \cup {None},
          quarantined : SnapshotId \cup {None}]
NoEntry == [active |-> None, previous |-> None, quarantined |-> None]

(* Endpoints of a dataset in a cutover's target; the generation tells a    *)
(* build's result from that of a superseded one.                           *)
Pending == [gen : Nat, def : Def, endpoints : [Endpoint -> Ep \cup {None}]]
Build   == [dataset : Dataset, gen : Nat, def : Def, table : Table]

(* A worker's position in Worker.run, with what it read of the snapshot    *)
(* state before it resolved; and the :refresh_now messages in its mailbox. *)
Seen   == [id : SnapshotId \cup {None}, contract : Contract \cup {None},
           path : Path \cup {None}, quarantined : SnapshotId \cup {None}]
Worker == [st : {"none", "idle", "resolving", "building", "calling"},
           def : Def \cup {None}, how : Path \cup {None}, force : BOOLEAN,
           seen : Seen \cup {None}, snap : Snap \cup {None}, kicks : Nat]
NoWorker == [st |-> "none", def |-> None, how |-> None, force |-> FALSE,
             seen |-> None, snap |-> None, kicks |-> 0]
Idle(def, kicks) == [NoWorker EXCEPT !.st = "idle", !.def = def, !.kicks = kicks]

(* "apply" is a worker's {:apply_refresh, ...}, "staged" what a staging    *)
(* task delivers (or its :DOWN).  snap = None: no table was built.         *)
Message == [kind : {"apply"}, snap : Snap \cup {None}]
           \cup [kind : {"staged"}, snap : Snap \cup {None}, gen : Nat]

Configured(c) == {d \in Dataset : c.datasets[d] # None}
EndpointsOf(c, d) ==
  [e \in Endpoint |-> IF c.endpoints[e] # None /\ c.endpoints[e].dataset = d
                      THEN c.endpoints[e] ELSE None]
NoCatalog == [datasets |-> [d \in Dataset |-> None],
              endpoints |-> [e \in Endpoint |-> None], auth |-> "required"]
Tables(S) == {s.table : s \in S \ {None}}
SameBuild(a, b) == a.contract = b.contract /\ a.path = b.path

Spend(what) ==
  /\ spent[what] < Limit[what]
  /\ spent' = [spent EXCEPT ![what] = @ + 1]

------------------------------------------------------------------------------
(* Tables.  The code draws 48 random bits per build, so a new table never  *)
(* has a name that anything still mentions.                                *)

Kept(d) == Tables({snapshots[d].active, snapshots[d].previous})
Persisted(d) == Tables({sidecar[d].active, sidecar[d].previous})
Queued(d) == Tables({inbox[d][i].snap : i \in DOMAIN inbox[d]})
InUse == (UNION {Kept(d) \cup Queued(d) \cup Tables({worker[d].snap}) : d \in Dataset})
         \cup {b.table : b \in builds}
Fresh == Table \ (db \cup retiring \cup InUse \cup UNION {Persisted(d) : d \in Dataset})

(* A drop is a best-effort call on the engine's writer.                    *)
Drop(t) ==
  \/ db' = db \ {t} /\ failed' = failed
  \/ "drop" \in Faults /\ db' = db /\ failed' = failed \cup {"drop"}

(* Mutant: a swap forgets the table before the previous one.               *)
RetireForgets(snap, keep) == IF keep = None THEN Tables({snap}) ELSE {}

(* drop_table_async: a task that drops the table after a grace period.     *)
Retire(snap, keep) ==
  IF keep = None THEN Tables({snap}) ELSE Tables({snap}) \ Tables({keep})

(* Mutants: a record without the quarantine, one without the previous.     *)
WriteSidecarNoQuarantine(S, left) ==
  /\ sidecar' = [d \in Dataset |-> IF S[d].active = None THEN NoEntry
                                   ELSE [S[d] EXCEPT !.quarantined = None]]
  /\ failed' = left
WriteSidecarActiveOnly(S, left) ==
  /\ sidecar' = [d \in Dataset |-> IF S[d].active = None THEN NoEntry
                                   ELSE [S[d] EXCEPT !.previous = None]]
  /\ failed' = left

(* write_sidecar: every dataset with an active snapshot, replaced as one   *)
(* file; a failed write is only logged.                                    *)
WriteSidecar(S, left) ==
  \/ /\ sidecar' = [d \in Dataset |-> IF S[d].active = None THEN NoEntry ELSE S[d]]
     /\ failed' = left \ {"sidecar"}
  \/ /\ "sidecar" \in Faults
     /\ sidecar' = sidecar
     /\ failed' = left \cup {"sidecar"}

------------------------------------------------------------------------------
(* Refresh.perform: what a resolved candidate leads to.                    *)

(* Mutant: the quarantine is not looked at.                                *)
SkipsServedOnly(seen, def, how, force, id) ==
  ~force /\ id = seen.id /\ seen.contract = def.contract /\ seen.path = how

Skips(seen, def, how, force, id) ==
  /\ ~force
  /\ \/ id = seen.id /\ seen.contract = def.contract /\ seen.path = how
     \/ id = seen.quarantined

SeenIn(entry) ==
  IF entry.active = None
  THEN [id |-> None, contract |-> None, path |-> None,
        quarantined |-> entry.quarantined]
  ELSE [id |-> entry.active.id, contract |-> entry.active.contract,
        path |-> entry.active.path, quarantined |-> entry.quarantined]

Built(id, t, def, how) ==
  [id |-> id, table |-> t, contract |-> def.contract, path |-> how]

(* swap_in: publish the new snapshot, keep the replaced one for rollback,  *)
(* persist, and only then retire the one before it.                        *)
SwapIn(d, snap) ==
  LET old == snapshots[d]
      new == [snapshots EXCEPT ![d] =
                [active |-> snap, previous |-> old.active, quarantined |-> None]]
  IN  /\ snapshots' = new
      /\ WriteSidecar(new, failed)
      /\ retiring' = retiring \cup Retire(old.previous, old.active)

------------------------------------------------------------------------------
(* Workers                                                                 *)

(* A refresh begins: the worker reads the snapshot state before the slow   *)
(* resolve.                                                                *)
WorkerRead(d, how, force, kicks) ==
  /\ phase = "up" /\ worker[d].st = "idle"
  /\ worker' = [worker EXCEPT ![d] =
       [@ EXCEPT !.st = "resolving", !.how = how, !.force = force, !.kicks = kicks,
                 !.seen = SeenIn(snapshots[d])]]
  /\ UNCHANGED <<phase, todo, catalog, wanted, snapshots, pending, stageGen, builds,
                 retries, inbox, db, retiring, sidecar, failed, spent>>

(* A manual refresh is forced and may name another manifest.               *)
Manual(d) == \E how \in Path : WorkerRead(d, how, TRUE, worker[d].kicks)

(* The timer of a dataset that has an interval; init arms it, and each     *)
(* poll again.                                                             *)
Poll(d) ==
  /\ worker[d].st = "idle" /\ worker[d].def.path \in Polled
  /\ WorkerRead(d, worker[d].def.path, FALSE, worker[d].kicks)

(* A :refresh_now from the runtime, which arms no timer.                   *)
RefreshNow(d) ==
  /\ worker[d].st = "idle" /\ worker[d].kicks > 0
  /\ WorkerRead(d, worker[d].def.path, FALSE, worker[d].kicks - 1)

(* The worker hands an outcome over and waits for the answer.              *)
Call(d, snap) ==
  /\ inbox' = [inbox EXCEPT ![d] =
       Append(@, [kind |-> "apply", snap |-> snap])]
  /\ worker' = [worker EXCEPT ![d] = [@ EXCEPT !.st = "calling", !.snap = None]]

(* Nothing to build: the source has no snapshot, cannot be read or fails   *)
(* the contract, or the candidate is served or quarantined already.        *)
WorkerSkip(d) ==
  /\ phase = "up" /\ worker[d].st = "resolving"
  /\ Call(d, None)
  /\ UNCHANGED <<phase, todo, catalog, wanted, snapshots, pending, stageGen, builds,
                 retries, db, retiring, sidecar, failed, spent>>

WorkerBuild(d) ==
  /\ phase = "up" /\ worker[d].st = "resolving"
  /\ \E id \in SnapshotId, t \in Fresh :
       /\ ~Skips(worker[d].seen, worker[d].def, worker[d].how, worker[d].force, id)
       /\ worker' = [worker EXCEPT ![d] =
            [@ EXCEPT !.st = "building",
                      !.snap = Built(id, t, worker[d].def, worker[d].how)]]
       /\ db' = db \cup {t}
  /\ UNCHANGED <<phase, todo, catalog, wanted, snapshots, pending, stageGen, builds,
                 retries, inbox, retiring, sidecar, failed, spent>>

WorkerBuilt(d) ==
  /\ phase = "up" /\ worker[d].st = "building"
  /\ Call(d, worker[d].snap)
  /\ UNCHANGED <<phase, todo, catalog, wanted, snapshots, pending, stageGen, builds,
                 retries, db, retiring, sidecar, failed, spent>>

(* The files lack a column, a type does not fit, or the build fails: the   *)
(* worker drops what it built and reports.                                 *)
WorkerRejects(d) ==
  /\ phase = "up" /\ worker[d].st = "building"
  /\ Call(d, None)
  /\ Drop(worker[d].snap.table)
  /\ UNCHANGED <<phase, todo, catalog, wanted, snapshots, pending, stageGen, builds,
                 retries, retiring, sidecar, spent>>

(* A builder that is killed leaves its table in the file.                  *)
Abandoned(D) ==
  IF \E d \in D : worker[d].st = "building" THEN failed \cup {"kill"} ELSE failed

(* The worker dies, by an exception or because the runtime did not answer  *)
(* within 30 s, and its supervisor restarts it.  Its call stays in the     *)
(* runtime's inbox; its own messages are gone.                             *)
WorkerDies(d) ==
  /\ phase = "up" /\ worker[d].st \in {"resolving", "building", "calling"}
  /\ Spend("kill")
  /\ failed' = Abandoned({d})
  /\ worker' = [worker EXCEPT ![d] = Idle(@.def, 0)]
  /\ UNCHANGED <<phase, todo, catalog, wanted, snapshots, pending, stageGen, builds,
                 retries, inbox, db, retiring, sidecar>>

------------------------------------------------------------------------------
(* The runtime applies a worker's outcome                                  *)

(* trigger_refresh: a :refresh_now to the worker, if there is one.         *)
Kick(w) == IF w.st = "none" THEN w ELSE [w EXCEPT !.kicks = @ + 1]

(* The call of w is answered.  A live worker waits for the last call of    *)
(* its dataset.                                                            *)
Answer(d, w) ==
  LET rest == Tail(inbox[d])
      more == \E i \in DOMAIN rest : rest[i].kind = "apply"
  IN  /\ inbox' = [inbox EXCEPT ![d] = rest]
      /\ worker' = [worker EXCEPT ![d] = IF w.st = "calling" /\ ~more
                                         THEN Idle(w.def, w.kicks) ELSE w]

Applying(d, w) ==
  /\ phase = "up" /\ inbox[d] # <<>> /\ Head(inbox[d]).kind = "apply"
  /\ Answer(d, w)
  /\ UNCHANGED <<phase, todo, catalog, wanted, pending, stageGen, builds, retries,
                 db>>

ApplyUnchanged(d) ==
  /\ Applying(d, worker[d])
  /\ Head(inbox[d]).snap = None
  /\ UNCHANGED <<snapshots, retiring, sidecar, failed, spent>>

ApplySwap(d) ==
  /\ Applying(d, worker[d])
  /\ Head(inbox[d]).snap # None
  /\ SwapIn(d, Head(inbox[d]).snap)
  /\ UNCHANGED spent

(* The config generation the build read was pruned meanwhile, which takes  *)
(* a reload: the build never goes live, and the worker is to build again.  *)
ApplyLost(d) ==
  /\ Applying(d, Kick(worker[d]))
  /\ Head(inbox[d]).snap # None
  /\ spent["reload"] > 0 /\ Spend("lost")
  /\ retiring' = retiring \cup Retire(Head(inbox[d]).snap, None)
  /\ UNCHANGED <<snapshots, sidecar, failed>>

(* Mutant: the snapshot is quarantined, not its id.                        *)
RollbackQuarantinesSnap(d) ==
  LET old == snapshots[d]
      new == [snapshots EXCEPT ![d] = [active |-> old.previous, previous |-> old.active,
                                       quarantined |-> old.active]]
  IN  /\ phase = "up" /\ old.previous # None
      /\ snapshots' = new
      /\ WriteSidecar(new, failed)
      /\ UNCHANGED <<phase, todo, catalog, wanted, pending, stageGen, builds, retries,
                     worker, inbox, db, retiring, spent>>

(* do_rollback: the two snapshots trade places, and the one rolled back    *)
(* from is quarantined.                                                    *)
Rollback(d) ==
  LET old == snapshots[d]
      new == [snapshots EXCEPT ![d] =
                [active |-> old.previous, previous |-> old.active,
                 quarantined |-> IF old.active = None THEN None ELSE old.active.id]]
  IN  /\ phase = "up" /\ old.previous # None
      /\ snapshots' = new
      /\ WriteSidecar(new, failed)
      /\ UNCHANGED <<phase, todo, catalog, wanted, pending, stageGen, builds, retries,
                     worker, inbox, db, retiring, spent>>

------------------------------------------------------------------------------
(* Hot reload                                                              *)

(* Mutant: the config's auth is published as it is.                        *)
ServedAuthAsGiven(auth, endpoints) == auth

(* Never publish auth: none over a tenant-scoped endpoint.                 *)
ServedAuth(auth, endpoints) ==
  IF \E e \in Endpoint : endpoints[e] # None /\ endpoints[e].contract \in Tenanted
  THEN "required" ELSE auth

(* Mutant: the new endpoints of a dataset mid cutover go live at once.     *)
OverlayDatasetsOnly(c, pend) ==
  [datasets  |-> [d \in Dataset |-> IF pend[d] # None THEN catalog.datasets[d]
                                    ELSE c.datasets[d]],
   endpoints |-> c.endpoints,
   auth      |-> ServedAuth(c.auth, c.endpoints)]

(* merge_pending: datasets mid cutover keep their served definition and    *)
(* their served endpoints; everything else is the new config's.            *)
Overlay(c, pend) ==
  LET waits(ep) == ep # None /\ pend[ep.dataset] # None
      eps == [e \in Endpoint |->
                IF waits(catalog.endpoints[e]) THEN catalog.endpoints[e]
                ELSE IF waits(c.endpoints[e]) THEN None ELSE c.endpoints[e]]
  IN  [datasets  |-> [d \in Dataset |-> IF pend[d] # None THEN catalog.datasets[d]
                                        ELSE c.datasets[d]],
       endpoints |-> eps,
       auth      |-> ServedAuth(c.auth, eps)]

Removed(c) == Configured(catalog) \ Configured(c)
Added(c)   == Configured(c) \ Configured(catalog)
Touched(c) == {d \in Configured(catalog) \cap Configured(c) :
                 catalog.datasets[d] # c.datasets[d] \/ pending[d] # None}
(* A contract change is staged, unless exactly that target is building.    *)
Staged(c)  == {d \in Touched(c) :
                 catalog.datasets[d].contract # c.datasets[d].contract}
Restaged(c) == {d \in Staged(c) : IF pending[d] = None THEN TRUE
                                  ELSE pending[d].def # c.datasets[d]}
InPlace(c) == Touched(c) \ Staged(c)

(* Mutant: going back to the served contract does not cancel the cutover.  *)
PendingAfterReverts(c) ==
  [d \in Dataset |->
     IF d \in Removed(c) THEN None
     ELSE IF d \in Restaged(c)
     THEN [gen |-> stageGen[d] + 1, def |-> c.datasets[d],
           endpoints |-> EndpointsOf(c, d)]
     ELSE pending[d]]

PendingAfter(c) ==
  [d \in Dataset |->
     IF d \in Removed(c) \cup InPlace(c) THEN None
     ELSE IF d \in Restaged(c)
     THEN [gen |-> stageGen[d] + 1, def |-> c.datasets[d],
           endpoints |-> EndpointsOf(c, d)]
     ELSE pending[d]]

(* teardown_removed forgets the snapshots of a removed dataset.            *)
Remaining(c) == [d \in Dataset |-> IF d \in Removed(c) THEN NoEntry ELSE snapshots[d]]

(* Mutant: a new worker is not told to refresh.                            *)
WorkersAfterUnkicked(c) ==
  [d \in Dataset |->
     IF d \in Removed(c) \cup Restaged(c) THEN NoWorker
     ELSE IF d \in InPlace(c) \cup Added(c) THEN Idle(c.datasets[d], 0)
     ELSE worker[d]]

(* A worker of a removed, restaged or re-pointed dataset is terminated     *)
(* wherever it is; what it already sent stays in the inbox.  A new one is  *)
(* told to refresh.                                                        *)
WorkersAfter(c) ==
  [d \in Dataset |->
     IF d \in Removed(c) \cup Restaged(c) THEN NoWorker
     ELSE IF d \in InPlace(c) \cup Added(c) THEN Idle(c.datasets[d], 1)
     ELSE worker[d]]

(* apply_reload: every dataset moves to its new definition, by its kind of *)
(* change, and the rest goes live in one publish.                          *)
Reload(c) ==
  LET gone == Removed(c)
      pend == PendingAfter(c)
  IN  /\ phase = "up"
      /\ Spend("reload")
      /\ pending' = pend
      /\ stageGen' = [d \in Dataset |-> IF d \in Restaged(c) THEN stageGen[d] + 1
                                        ELSE stageGen[d]]
      /\ \E table \in [Restaged(c) -> Fresh] :
           /\ IsInjective(table)
           /\ builds' = builds \cup
                {[dataset |-> d, gen |-> pend[d].gen, def |-> pend[d].def,
                  table |-> table[d]] : d \in Restaged(c)}
           /\ db' = db \cup {table[d] : d \in Restaged(c)}
      /\ worker' = WorkersAfter(c)
      /\ snapshots' = Remaining(c)
      /\ LET left == Abandoned(gone \cup Restaged(c) \cup InPlace(c))
         IN  IF gone = {} THEN sidecar' = sidecar /\ failed' = left
             ELSE WriteSidecar(Remaining(c), left)
      /\ retiring' = retiring \cup UNION {Kept(d) : d \in gone}
      /\ catalog' = Overlay(c, pend)
      /\ wanted' = c
      /\ UNCHANGED <<phase, todo, retries, inbox>>

(* A staging task ends: with a table, without one, or by dying.            *)
StageOk(b) ==
  /\ phase = "up" /\ b \in builds
  /\ builds' = builds \ {b}
  /\ \E id \in SnapshotId :
       inbox' = [inbox EXCEPT ![b.dataset] =
         Append(@, [kind |-> "staged", gen |-> b.gen,
                    snap |-> Built(id, b.table, b.def, b.def.path)])]
  /\ UNCHANGED <<phase, todo, catalog, wanted, snapshots, pending, stageGen, retries,
                 worker, db, retiring, sidecar, failed, spent>>

StageNothing(b) ==
  /\ phase = "up" /\ b \in builds
  /\ builds' = builds \ {b}
  /\ inbox' = [inbox EXCEPT ![b.dataset] =
                 Append(@, [kind |-> "staged", gen |-> b.gen, snap |-> None])]
  /\ UNCHANGED <<phase, todo, catalog, wanted, snapshots, pending, stageGen, retries,
                 worker, retiring, sidecar>>

StageRejects(b) == StageNothing(b) /\ Drop(b.table) /\ UNCHANGED spent
StageDies(b) ==
  /\ StageNothing(b)
  /\ Spend("kill") /\ failed' = failed \cup {"kill"}
  /\ UNCHANGED db

Delivering(d) ==
  /\ phase = "up" /\ inbox[d] # <<>> /\ Head(inbox[d]).kind = "staged"
  /\ inbox' = [inbox EXCEPT ![d] = Tail(@)]
  /\ UNCHANGED <<phase, todo, wanted, stageGen, builds, db, spent>>

(* Mutant: the generation is not looked at.                                *)
CurrentAny(d, gen) == pending[d] # None

Current(d, gen) == IF pending[d] = None THEN FALSE ELSE pending[d].gen = gen

(* Mutant: a build without a table lands as well.                          *)
LandsUnbuilt(d) == Current(d, Head(inbox[d]).gen)

Lands(d) == Current(d, Head(inbox[d]).gen) /\ Head(inbox[d]).snap # None

(* The old-contract tables are no rollback target.                         *)
Promoted(d, snap) == [active |-> snap, previous |-> None, quarantined |-> None]

EndpointsAfter(d) ==
  LET mine(ep) == IF ep = None THEN FALSE ELSE ep.dataset = d
  IN  [e \in Endpoint |->
         IF pending[d].endpoints[e] # None THEN pending[d].endpoints[e]
         ELSE IF mine(catalog.endpoints[e]) THEN None ELSE catalog.endpoints[e]]

(* cutover: contract, endpoints and table go live in one publish.          *)
Cutover(d) ==
  LET snap == Head(inbox[d]).snap
      new == [snapshots EXCEPT ![d] = Promoted(d, snap)]
  IN  /\ Delivering(d)
      /\ Lands(d)
      /\ pending' = [pending EXCEPT ![d] = None]
      /\ catalog' = [datasets |-> [catalog.datasets EXCEPT ![d] = pending[d].def],
                     endpoints |-> EndpointsAfter(d),
                     auth |-> ServedAuth(wanted.auth, EndpointsAfter(d))]
      /\ snapshots' = new
      /\ WriteSidecar(new, failed)
      /\ retiring' = retiring \cup Retire(snapshots[d].active, snap)
                              \cup Retire(snapshots[d].previous, snap)
      /\ worker' = [worker EXCEPT ![d] = Idle(pending[d].def, 0)]
      /\ UNCHANGED retries

(* Mutant: no timer is armed.                                              *)
StageNotReadyNoTimer(d) ==
  /\ Delivering(d)
  /\ Current(d, Head(inbox[d]).gen)
  /\ retiring' = retiring \cup Retire(Head(inbox[d]).snap, None)
  /\ UNCHANGED <<catalog, snapshots, pending, retries, worker, sidecar, failed>>

(* Not built, or built from a config generation pruned since: try again    *)
(* in 30 s.                                                                *)
StageNotReady(d) ==
  /\ Delivering(d)
  /\ Current(d, Head(inbox[d]).gen)
  /\ retiring' = retiring \cup Retire(Head(inbox[d]).snap, None)
  /\ retries' = retries \cup {[dataset |-> d, gen |-> Head(inbox[d]).gen]}
  /\ UNCHANGED <<catalog, snapshots, pending, worker, sidecar, failed>>

(* The result of a build that a later reload replaced.                     *)
StageSuperseded(d) ==
  /\ Delivering(d)
  /\ ~Current(d, Head(inbox[d]).gen)
  /\ retiring' = retiring \cup Retire(Head(inbox[d]).snap, None)
  /\ UNCHANGED <<catalog, snapshots, pending, retries, worker, sidecar, failed>>

RetryStage(r) ==
  /\ phase = "up" /\ r \in retries
  /\ retries' = retries \ {r}
  /\ IF Current(r.dataset, r.gen)
     THEN \E t \in Fresh :
            /\ builds' = builds \cup {[dataset |-> r.dataset, gen |-> r.gen,
                                       def |-> pending[r.dataset].def, table |-> t]}
            /\ db' = db \cup {t}
     ELSE UNCHANGED <<builds, db>>
  /\ UNCHANGED <<phase, todo, catalog, wanted, snapshots, pending, stageGen, worker,
                 inbox, retiring, sidecar, failed, spent>>

------------------------------------------------------------------------------
(* Cleanup tasks, crash and boot                                           *)

EngineDrop(t) ==
  /\ phase # "down" /\ t \in retiring
  /\ retiring' = retiring \ {t}
  /\ Drop(t)
  /\ UNCHANGED <<phase, todo, catalog, wanted, snapshots, pending, stageGen, builds,
                 retries, worker, inbox, sidecar, spent>>

(* The runtime stops, is killed, or dies with its linked engine.  Tasks    *)
(* that outlive it hold the dead engine's pid and can do nothing.          *)
Crash ==
  /\ phase # "down" /\ Spend("crash")
  /\ phase' = "down" /\ todo' = {}
  /\ catalog' = NoCatalog /\ wanted' = NoCatalog
  /\ snapshots' = [d \in Dataset |-> NoEntry]
  /\ pending' = [d \in Dataset |-> None]
  /\ stageGen' = [d \in Dataset |-> 0]
  /\ builds' = {} /\ retries' = {} /\ retiring' = {}
  /\ worker' = [d \in Dataset |-> NoWorker]
  /\ inbox' = [d \in Dataset |-> <<>>]
  /\ UNCHANGED <<db, sidecar, failed>>

(* Mutant: the table is not looked for.                                    *)
SeededUnchecked(c, d) ==
  IF sidecar[d].active = None \/ c.datasets[d] = None THEN NoEntry
  ELSE IF SameBuild(sidecar[d].active, c.datasets[d]) THEN sidecar[d] ELSE NoEntry

(* seed_from_sidecar: resume a stored snapshot whose table survived and    *)
(* was built from what the config says today; keep its previous one under  *)
(* the same condition, and the quarantine.                                 *)
Seeded(c, d) ==
  LET record == sidecar[d]
      usable == IF record.active = None \/ c.datasets[d] = None THEN FALSE
                ELSE SameBuild(record.active, c.datasets[d]) /\ record.active.table \in db
      keeps  == IF record.previous = None THEN FALSE
                ELSE SameBuild(record.previous, record.active)
                     /\ record.previous.table \in db
  IN  IF ~usable THEN NoEntry
      ELSE IF keeps THEN record ELSE [record EXCEPT !.previous = None]

Boot(c) ==
  /\ phase = "down"
  /\ phase' = "boot" /\ todo' = Configured(c)
  /\ catalog' = c /\ wanted' = c
  /\ snapshots' = [d \in Dataset |-> Seeded(c, d)]
  /\ UNCHANGED <<pending, stageGen, builds, retries, worker, inbox, db, retiring,
                 sidecar, failed, spent>>

(* initial_refresh of one dataset, in the runtime's own process.           *)
BootRefresh(d) ==
  /\ phase = "boot" /\ d \in todo
  /\ todo' = todo \ {d}
  /\ \E id \in SnapshotId, t \in Fresh :
       /\ ~Skips(SeenIn(snapshots[d]), catalog.datasets[d], catalog.datasets[d].path,
                 FALSE, id)
       /\ SwapIn(d, Built(id, t, catalog.datasets[d], catalog.datasets[d].path))
       /\ db' = db \cup {t}
  /\ UNCHANGED <<phase, catalog, wanted, pending, stageGen, builds, retries, worker,
                 inbox, spent>>

BootSkip(d) ==
  /\ phase = "boot" /\ d \in todo
  /\ todo' = todo \ {d}
  /\ UNCHANGED <<phase, catalog, wanted, snapshots, pending, stageGen, builds, retries,
                 worker, inbox, db, retiring, sidecar, failed, spent>>

(* Mutant: only the datasets that serve get a worker.                      *)
StartedServing(c) ==
  [d \in Dataset |-> IF c.datasets[d] = None \/ snapshots[d].active = None
                     THEN NoWorker ELSE Idle(c.datasets[d], 0)]

Started(c) ==
  [d \in Dataset |-> IF c.datasets[d] = None THEN NoWorker ELSE Idle(c.datasets[d], 0)]

(* sweep_orphan_tables, then start_workers.                                *)
BootFinish ==
  /\ phase = "boot" /\ todo = {}
  /\ phase' = "up"
  /\ \/ /\ db' = db \cap UNION {Kept(d) : d \in Dataset}
        /\ failed' = failed \cap {"sidecar"}
     \/ /\ "sweep" \in Faults
        /\ db' = db /\ failed' = failed \cup {"sweep"}
  /\ worker' = Started(catalog)
  /\ UNCHANGED <<todo, catalog, wanted, snapshots, pending, stageGen, builds, retries,
                 inbox, retiring, sidecar, spent>>

------------------------------------------------------------------------------
Init ==
  /\ phase = "down" /\ todo = {}
  /\ catalog = NoCatalog /\ wanted = NoCatalog
  /\ snapshots = [d \in Dataset |-> NoEntry]
  /\ pending = [d \in Dataset |-> None]
  /\ stageGen = [d \in Dataset |-> 0]
  /\ builds = {} /\ retries = {} /\ db = {} /\ retiring = {} /\ failed = {}
  /\ worker = [d \in Dataset |-> NoWorker]
  /\ inbox = [d \in Dataset |-> <<>>]
  /\ sidecar = [d \in Dataset |-> NoEntry]
  /\ spent = [what \in Bounded |-> 0]

WorkerStep(d) ==
  \/ Manual(d) \/ Poll(d) \/ RefreshNow(d)
  \/ WorkerSkip(d) \/ WorkerBuild(d) \/ WorkerBuilt(d) \/ WorkerRejects(d) \/ WorkerDies(d)

Handle(d) ==
  \/ ApplyUnchanged(d) \/ ApplySwap(d) \/ ApplyLost(d)
  \/ Cutover(d) \/ StageNotReady(d) \/ StageSuperseded(d)

Stage(b) == StageOk(b) \/ StageRejects(b) \/ StageDies(b)

Next ==
  \/ \E d \in Dataset : WorkerStep(d) \/ Handle(d) \/ Rollback(d)
                        \/ BootRefresh(d) \/ BootSkip(d)
  \/ \E c \in Configs : Reload(c) \/ Boot(c)
  \/ \E b \in builds : Stage(b)
  \/ \E r \in retries : RetryStage(r)
  \/ \E t \in retiring : EngineDrop(t)
  \/ Crash \/ BootFinish

Spec == Init /\ [][Next]_vars

------------------------------------------------------------------------------
(* Safety                                                                  *)

(* Every variable holds a value of its kind.                               *)
TypeOK ==
  /\ phase \in {"down", "boot", "up"}
  /\ todo \subseteq Dataset
  /\ catalog \in [datasets : [Dataset -> Def \cup {None}],
                  endpoints : [Endpoint -> Ep \cup {None}], auth : {"none", "required"}]
  /\ wanted \in [datasets : [Dataset -> Def \cup {None}],
                 endpoints : [Endpoint -> Ep \cup {None}], auth : {"none", "required"}]
  /\ snapshots \in [Dataset -> Entry]
  /\ pending \in [Dataset -> Pending \cup {None}]
  /\ stageGen \in [Dataset -> Nat]
  /\ builds \subseteq Build
  /\ retries \subseteq [dataset : Dataset, gen : Nat]
  /\ worker \in [Dataset -> Worker]
  /\ inbox \in [Dataset -> Seq(Message)]
  /\ db \subseteq Table
  /\ retiring \subseteq Table
  /\ sidecar \in [Dataset -> Entry]
  /\ failed \subseteq {"sidecar", "drop", "sweep", "kill"}
  /\ spent \in [Bounded -> Nat]

(* The table of the snapshot a dataset serves, and of the one it could     *)
(* roll back to, is in the DuckDB file and no cleanup task is about to     *)
(* drop it: a table is retired only once nothing refers to it              *)
(* (drop_table_async and its callers, sweep_orphan_tables).                *)
KeptTablesStay == \A d \in Dataset : Kept(d) \subseteq db \ retiring

(* A restart with the served config resumes what serves now: whenever the  *)
(* active snapshot was built from that config and the last write of the    *)
(* sidecar succeeded, sidecar and DuckDB file bring back the same          *)
(* snapshot, the quarantine of a rollback, and the rollback target if it   *)
(* is of the same build (write_sidecar before the drops;                   *)
(* seed_from_sidecar).                                                     *)
RestartResumes ==
  phase = "up" /\ "sidecar" \notin failed =>
    \A d \in Configured(catalog) :
      LET entry == snapshots[d]
          back  == Seeded(catalog, d)
      IN  entry.active # None /\ SameBuild(entry.active, catalog.datasets[d]) =>
            /\ back.active = entry.active
            /\ back.quarantined = entry.quarantined
            /\ entry.previous # None /\ SameBuild(entry.previous, entry.active) =>
                 back.previous = entry.previous

(* Endpoints, dataset contract and table always go together: a served      *)
(* endpoint was compiled against the contract of the table it reads, and   *)
(* so is the rollback target's table ("never a mix", cutover; "the         *)
(* previous always serves the same contract", swap_in).                    *)
OneContract ==
  \A d \in Configured(catalog) :
    LET contract == catalog.datasets[d].contract
    IN  /\ \A snap \in {snapshots[d].active, snapshots[d].previous} \ {None} :
             snap.contract = contract
        /\ \A e \in Endpoint :
             catalog.endpoints[e] # None /\ catalog.endpoints[e].dataset = d =>
               catalog.endpoints[e].contract = contract

(* While a schema cutover is pending its dataset has no refresh worker     *)
(* ("freeze the old worker", stage_one) and exactly one of: a build of the *)
(* current generation, its undelivered result, its retry timer.  None      *)
(* would wedge the dataset, two would race each other.                     *)
OneBuildPerCutover ==
  \A d \in Dataset : pending[d] # None =>
    LET gen == pending[d].gen
    IN  /\ worker[d] = NoWorker
        /\ Cardinality({b \in builds : b.dataset = d /\ b.gen = gen})
           + Cardinality({i \in DOMAIN inbox[d] : inbox[d][i].kind = "staged"
                                                 /\ inbox[d][i].gen = gen})
           + Cardinality({r \in retries : r.dataset = d /\ r.gen = gen}) = 1

(* auth: none is never published over a tenant-scoped endpoint, whatever   *)
(* cutovers are pending (republish).                                       *)
FailClosed ==
  catalog.auth = "none" =>
    \A e \in Endpoint : catalog.endpoints[e] # None =>
      catalog.endpoints[e].contract \notin Tenanted

(* Once no cutover is pending the runtime serves exactly the config loaded *)
(* last: datasets, endpoints and auth (apply_reload, cutover).             *)
Converged ==
  phase = "up" /\ (\A d \in Dataset : pending[d] = None) => catalog = wanted

(* No table is forgotten: unless a builder was killed or a drop failed     *)
(* since the last full sweep, each table in the file is kept, in flight or *)
(* about to be dropped (every failure path of materialize_checked,         *)
(* on_staged_result and apply_outcome drops its own).                      *)
NothingLeaks ==
  phase = "up" /\ failed \subseteq {"sidecar"} => db \subseteq InUse \cup retiring

------------------------------------------------------------------------------
(* Action properties                                                       *)

(* A dataset that serves and stays configured goes on serving through      *)
(* every reload, cutover, refresh and rollback, until the runtime stops    *)
(* ("zero downtime", reload).                                              *)
NoDowntime ==
  [][phase = "up" /\ phase' = "up" =>
       \A d \in Configured(catalog) \cap Configured(catalog') :
         snapshots[d].active # None => snapshots'[d].active # None]_vars

(* The snapshot that becomes active at d was rolled back from.             *)
Returns(d) ==
  LET old == snapshots[d]
      new == snapshots'[d].active
  IN  /\ old.quarantined # None /\ new # None
      /\ new # old.active /\ new.id = old.quarantined

(* Ways it may: another rollback, a schema cutover, a manual refresh.      *)
Deliberate(d) ==
  \/ snapshots'[d].active = snapshots[d].previous
  \/ pending[d] # None /\ pending'[d] = None
  \/ worker[d].force

(* An automatic refresh that starts after a rollback does not undo it, nor *)
(* does the refresh of a restart (the quarantine check of Refresh.perform, *)
(* the quarantine in the sidecar).                                         *)
RollbackHolds ==
  [][\A d \in Dataset :
       Returns(d) => \/ Deliberate(d)
                     \/ worker[d].st = "calling"
                        /\ worker[d].seen.quarantined # snapshots[d].quarantined]_vars

(* The same of every automatic refresh, which is what the comment on the   *)
(* check promises.                                                         *)
RollbackNeverUndone ==
  [][\A d \in Dataset : Returns(d) => Deliberate(d)]_vars

------------------------------------------------------------------------------
(* Liveness                                                                *)

(* A worker that refreshes: resolved, built, handed over.                  *)
WorkerGoesOn(d) ==
  WorkerSkip(d) \/ WorkerBuild(d) \/ WorkerBuilt(d) \/ WorkerRejects(d)

(* The runtime and its workers handle their mailboxes, tasks and timers    *)
(* run, the poll timer of a dataset that has one among them; nobody has to *)
(* refresh by hand.  A dataset whose refreshes begin again and again is    *)
(* built in the end, from a config generation that is still there: prune   *)
(* runs only at a reload, and those are finitely many here.                *)
Fairness ==
  /\ \A d \in Dataset :
       /\ WF_vars(Handle(d))
       /\ SF_vars(Cutover(d))
       /\ SF_vars(ApplySwap(d))
       /\ WF_vars(Poll(d))
       /\ WF_vars(RefreshNow(d))
       /\ WF_vars(WorkerGoesOn(d))
       /\ SF_vars(WorkerBuild(d))
       /\ SF_vars(WorkerBuilt(d))
       /\ WF_vars(BootRefresh(d) \/ BootSkip(d))
       /\ SF_vars(\E b \in builds : b.dataset = d /\ StageOk(b))
       /\ WF_vars(\E b \in builds : b.dataset = d /\ Stage(b))
       /\ WF_vars(\E r \in retries : r.dataset = d /\ RetryStage(r))
  /\ WF_vars(\E t \in retiring : EngineDrop(t))
  /\ WF_vars(BootFinish)
  /\ WF_vars(\E c \in Configs : Boot(c))

FairSpec == Spec /\ Fairness

(* Every schema cutover ends: it lands, or a reload or crash replaces it.  *)
CutoverEnds == \A d \in Dataset : pending[d] # None ~> pending[d] = None

(* A dataset that is polled gets to serve, however often its refreshes     *)
(* fail, unless it is removed or a reload ends the polls (schedule,        *)
(* start_workers).  Without an interval a refresh that failed is not       *)
(* retried.                                                                *)
DatasetServes ==
  \A d \in Dataset :
    LET polled == d \in Configured(catalog) /\ catalog.datasets[d].path \in Polled
    IN  polled ~> (snapshots[d].active # None \/ ~polled)
==============================================================================
