------------------------------ MODULE ServePath ------------------------------
(***************************************************************************)
(* The read path: requests run in processes of their own and never ask the *)
(* runtime.  Each reads the published context once, looks for its answer   *)
(* in the response cache, and otherwise claims a connection of the read    *)
(* pool, queries, returns the connection and stores the answer.  Meanwhile *)
(* the runtime publishes, flushes and has old tables dropped.  The runtime *)
(* is seen from here: what it publishes is one dataset's table and the     *)
(* definitions of its endpoints (modules Runtime, Serving say when).       *)
(*                                                                         *)
(* A query is one step: DuckDB lets one that has started finish, whatever  *)
(* is dropped.  A scan of the pool is one probe per step, and stands for   *)
(* the last of the 50 scans the code makes before it gives up.             *)
(***************************************************************************)
EXTENDS Integers, FiniteSets

CONSTANTS
  Request,   (* processes that serve requests                              *)
  Endpoint,  (* endpoint names                                             *)
  Scans,     (* those that read the object store: serving_mode remote_scan *)
  Uncached,  (* those whose cache_policy is not "snapshot"                 *)
  Caller,    (* tenant and parameters of a request                         *)
  Def,       (* what a reload may change in the endpoints' definitions     *)
  Table,     (* names of tables; bounds how many coexist                   *)
  PoolSize, RemoteCap,
  MaxGen,    (* bounds the catalog generations                             *)
  None

ASSUME ServeAssumption ==
  /\ Scans \subseteq Endpoint /\ Uncached \subseteq Endpoint
  /\ PoolSize \in Nat \ {0}
  /\ RemoteCap \in 1 .. PoolSize
  /\ MaxGen \in Nat
  /\ None \notin Table \cup Nat
  /\ None \notin [published : BOOLEAN, retires : SUBSET Table]

VARIABLES
  pub,       (* the persistent term: catalog generation, definition, table *)
  previous,  (* the table kept for rollback                                *)
  handler,   (* the running handler of the runtime, None if there is none: *)
             (* whether it has published, and what it retires after that   *)
  db,        (* tables in the DuckDB file                                  *)
  retired,   (* drops in their grace period, with the requests that were   *)
             (* bound to the table and had not begun their query           *)
  cache,     (* rows of the response cache                                 *)
  busy,      (* the pool's locks                                           *)
  req        (* the requests                                               *)

vars == <<pub, previous, handler, db, retired, cache, busy, req>>
runtime == <<pub, previous, handler, db, retired>>

Slot == 0 .. PoolSize - 1
Key  == [gen : Nat, endpoint : Endpoint, caller : Caller, table : Table]
(* All that decides which rows a query returns.                            *)
Rows == [def : Def, endpoint : Endpoint, caller : Caller, table : Table]

NoRequest == [pc |-> "idle", ctx |-> None, endpoint |-> None, caller |-> None,
              tried |-> {}, slot |-> None, rows |-> None]

At(r, pc) == req[r].pc = pc
Set(r, fields) == req' = [req EXCEPT ![r] = fields]
RowsFor(q) == [def |-> q.ctx.def, endpoint |-> q.endpoint, caller |-> q.caller,
               table |-> q.ctx.table]

(* Mutant: a key without the catalog generation.                           *)
CacheKeyNoGen(q) == [gen |-> 0, endpoint |-> q.endpoint, caller |-> q.caller,
                     table |-> q.ctx.table]

(* cache_key.  One dataset; the endpoint's name stands for the dataset too. *)
CacheKey(q) == [gen |-> q.ctx.gen, endpoint |-> q.endpoint, caller |-> q.caller,
                table |-> q.ctx.table]

------------------------------------------------------------------------------
(* Requests                                                                *)

(* serve: read the context, once; without the endpoint the answer is 404,  *)
(* without a snapshot 503, and nothing happens.                            *)
Read(r) ==
  /\ At(r, "idle") /\ pub.def # None /\ pub.table # None
  /\ \E e \in Endpoint, c \in Caller :
       Set(r, [NoRequest EXCEPT !.pc = "bound", !.ctx = pub,
                                !.endpoint = e, !.caller = c])
  /\ UNCHANGED <<runtime, cache, busy>>

(* cache_get: the stored rows, or on to the pool.                          *)
Hits(r) == IF req[r].endpoint \in Uncached THEN {}
           ELSE {e \in cache : e.key = CacheKey(req[r])}

Hit(r) ==
  /\ At(r, "bound")
  /\ \E e \in Hits(r) : Set(r, [req[r] EXCEPT !.pc = "done", !.rows = e.rows])
  /\ UNCHANGED <<runtime, cache, busy>>

Miss(r) ==
  /\ At(r, "bound") /\ Hits(r) = {}
  /\ Set(r, [req[r] EXCEPT !.pc = "probing"])
  /\ UNCHANGED <<runtime, cache, busy>>

(* max_slots: the tail of the pool is out of the reach of remote scans.    *)
SlotsFor(r) == IF req[r].endpoint \in Scans THEN 0 .. RemoteCap - 1 ELSE Slot

(* try_checkout: compare-and-swap on one slot after the other.             *)
Probe(r, s) ==
  /\ At(r, "probing") /\ s \in SlotsFor(r) \ req[r].tried
  /\ IF busy[s]
     THEN /\ Set(r, [req[r] EXCEPT !.tried = @ \cup {s}])
          /\ busy' = busy
     ELSE /\ Set(r, [req[r] EXCEPT !.pc = "querying", !.slot = s, !.tried = {}])
          /\ busy' = [busy EXCEPT ![s] = TRUE]
  /\ UNCHANGED <<runtime, cache>>

(* pool_busy: every slot it may claim was found taken, the answer is 503.  *)
Refused(r) ==
  /\ At(r, "probing") /\ SlotsFor(r) \subseteq req[r].tried
  /\ Set(r, NoRequest)
  /\ UNCHANGED <<runtime, cache, busy>>

(* A remote scan reads files, any other query the table of its context.    *)
TableGone(r) == req[r].endpoint \notin Scans /\ req[r].ctx.table \notin db

(* Mutant: an error is cached like an answer.                              *)
AfterCachesErrors(r, rows) ==
  Set(r, [req[r] EXCEPT !.slot = None, !.rows = rows, !.pc =
    IF req[r].endpoint \in Uncached THEN "done" ELSE "storing"])

(* Where a request goes when its query returned these rows; when it failed *)
(* (None) the answer is 500.                                               *)
After(r, rows) ==
  Set(r, IF rows = None THEN NoRequest
         ELSE [req[r] EXCEPT !.slot = None, !.rows = rows, !.pc =
                 IF req[r].endpoint \in Uncached THEN "done" ELSE "storing"])

(* The query runs, and the slot is free again (the after of pooled_query). *)
Query(r) ==
  /\ At(r, "querying") /\ ~TableGone(r)
  /\ After(r, RowsFor(req[r]))
  /\ busy' = [busy EXCEPT ![req[r].slot] = FALSE]
  /\ UNCHANGED <<runtime, cache>>

(* Mutant: the slot of a failed query is not freed.                        *)
QueryFailsKeepsSlot(r) ==
  /\ At(r, "querying")
  /\ After(r, None)
  /\ UNCHANGED <<runtime, cache, busy>>

(* The query fails, and fails again on a fresh connection of the slot.     *)
QueryFails(r) ==
  /\ At(r, "querying")
  /\ After(r, None)
  /\ busy' = [busy EXCEPT ![req[r].slot] = FALSE]
  /\ UNCHANGED <<runtime, cache>>

(* cache_put: the rows go in, and any others may be evicted: which are old *)
(* enough to go makes no difference to what is read.                       *)
Store(r) ==
  /\ At(r, "storing")
  /\ \E kept \in SUBSET {e \in cache : e.key # CacheKey(req[r])} :
       cache' = kept \cup {[key |-> CacheKey(req[r]), rows |-> req[r].rows]}
  /\ Set(r, [req[r] EXCEPT !.pc = "done"])
  /\ UNCHANGED <<runtime, busy>>

Respond(r) ==
  /\ At(r, "done")
  /\ Set(r, NoRequest)
  /\ UNCHANGED <<runtime, cache, busy>>

------------------------------------------------------------------------------
(* The runtime publishes.  A handler goes on after its publish, and takes  *)
(* no other message meanwhile.                                             *)

(* new_table gives every build a name of its own.  Here a name comes back  *)
(* when no table, request or row of this catalog generation has it: a row  *)
(* of an older one is out of the reach of requests yet to come.            *)
Fresh == Table \ (db \cup {e.key.table : e \in {x \in cache : x.key.gen = pub.gen}}
                  \cup {req[r].ctx.table : r \in {x \in Request : req[x].ctx # None}})

(* A handler that has published.                                           *)
Published(retires) == [published |-> TRUE, retires |-> retires]

(* Mutant: the replaced snapshot is retired, not the one before it.        *)
SwapRetiresReplaced(t) ==
  /\ handler = None /\ t \in Fresh
  /\ pub' = [pub EXCEPT !.table = t]
  /\ previous' = pub.table
  /\ db' = db \cup {t}
  /\ handler' = Published({pub.table} \ {None})
  /\ UNCHANGED <<retired, cache, busy, req>>

(* swap_in                                                                 *)
Swap(t) ==
  /\ handler = None /\ t \in Fresh
  /\ pub' = [pub EXCEPT !.table = t]
  /\ previous' = pub.table
  /\ db' = db \cup {t}
  /\ handler' = Published({previous} \ {None})
  /\ UNCHANGED <<retired, cache, busy, req>>

(* do_rollback                                                             *)
Rollback ==
  /\ handler = None /\ previous # None
  /\ pub' = [pub EXCEPT !.table = previous]
  /\ previous' = pub.table
  /\ handler' = Published({})
  /\ UNCHANGED <<db, retired, cache, busy, req>>

(* apply_reload, republish: new definitions over the same table, or of a   *)
(* dataset that was not served.                                            *)
Republish(def) ==
  /\ handler = None /\ pub.gen < MaxGen
  /\ pub' = [pub EXCEPT !.gen = @ + 1, !.def = def]
  /\ handler' = Published({})
  /\ UNCHANGED <<previous, db, retired, cache, busy, req>>

(* cutover: new definitions over a new table.                              *)
Cutover(def, t) ==
  /\ handler = None /\ pub.gen < MaxGen /\ t \in Fresh
  /\ pub.def # None
  /\ pub' = [gen |-> pub.gen + 1, def |-> def, table |-> t]
  /\ previous' = None
  /\ db' = db \cup {t}
  /\ handler' = Published({pub.table, previous} \ {None})
  /\ UNCHANGED <<retired, cache, busy, req>>

(* Requests that will still ask for the table.                             *)
Waiting(t) ==
  {r \in Request : /\ req[r].pc \in {"bound", "probing", "querying"}
                   /\ req[r].ctx.table = t /\ req[r].endpoint \notin Scans}

Retired(tables) == {[table |-> t, late |-> Waiting(t)] : t \in tables}

(* flush_cache, or flush_dataset_cache, which is the same to one dataset;  *)
(* then drop_table_async.                                                  *)
Flush ==
  /\ handler # None /\ handler.published
  /\ cache' = {}
  /\ retired' = retired \cup Retired(handler.retires)
  /\ handler' = None
  /\ UNCHANGED <<pub, previous, db, busy, req>>

(* teardown_removed: a reload without the dataset starts the drops of its  *)
(* tables before it publishes.                                             *)
Teardown ==
  /\ handler = None /\ pub.gen < MaxGen /\ pub.def # None
  /\ retired' = retired \cup Retired({pub.table, previous} \ {None})
  /\ previous' = None
  /\ handler' = [published |-> FALSE, retires |-> {}]
  /\ UNCHANGED <<pub, db, cache, busy, req>>

(* The rest of that reload.  It is short to the grace period, so requests  *)
(* that were bound in the meantime have theirs too.                        *)
Unpublish ==
  /\ handler # None /\ ~handler.published
  /\ pub' = [gen |-> pub.gen + 1, def |-> None, table |-> None]
  /\ retired' = {[d EXCEPT !.late = @ \cup Waiting(d.table)] : d \in retired}
  /\ handler' = Published({})
  /\ UNCHANGED <<previous, db, cache, busy, req>>

(* The drop, @retire_grace_ms after: a request that was bound to the table *)
(* by then has begun its query, and the handler has published.             *)
DropTable(d) ==
  /\ d \in retired /\ d.late \cap Waiting(d.table) = {}
  /\ (handler # None => handler.published)
  /\ retired' = retired \ {d}
  /\ db' = db \ {d.table}
  /\ UNCHANGED <<pub, previous, handler, cache, busy, req>>

Init ==
  /\ \E def \in Def : pub = [gen |-> 0, def |-> def, table |-> None]
  /\ previous = None
  /\ handler = None
  /\ db = {} /\ retired = {} /\ cache = {}
  /\ busy = [s \in Slot |-> FALSE]
  /\ req = [r \in Request |-> NoRequest]

Step(r) ==
  \/ Read(r) \/ Hit(r) \/ Miss(r) \/ (\E s \in Slot : Probe(r, s)) \/ Refused(r)
  \/ Query(r) \/ QueryFails(r)
  \/ Store(r) \/ Respond(r)

Next ==
  \/ \E r \in Request : Step(r)
  \/ \E t \in Table : Swap(t) \/ (\E def \in Def : Cutover(def, t))
  \/ \E def \in Def : Republish(def)
  \/ \E d \in retired : DropTable(d)
  \/ Rollback \/ Flush \/ Teardown \/ Unpublish

Spec == Init /\ [][Next]_vars

------------------------------------------------------------------------------
Requests == [pc : {"idle", "bound", "probing", "querying", "storing", "done"},
             ctx : [gen : Nat, def : Def, table : Table] \cup {None},
             endpoint : Endpoint \cup {None}, caller : Caller \cup {None},
             tried : SUBSET Slot, slot : Slot \cup {None},
             rows : Rows \cup {None}]

(* Every variable holds a value of its kind; no error is in the cache.     *)
TypeOK ==
  /\ pub \in [gen : Nat, def : Def \cup {None}, table : Table \cup {None}]
  /\ previous \in Table \cup {None}
  /\ handler \in [published : BOOLEAN, retires : SUBSET Table] \cup {None}
  /\ db \subseteq Table
  /\ retired \subseteq [table : Table, late : SUBSET Request]
  /\ cache \subseteq [key : Key, rows : Rows]
  /\ busy \in [Slot -> BOOLEAN]
  /\ req \in [Request -> Requests]

(* The rows a request answers with, fresh or out of the cache, are those   *)
(* its own query over the context it read would have returned, whatever    *)
(* was published, flushed or inserted since ("the key names what built the *)
(* response", cache_key).                                                  *)
AnswersTrue ==
  \A r \in Request : req[r].rows # None => req[r].rows = RowsFor(req[r])

(* A request finds the table of the context it read, however old that      *)
(* context is by the time of the query, whether refreshes, cutovers or the *)
(* removal of the dataset came between, and a rollback finds its table     *)
(* (drop_table_async and its callers).                                     *)
TablesThere ==
  /\ \A t \in Table \ db : Waiting(t) = {}
  /\ {pub.table, previous} \ {None} \subseteq db

(* A connection is used by one process at a time, no slot stays taken when *)
(* its request has gone on, and remote scans never hold more than          *)
(* remote_cap connections (checkout, checkin, max_slots).                  *)
PoolSound ==
  /\ \A s \in Slot :
       Cardinality({r \in Request : req[r].slot = s}) = IF busy[s] THEN 1 ELSE 0
  /\ Cardinality({r \in Request : req[r].slot # None /\ req[r].endpoint \in Scans})
       <= RemoteCap
==============================================================================
