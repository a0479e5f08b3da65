--------------------------- MODULE ServePathProofs ---------------------------
(***************************************************************************)
(* The read path for every number of requests, endpoints, tables, slots    *)
(* and publishes: types, one holder per connection, tables that outlast    *)
(* the requests bound to them, and answers that are those of the context   *)
(* a request read.                                                         *)
(***************************************************************************)
EXTENDS ServePath, FiniteSetTheorems, TLAPS

Context == [gen : Nat, def : Def, table : Table]

\* What a request holds depends on how far it has come.
Sane(q) ==
  /\ q.pc # "idle" => q.ctx \in Context /\ q.endpoint \in Endpoint /\ q.caller \in Caller
  /\ IF q.pc = "querying"
     THEN q.slot \in Slot /\ (q.endpoint \in Scans => q.slot < RemoteCap)
     ELSE q.slot = None
  /\ IF q.pc \in {"storing", "done"} THEN q.rows \in Rows ELSE q.rows = None

TypeInv == TypeOK /\ \A r \in Request : Sane(req[r])

\* A slot is taken exactly while one request holds it.
PoolInv ==
  /\ \A s \in Slot : busy[s] <=> \E r \in Request : req[r].slot = s
  /\ \A q, r \in Request : req[q].slot = req[r].slot /\ req[q].slot # None => q = r

\* Where a table is on its way out: kept, to be retired by the handler, or
\* retired; only one of these at a time, but for a removal not yet published.
Unpublished == handler # None /\ ~handler.published
Retires == IF handler = None THEN {} ELSE handler.retires
Dropping == {d.table : d \in retired}
KeptNow == {pub.table, previous} \ {None}

TableInv ==
  /\ KeptNow \cup Retires \cup Dropping \subseteq db
  /\ pub.table = previous => previous = None
  /\ Retires \cap (KeptNow \cup Dropping) = {}
  /\ IF Unpublished
     THEN previous = None /\ Retires = {} /\ KeptNow \subseteq Dropping
     ELSE KeptNow \cap Dropping = {}
  /\ \A d, e \in retired : d.table = e.table => d = e

\* A request bound to a table is known to whoever will drop it.
WaitInv ==
  \A t \in Table : \A r \in Waiting(t) :
    \/ t \in KeptNow \cup Retires
    \/ \E d \in retired : d.table = t /\ r \in d.late

\* One catalog generation has one definition, in contexts and in the cache.
Agrees(gen, def) == gen <= pub.gen /\ (gen = pub.gen => def = pub.def)
Bound(r) == req[r].pc # "idle"

Answered(q) == q.pc \in {"storing", "done"} => q.rows = RowsFor(q)

AnswerInv ==
  /\ \A r \in Request : Bound(r) => Agrees(req[r].ctx.gen, req[r].ctx.def)
  /\ \A q, r \in Request : (Bound(q) /\ Bound(r) /\ req[q].ctx.gen = req[r].ctx.gen)
                             => req[q].ctx.def = req[r].ctx.def
  /\ \A e \in cache :
       /\ Agrees(e.key.gen, e.rows.def)
       /\ e.rows.endpoint = e.key.endpoint /\ e.rows.caller = e.key.caller
       /\ e.rows.table = e.key.table
       /\ \A r \in Request : (Bound(r) /\ req[r].ctx.gen = e.key.gen) => req[r].ctx.def = e.rows.def
  /\ \A r \in Request : Answered(req[r])

------------------------------------------------------------------------------
(* Types                                                                   *)

LEMMA InitTypes == Init => TypeInv
  BY ServeAssumption DEF Init, TypeInv, TypeOK, NoRequest, Sane, Requests

\* One request goes from req[r] to new.
Moves(r, new) == req' = [req EXCEPT ![r] = new] /\ new \in Requests /\ Sane(new)

LEMMA MoveTypes ==
  ASSUME TypeInv, NEW r \in Request, NEW new, Moves(r, new), UNCHANGED runtime,
         cache' \subseteq [key : Key, rows : Rows], busy' \in [Slot -> BOOLEAN]
  PROVE  TypeInv'
<1>1. req' \in [Request -> Requests]
  BY DEF TypeInv, TypeOK, Moves
<1>2. \A q \in Request : Sane(req'[q])
  BY DEF TypeInv, TypeOK, Moves
<1>. QED
  BY <1>1, <1>2 DEF TypeInv, TypeOK, runtime, Sane

LEMMA Idling == NoRequest \in Requests /\ Sane(NoRequest)
  BY ServeAssumption DEF NoRequest, Requests, Sane

\* Each step of a request, as a move.
LEMMA ReadMoves ==
  ASSUME TypeInv, NEW r \in Request, Read(r)
  PROVE  \E e \in Endpoint, c \in Caller :
           LET new == [NoRequest EXCEPT !.pc = "bound", !.ctx = pub, !.endpoint = e, !.caller = c]
           IN  Moves(r, new) /\ pub \in Context
<1>1. PICK e \in Endpoint, c \in Caller :
         req' = [req EXCEPT ![r] = [NoRequest EXCEPT !.pc = "bound", !.ctx = pub,
                                                     !.endpoint = e, !.caller = c]]
  BY DEF Read, Set
<1>2. pub \in Context
  BY DEF Read, TypeInv, TypeOK, Context
<1>. DEFINE new == [NoRequest EXCEPT !.pc = "bound", !.ctx = pub, !.endpoint = e, !.caller = c]
<1>3. new \in Requests
  BY <1>2 DEF Requests, NoRequest, Context
<1>4. Sane(new)
  BY <1>2 DEF NoRequest, Sane
<1>. QED
  BY <1>1, <1>2, <1>3, <1>4 DEF Moves

LEMMA HitMoves ==
  ASSUME TypeInv, NEW r \in Request, Hit(r)
  PROVE  \E e \in cache :
           /\ e.key = CacheKey(req[r]) /\ req[r].pc = "bound"
           /\ Moves(r, [req[r] EXCEPT !.pc = "done", !.rows = e.rows])
<1>1. PICK e \in Hits(r) : req' = [req EXCEPT ![r] = [req[r] EXCEPT !.pc = "done", !.rows = e.rows]]
  BY DEF Hit, Set
<1>2. e \in cache /\ e.key = CacheKey(req[r])
  BY DEF Hits
<1>3. e.rows \in Rows
  BY <1>2 DEF TypeInv, TypeOK
<1>4. req[r] \in Requests /\ Sane(req[r]) /\ req[r].pc = "bound"
  BY DEF TypeInv, TypeOK, Hit, At
<1>. DEFINE new == [req[r] EXCEPT !.pc = "done", !.rows = e.rows]
<1>5. new \in Requests
  BY <1>3, <1>4 DEF Requests
<1>6. Sane(new)
  BY <1>3, <1>4 DEF Sane, Requests
<1>. QED
  BY <1>1, <1>2, <1>4, <1>5, <1>6 DEF Moves

LEMMA MissMoves ==
  ASSUME TypeInv, NEW r \in Request, Miss(r)
  PROVE  req[r].pc = "bound" /\ Moves(r, [req[r] EXCEPT !.pc = "probing"])
<1>1. req[r] \in Requests /\ Sane(req[r]) /\ req[r].pc = "bound"
  BY DEF TypeInv, TypeOK, Miss, At
<1>2. [req[r] EXCEPT !.pc = "probing"] \in Requests
  BY <1>1 DEF Requests
<1>3. Sane([req[r] EXCEPT !.pc = "probing"])
  BY <1>1 DEF Sane, Requests
<1>. QED
  BY <1>1, <1>2, <1>3 DEF Moves, Miss, Set

LEMMA ProbeMoves ==
  ASSUME TypeInv, NEW r \in Request, NEW s \in Slot, Probe(r, s)
  PROVE  /\ req[r].pc = "probing"
         /\ IF busy[s]
            THEN Moves(r, [req[r] EXCEPT !.tried = @ \cup {s}])
            ELSE Moves(r, [req[r] EXCEPT !.pc = "querying", !.slot = s, !.tried = {}])
<1>1. req[r] \in Requests /\ Sane(req[r]) /\ req[r].pc = "probing"
  BY DEF TypeInv, TypeOK, Probe, At
<1>. DEFINE missed == [req[r] EXCEPT !.tried = @ \cup {s}]
            won == [req[r] EXCEPT !.pc = "querying", !.slot = s, !.tried = {}]
<1>2. missed \in Requests /\ Sane(missed)
  BY <1>1 DEF Requests, Sane
<1>3. won \in Requests
  BY <1>1 DEF Requests
<1>4. req[r].endpoint \in Scans => s < RemoteCap
  BY ServeAssumption DEF Probe, SlotsFor
<1>5. Sane(won)
  BY <1>1, <1>4 DEF Sane, Requests
<1>6. req' = [req EXCEPT ![r] = IF busy[s] THEN missed ELSE won]
  BY DEF Probe, Set
<1>. HIDE DEF missed, won
<1>7. IF busy[s] THEN Moves(r, missed) ELSE Moves(r, won)
  BY <1>2, <1>3, <1>5, <1>6 DEF Moves
<1>. QED
  BY <1>1, <1>7 DEF missed, won

LEMMA QueryMoves ==
  ASSUME TypeInv, NEW r \in Request, Query(r)
  PROVE  /\ req[r].pc = "querying"
         /\ \/ Moves(r, NoRequest)
            \/ \E pc \in {"storing", "done"} :
                 Moves(r, [req[r] EXCEPT !.slot = None, !.rows = RowsFor(req[r]), !.pc = pc])
<1>1. req[r] \in Requests /\ Sane(req[r]) /\ req[r].pc = "querying"
  BY DEF TypeInv, TypeOK, Query, At
<1>2. RowsFor(req[r]) \in Rows
  BY <1>1 DEF Sane, RowsFor, Rows, Context
<1>. DEFINE next == IF req[r].endpoint \in Uncached THEN "done" ELSE "storing"
            new == [req[r] EXCEPT !.slot = None, !.rows = RowsFor(req[r]), !.pc = next]
<1>3. next \in {"storing", "done"}
  OBVIOUS
<1>4. req' = [req EXCEPT ![r] = IF RowsFor(req[r]) = None THEN NoRequest ELSE new]
  BY DEF Query, After, Set
<1>. HIDE DEF next
<1>5. new \in Requests
  BY <1>1, <1>2, <1>3 DEF Requests
<1>6. Sane(new)
  BY <1>1, <1>2, <1>3 DEF Sane, Requests
<1>. HIDE DEF new
<1>7. Moves(r, NoRequest) \/ Moves(r, new)
  BY <1>4, <1>5, <1>6, Idling DEF Moves
<1>. QED
  BY <1>1, <1>3, <1>7 DEF new

LEMMA StoreMoves ==
  ASSUME TypeInv, NEW r \in Request, Store(r)
  PROVE  /\ req[r].pc = "storing"
         /\ Moves(r, [req[r] EXCEPT !.pc = "done"])
         /\ \A e \in cache' : \/ e \in cache
                              \/ e = [key |-> CacheKey(req[r]), rows |-> req[r].rows]
         /\ cache' \subseteq [key : Key, rows : Rows]
<1>1. req[r] \in Requests /\ Sane(req[r]) /\ req[r].pc = "storing"
  BY DEF TypeInv, TypeOK, Store, At
<1>2. [req[r] EXCEPT !.pc = "done"] \in Requests
  BY <1>1 DEF Requests
<1>3. Sane([req[r] EXCEPT !.pc = "done"])
  BY <1>1 DEF Sane, Requests
<1>4. CacheKey(req[r]) \in Key /\ req[r].rows \in Rows
  BY <1>1 DEF Sane, CacheKey, Key, Context
<1>5. \A e \in cache' : e \in cache \/ e = [key |-> CacheKey(req[r]), rows |-> req[r].rows]
  BY DEF Store
<1>6. cache \subseteq [key : Key, rows : Rows]
  BY DEF TypeInv, TypeOK
<1>7. cache' \subseteq [key : Key, rows : Rows]
  BY <1>4, <1>5, <1>6
<1>. QED
  BY <1>1, <1>2, <1>3, <1>5, <1>7 DEF Moves, Store, Set

\* Given up or answered.
LEMMA EndMoves ==
  ASSUME NEW r \in Request, Refused(r) \/ QueryFails(r) \/ Respond(r)
  PROVE  Moves(r, NoRequest)
  BY Idling DEF Refused, QueryFails, Respond, After, Set, Moves

LEMMA StepTypes ==
  ASSUME TypeInv, NEW r \in Request, Step(r)
  PROVE  TypeInv'
<1>1. UNCHANGED runtime
  BY DEF Step, Read, Hit, Miss, Probe, Refused, Query, QueryFails, Store, Respond
<1>2. \E new : Moves(r, new)
  BY ReadMoves, HitMoves, MissMoves, ProbeMoves, QueryMoves, StoreMoves, EndMoves DEF Step
<1>3. cache' \subseteq [key : Key, rows : Rows]
  BY StoreMoves DEF TypeInv, TypeOK, Step, Read, Hit, Miss, Probe, Refused, Query, QueryFails, Respond
<1>4. busy' \in [Slot -> BOOLEAN]
  BY DEF TypeInv, TypeOK, Step, Read, Hit, Miss, Probe, Refused, Query, QueryFails, Store, Respond
<1>. QED
  BY <1>1, <1>2, <1>3, <1>4, MoveTypes

\* The runtime's steps leave the requests and their connections alone.
RuntimeStep ==
  \/ \E t \in Table : Swap(t) \/ (\E def \in Def : Cutover(def, t))
  \/ \E def \in Def : Republish(def)
  \/ \E d \in retired : DropTable(d)
  \/ Rollback \/ Flush \/ Teardown \/ Unpublish

LEMMA RuntimeLeaves ==
  ASSUME RuntimeStep
  PROVE  UNCHANGED <<busy, req>>
  BY DEF RuntimeStep, Swap, Cutover, Republish, DropTable, Rollback, Flush, Teardown, Unpublish

LEMMA RetiredTypes ==
  ASSUME NEW tables \in SUBSET Table
  PROVE  Retired(tables) \subseteq [table : Table, late : SUBSET Request]
  BY DEF Retired, Waiting

LEMMA RuntimeTypes ==
  ASSUME TypeInv, RuntimeStep
  PROVE  TypeInv'
<1>0. /\ pub \in [gen : Nat, def : Def \cup {None}, table : Table \cup {None}]
      /\ previous \in Table \cup {None} /\ db \subseteq Table
      /\ handler \in [published : BOOLEAN, retires : SUBSET Table] \cup {None}
      /\ cache \subseteq [key : Key, rows : Rows]
  BY DEF TypeInv, TypeOK
<1>. DEFINE PubOK == pub' \in [gen : Nat, def : Def \cup {None}, table : Table \cup {None}]
            HandlerOK == handler' \in [published : BOOLEAN, retires : SUBSET Table] \cup {None}
<1>1. PubOK /\ HandlerOK
  <2>0. \A tables \in SUBSET Table : Published(tables) \in [published : BOOLEAN, retires : SUBSET Table]
    BY DEF Published
  <2>1. ASSUME NEW t \in Table, Swap(t) PROVE PubOK /\ HandlerOK
    <3>1. {previous} \ {None} \in SUBSET Table
      BY <1>0
    <3>. QED
      BY <1>0, <2>0, <2>1, <3>1 DEF Swap
  <2>2. ASSUME NEW t \in Table, NEW def \in Def, Cutover(def, t) PROVE PubOK /\ HandlerOK
    <3>1. {pub.table, previous} \ {None} \in SUBSET Table
      BY <1>0
    <3>. QED
      BY <1>0, <2>0, <2>2, <3>1 DEF Cutover
  <2>3. ASSUME NEW def \in Def, Republish(def) PROVE PubOK /\ HandlerOK
    <3>1. pub' = [gen |-> pub.gen + 1, def |-> def, table |-> pub.table]
      BY <1>0, <2>3 DEF Republish
    <3>2. handler' = Published({})
      BY <2>3 DEF Republish
    <3>. QED
      BY <1>0, <2>0, <3>1, <3>2
  <2>4. CASE Rollback
    BY <1>0, <2>0, <2>4 DEF Rollback
  <2>5. CASE Flush \/ \E d \in retired : DropTable(d)
    BY <1>0, <2>5 DEF Flush, DropTable
  <2>6. CASE Teardown
    BY <1>0, <2>6 DEF Teardown
  <2>7. CASE Unpublish
    BY <1>0, <2>0, <2>7 DEF Unpublish
  <2>. QED
    BY <2>1, <2>2, <2>3, <2>4, <2>5, <2>6, <2>7 DEF RuntimeStep
<1>2. previous' \in Table \cup {None} /\ db' \subseteq Table /\ cache' \subseteq [key : Key, rows : Rows]
  BY <1>0 DEF RuntimeStep, Swap, Cutover, Republish, DropTable, Rollback, Flush, Teardown, Unpublish
<1>3. retired' \subseteq [table : Table, late : SUBSET Request]
  <2>1. CASE Flush
    <3>1. handler.retires \in SUBSET Table
      BY <2>1 DEF Flush, TypeInv, TypeOK
    <3>. QED
      BY <2>1, <3>1, RetiredTypes DEF Flush, TypeInv, TypeOK
  <2>2. CASE Teardown
    <3>1. {pub.table, previous} \ {None} \in SUBSET Table
      BY DEF TypeInv, TypeOK
    <3>. QED
      BY <2>2, <3>1, RetiredTypes DEF Teardown, TypeInv, TypeOK
  <2>3. CASE Unpublish
    <3>1. \A d \in retired : [d EXCEPT !.late = @ \cup Waiting(d.table)]
                               \in [table : Table, late : SUBSET Request]
      BY DEF TypeInv, TypeOK, Waiting
    <3>. QED
      BY <2>3, <3>1 DEF Unpublish
  <2>4. CASE ~Flush /\ ~Teardown /\ ~Unpublish
    BY <2>4 DEF TypeInv, TypeOK, RuntimeStep, Swap, Cutover, Republish, DropTable, Rollback
  <2>. QED
    BY <2>1, <2>2, <2>3, <2>4
<1>. QED
  BY <1>1, <1>2, <1>3, RuntimeLeaves DEF TypeInv, TypeOK, Sane

LEMMA NextCases ==
  ASSUME Next
  PROVE  (\E r \in Request : Step(r)) \/ RuntimeStep
  BY DEF Next, RuntimeStep

LEMMA NextTypes == TypeInv /\ [Next]_vars => TypeInv'
<1>1. ASSUME TypeInv, Next PROVE TypeInv'
  BY <1>1, NextCases, StepTypes, RuntimeTypes
<1>2. ASSUME TypeInv, UNCHANGED vars PROVE TypeInv'
  BY <1>2 DEF vars, TypeInv, TypeOK, Sane
<1>. QED
  BY <1>1, <1>2

LEMMA TypeInvariant == Spec => []TypeInv
  BY InitTypes, NextTypes, PTL DEF Spec

(* Every variable always holds a value of its kind: the cache holds rows   *)
(* and never an error, whatever fails.                                     *)
THEOREM TypeCorrect == Spec => []TypeOK
<1>1. TypeInv => TypeOK
  BY DEF TypeInv
<1>. QED
  BY <1>1, TypeInvariant, PTL

------------------------------------------------------------------------------
(* The pool                                                                *)

LEMMA InitPool == Init => PoolInv
  BY ServeAssumption DEF Init, PoolInv, NoRequest, Slot

LEMMA PoolStays ==
  ASSUME TypeInv, PoolInv, NEW r \in Request, NEW new, Moves(r, new),
         new.slot = req[r].slot, UNCHANGED busy
  PROVE  PoolInv'
<1>1. \A q \in Request : req'[q].slot = req[q].slot
  BY DEF Moves, TypeInv, TypeOK
<1>. QED
  BY <1>1 DEF PoolInv

LEMMA PoolTakes ==
  ASSUME TypeInv, PoolInv, NEW r \in Request, NEW new, Moves(r, new), NEW s \in Slot,
         req[r].slot = None, new.slot = s, ~busy[s], busy' = [busy EXCEPT ![s] = TRUE]
  PROVE  PoolInv'
<1>1. \A q \in Request : req'[q].slot = IF q = r THEN s ELSE req[q].slot
  BY DEF Moves, TypeInv, TypeOK
<1>2. \A x \in Slot : busy'[x] <=> (x = s \/ busy[x])
  BY DEF TypeInv, TypeOK
<1>3. \A q \in Request : req[q].slot # s
  BY DEF PoolInv
<1>4. None \notin Slot
  BY ServeAssumption DEF Slot
<1>. QED
  BY <1>1, <1>2, <1>3, <1>4 DEF PoolInv

LEMMA PoolFrees ==
  ASSUME TypeInv, PoolInv, NEW r \in Request, NEW new, Moves(r, new), req[r].slot \in Slot,
         new.slot = None, busy' = [busy EXCEPT ![req[r].slot] = FALSE]
  PROVE  PoolInv'
<1>1. \A q \in Request : req'[q].slot = IF q = r THEN None ELSE req[q].slot
  BY DEF Moves, TypeInv, TypeOK
<1>2. \A x \in Slot : busy'[x] <=> (x # req[r].slot /\ busy[x])
  BY DEF TypeInv, TypeOK
<1>3. None \notin Slot
  BY ServeAssumption DEF Slot
<1>. QED
  BY <1>1, <1>2, <1>3 DEF PoolInv

LEMMA StepPool ==
  ASSUME TypeInv, PoolInv, NEW r \in Request, Step(r)
  PROVE  PoolInv'
<1>. DEFINE q == req[r]
<1>0. q \in Requests /\ Sane(q) /\ NoRequest.slot = None
  BY DEF TypeInv, TypeOK, NoRequest
<1>1. CASE Read(r)
  <2>1. PICK e \in Endpoint, c \in Caller :
           Moves(r, [NoRequest EXCEPT !.pc = "bound", !.ctx = pub, !.endpoint = e, !.caller = c])
    BY <1>1, ReadMoves
  <2>2. q.slot = None
    BY <1>0, <1>1 DEF Sane, Read, At
  <2>. DEFINE new == [NoRequest EXCEPT !.pc = "bound", !.ctx = pub, !.endpoint = e, !.caller = c]
  <2>3. new.slot = None
    BY DEF NoRequest
  <2>. HIDE DEF new
  <2>. QED
    BY <1>1, <2>1, <2>2, <2>3, PoolStays DEF Read, new
<1>2. CASE Hit(r)
  <2>1. PICK e \in cache : Moves(r, [q EXCEPT !.pc = "done", !.rows = e.rows])
    BY <1>2, HitMoves
  <2>. QED
    BY <1>0, <1>2, <2>1, PoolStays DEF Hit, Requests
<1>3. CASE Miss(r)
  BY <1>0, <1>3, MissMoves, PoolStays DEF Miss, Requests
<1>4. ASSUME NEW s \in Slot, Probe(r, s) PROVE PoolInv'
  <2>1. q.pc = "probing" /\ q.slot = None
    BY <1>0, <1>4, ProbeMoves DEF Sane
  <2>2. CASE busy[s]
    <3>1. Moves(r, [q EXCEPT !.tried = @ \cup {s}]) /\ busy' = busy
      BY <1>4, <2>2, ProbeMoves DEF Probe
    <3>. QED
      BY <1>0, <3>1, PoolStays DEF Requests
  <2>3. CASE ~busy[s]
    <3>1. /\ Moves(r, [q EXCEPT !.pc = "querying", !.slot = s, !.tried = {}])
          /\ busy' = [busy EXCEPT ![s] = TRUE]
      BY <1>4, <2>3, ProbeMoves DEF Probe
    <3>. DEFINE new == [q EXCEPT !.pc = "querying", !.slot = s, !.tried = {}]
    <3>2. new.slot = s
      BY <1>0 DEF Requests
    <3>. HIDE DEF new
    <3>. QED
      BY <2>1, <2>3, <3>1, <3>2, PoolTakes DEF new
  <2>. QED
    BY <2>2, <2>3
<1>5. CASE Refused(r) \/ Respond(r)
  <2>1. q.slot = None
    BY <1>0, <1>5 DEF Sane, Refused, Respond, At
  <2>. QED
    BY <1>0, <1>5, <2>1, EndMoves, PoolStays DEF Refused, Respond
<1>6. CASE Query(r)
  <2>1. q.slot \in Slot /\ busy' = [busy EXCEPT ![q.slot] = FALSE]
    BY <1>0, <1>6 DEF Sane, Query, At
  <2>2. CASE Moves(r, NoRequest)
    BY <1>0, <2>1, <2>2, PoolFrees
  <2>3. ASSUME NEW pc \in {"storing", "done"},
               Moves(r, [q EXCEPT !.slot = None, !.rows = RowsFor(q), !.pc = pc])
        PROVE  PoolInv'
    BY <1>0, <2>1, <2>3, PoolFrees DEF Requests
  <2>. QED
    BY <1>6, <2>2, <2>3, QueryMoves
<1>7. CASE QueryFails(r)
  <2>1. q.slot \in Slot /\ busy' = [busy EXCEPT ![q.slot] = FALSE]
    BY <1>0, <1>7 DEF Sane, QueryFails, At
  <2>. QED
    BY <1>0, <1>7, <2>1, EndMoves, PoolFrees
<1>8. CASE Store(r)
  BY <1>0, <1>8, StoreMoves, PoolStays DEF Store, Requests
<1>. QED
  BY <1>1, <1>2, <1>3, <1>4, <1>5, <1>6, <1>7, <1>8 DEF Step

LEMMA PoolInvariant == Spec => []PoolInv
<1>1. TypeInv /\ PoolInv /\ [Next]_vars => PoolInv'
  <2>1. ASSUME TypeInv, PoolInv, Next PROVE PoolInv'
    BY <2>1, NextCases, StepPool, RuntimeLeaves DEF PoolInv
  <2>2. ASSUME PoolInv, UNCHANGED vars PROVE PoolInv'
    BY <2>2 DEF vars, PoolInv
  <2>. QED
    BY <2>1, <2>2
<1>. QED
  BY <1>1, InitPool, TypeInvariant, PTL DEF Spec

(* Those who hold a slot of their own in 0 .. n - 1 are at most n.         *)
LEMMA Holders ==
  ASSUME NEW R \in SUBSET Request, NEW n \in Nat, \A r \in R : req[r].slot \in 0 .. n - 1,
         \A q, r \in R : req[q].slot = req[r].slot => q = r
  PROVE  Cardinality(R) <= n
<1>. DEFINE f == [r \in R |-> req[r].slot]
<1>1. f \in Injection(R, 0 .. n - 1)
  BY DEF Injection, IsInjective
<1>2. IsFiniteSet(0 .. n - 1) /\ Cardinality(0 .. n - 1) = n
  BY FS_Interval
<1>. QED
  BY <1>1, <1>2, FS_Injection

(* A connection is used by one request at a time and comes back whenever   *)
(* its request goes on; remote scans stay within their share of the pool.  *)
THEOREM OneHolderPerSlot == Spec => []PoolSound
<1>1. TypeInv /\ PoolInv => PoolSound
  <2>. SUFFICES ASSUME TypeInv, PoolInv PROVE PoolSound
    OBVIOUS
  <2>1. ASSUME NEW s \in Slot
        PROVE  Cardinality({r \in Request : req[r].slot = s}) = IF busy[s] THEN 1 ELSE 0
    <3>. DEFINE R == {r \in Request : req[r].slot = s}
    <3>1. CASE busy[s]
      <4>1. PICK r \in Request : req[r].slot = s
        BY <3>1 DEF PoolInv
      <4>2. s # None
        BY ServeAssumption DEF Slot
      <4>3. R = {r}
        BY <4>1, <4>2 DEF PoolInv
      <4>. QED
        BY <3>1, <4>3, FS_Singleton
    <3>2. CASE ~busy[s]
      <4>1. R = {}
        BY <3>2 DEF PoolInv
      <4>. QED
        BY <3>2, <4>1, FS_EmptySet
    <3>. QED
      BY <3>1, <3>2
  <2>2. Cardinality({r \in Request : req[r].slot # None /\ req[r].endpoint \in Scans}) <= RemoteCap
    <3>. DEFINE R == {r \in Request : req[r].slot # None /\ req[r].endpoint \in Scans}
    <3>1. \A r \in R : req[r].slot \in 0 .. RemoteCap - 1
      BY ServeAssumption DEF TypeInv, Sane, Slot
    <3>2. \A q, r \in R : req[q].slot = req[r].slot => q = r
      BY DEF PoolInv
    <3>. HIDE DEF R
    <3>3. R \in SUBSET Request
      BY DEF R
    <3>. QED
      BY <3>1, <3>2, <3>3, Holders, ServeAssumption DEF R
  <2>. QED
    BY <2>1, <2>2 DEF PoolSound
<1>. QED
  BY <1>1, TypeInvariant, PoolInvariant, PTL

------------------------------------------------------------------------------
(* The answers                                                             *)

LEMMA InitAnswers == Init => AnswerInv
  BY DEF Init, AnswerInv, Answered, Bound, NoRequest

\* A request goes on with its context or begins with the published one, and
\* what it puts into the cache are its own rows under its own key.
LEMMA AnswerMoves ==
  ASSUME TypeInv, AnswerInv, NEW r \in Request, NEW new, Moves(r, new), UNCHANGED pub,
         new.pc # "idle" => (Bound(r) /\ new.ctx = req[r].ctx) \/ new.ctx = pub,
         Answered(new),
         \A e \in cache' : e \in cache \/ (/\ Bound(r) /\ e.key = CacheKey(req[r])
                                           /\ e.rows = RowsFor(req[r]))
  PROVE  AnswerInv'
<1>. DEFINE old(q) == Bound(q) /\ q # r
<1>1. \A q \in Request : req'[q] = IF q = r THEN new ELSE req[q]
  BY DEF Moves, TypeInv, TypeOK
<1>2. pub.gen \in Nat /\ \A gen, def : Agrees(gen, def)' <=> Agrees(gen, def)
  BY DEF Agrees, TypeInv, TypeOK
<1>3. \A q \in Request : Bound(q)' => Agrees(req'[q].ctx.gen, req'[q].ctx.def)
  BY <1>1, <1>2 DEF AnswerInv, Bound, Agrees
<1>4. \A q, s \in Request : (Bound(q)' /\ Bound(s)' /\ req'[q].ctx.gen = req'[s].ctx.gen)
                               => req'[q].ctx.def = req'[s].ctx.def
  BY <1>1, <1>2 DEF AnswerInv, Bound, Agrees
<1>5. ASSUME NEW e \in cache'
      PROVE  /\ Agrees(e.key.gen, e.rows.def)
             /\ e.rows.endpoint = e.key.endpoint /\ e.rows.caller = e.key.caller
             /\ e.rows.table = e.key.table
             /\ \A q \in Request : (Bound(q) /\ req[q].ctx.gen = e.key.gen) => req[q].ctx.def = e.rows.def
  BY DEF AnswerInv, CacheKey, RowsFor
<1>6. \A e \in cache' : \A q \in Request :
         (Bound(q)' /\ req'[q].ctx.gen = e.key.gen) => req'[q].ctx.def = e.rows.def
  BY <1>1, <1>5 DEF Bound, Agrees
<1>7. \A q \in Request : Answered(req'[q])
  BY <1>1 DEF AnswerInv
<1>. QED
  BY <1>2, <1>3, <1>4, <1>5, <1>6, <1>7 DEF AnswerInv, Answered, RowsFor

LEMMA StepAnswers ==
  ASSUME TypeInv, AnswerInv, NEW r \in Request, Step(r)
  PROVE  AnswerInv'
<1>. DEFINE q == req[r]
<1>0. /\ q \in Requests /\ Sane(q)
      /\ NoRequest.pc = "idle" /\ Answered(NoRequest)
      /\ Answered(q)
  BY DEF TypeInv, TypeOK, NoRequest, AnswerInv, Answered
<1>1. CASE Read(r)
  <2>1. PICK e \in Endpoint, c \in Caller :
           Moves(r, [NoRequest EXCEPT !.pc = "bound", !.ctx = pub, !.endpoint = e, !.caller = c])
    BY <1>1, ReadMoves
  <2>. DEFINE new == [NoRequest EXCEPT !.pc = "bound", !.ctx = pub, !.endpoint = e, !.caller = c]
  <2>2. new.ctx = pub /\ Answered(new)
    BY DEF NoRequest, Answered
  <2>3. UNCHANGED <<pub, cache>>
    BY <1>1 DEF Read, runtime
  <2>. HIDE DEF new
  <2>. QED
    BY <2>1, <2>2, <2>3, AnswerMoves DEF new
<1>2. CASE Hit(r)
  <2>1. PICK e \in cache : /\ e.key = CacheKey(q) /\ q.pc = "bound"
                           /\ Moves(r, [q EXCEPT !.pc = "done", !.rows = e.rows])
    BY <1>2, HitMoves
  <2>. DEFINE new == [q EXCEPT !.pc = "done", !.rows = e.rows]
  <2>2. new.ctx = q.ctx /\ new.endpoint = q.endpoint /\ new.caller = q.caller /\ new.rows = e.rows
    BY <1>0 DEF Requests
  <2>3. UNCHANGED <<pub, cache>> /\ Bound(r)
    BY <1>2, <2>1 DEF Hit, runtime, Bound
  <2>4. e.rows = RowsFor(new)
    <3>1. e.rows.def = q.ctx.def /\ e.rows.endpoint = q.endpoint
          /\ e.rows.caller = q.caller /\ e.rows.table = q.ctx.table
      BY <2>1, <2>3 DEF AnswerInv, CacheKey
    <3>2. e.rows \in Rows
      BY DEF TypeInv, TypeOK
    <3>. QED
      BY <2>2, <3>1, <3>2 DEF Rows, RowsFor
  <2>. HIDE DEF new
  <2>. QED
    BY <2>1, <2>2, <2>3, <2>4, AnswerMoves DEF new, Answered
<1>3. CASE Miss(r)
  <2>. DEFINE new == [q EXCEPT !.pc = "probing"]
  <2>1. Moves(r, new) /\ q.pc = "bound" /\ UNCHANGED <<pub, cache>>
    BY <1>3, MissMoves DEF Miss, runtime
  <2>2. new.ctx = q.ctx /\ Answered(new)
    BY <1>0, <2>1 DEF Requests, Answered
  <2>. HIDE DEF new
  <2>. QED
    BY <2>1, <2>2, AnswerMoves DEF Bound
<1>4. ASSUME NEW s \in Slot, Probe(r, s) PROVE AnswerInv'
  <2>. DEFINE missed == [q EXCEPT !.tried = @ \cup {s}]
              won == [q EXCEPT !.pc = "querying", !.slot = s, !.tried = {}]
  <2>1. /\ Moves(r, missed) \/ Moves(r, won)
        /\ q.pc = "probing" /\ UNCHANGED <<pub, cache>>
    BY <1>4, ProbeMoves DEF Probe, runtime
  <2>2. /\ missed.ctx = q.ctx /\ Answered(missed)
        /\ won.ctx = q.ctx /\ Answered(won)
    BY <1>0, <2>1 DEF Requests, Answered
  <2>. HIDE DEF missed, won
  <2>. QED
    BY <2>1, <2>2, AnswerMoves DEF Bound
<1>5. CASE Moves(r, NoRequest) /\ UNCHANGED <<pub, cache>>
  BY <1>0, <1>5, AnswerMoves
<1>6. CASE Refused(r) \/ QueryFails(r) \/ Respond(r)
  BY <1>5, <1>6, EndMoves DEF Refused, QueryFails, Respond, runtime
<1>7. CASE Query(r)
  <2>1. UNCHANGED <<pub, cache>>
    BY <1>7 DEF Query, runtime
  <2>2. ASSUME NEW pc \in {"storing", "done"},
               Moves(r, [q EXCEPT !.slot = None, !.rows = RowsFor(q), !.pc = pc])
        PROVE  AnswerInv'
    <3>. DEFINE new == [q EXCEPT !.slot = None, !.rows = RowsFor(q), !.pc = pc]
    <3>1. /\ new.ctx = q.ctx /\ new.endpoint = q.endpoint /\ new.caller = q.caller
          /\ new.rows = RowsFor(q)
      BY <1>0 DEF Requests
    <3>2. q.pc = "querying"
      BY <1>7, QueryMoves
    <3>3. RowsFor(new) = RowsFor(q)
      BY <3>1 DEF RowsFor
    <3>. HIDE DEF new
    <3>. QED
      BY <2>1, <2>2, <3>1, <3>2, <3>3, AnswerMoves DEF Bound, new, Answered
  <2>. QED
    BY <1>5, <1>7, <2>1, <2>2, QueryMoves
<1>8. CASE Store(r)
  <2>. DEFINE new == [q EXCEPT !.pc = "done"]
  <2>1. /\ Moves(r, new) /\ q.pc = "storing" /\ UNCHANGED pub
        /\ \A e \in cache' : e \in cache \/ e = [key |-> CacheKey(q), rows |-> q.rows]
    BY <1>8, StoreMoves DEF Store, runtime
  <2>2. /\ new.ctx = q.ctx /\ new.endpoint = q.endpoint /\ new.caller = q.caller
        /\ new.rows = q.rows
    BY <1>0 DEF Requests
  <2>3. q.rows = RowsFor(q)
    BY <1>0, <2>1 DEF Answered
  <2>4. RowsFor(new) = RowsFor(q)
    BY <2>2 DEF RowsFor
  <2>. HIDE DEF new
  <2>. QED
    BY <2>1, <2>2, <2>3, <2>4, AnswerMoves DEF Bound, Answered
<1>. QED
  BY <1>1, <1>2, <1>3, <1>4, <1>6, <1>7, <1>8 DEF Step

\* A publish under a new generation finds none of its own in use.
LEMMA RuntimeAnswers ==
  ASSUME TypeInv, AnswerInv, RuntimeStep
  PROVE  AnswerInv'
<1>1. /\ pub.gen \in Nat
      /\ \/ pub'.gen = pub.gen /\ pub'.def = pub.def
         \/ pub'.gen = pub.gen + 1
      /\ cache' \subseteq cache
  <2>0. pub.gen \in Nat /\ pub \in [gen : Nat, def : Def \cup {None}, table : Table \cup {None}]
    BY DEF TypeInv, TypeOK
  <2>1. CASE \E def \in Def : Republish(def)
    BY <2>0, <2>1 DEF Republish
  <2>2. CASE ~ \E def \in Def : Republish(def)
    BY <2>0, <2>2 DEF RuntimeStep, Swap, Cutover, DropTable, Rollback, Flush, Teardown, Unpublish
  <2>. QED
    BY <2>1, <2>2
<1>2. /\ \A r \in Request : Bound(r) => req[r].ctx.gen \in Nat
      /\ \A e \in cache : e.key.gen \in Nat
  BY DEF TypeInv, TypeOK, Sane, Context, Bound, Key
<1>3. \A def : \A gen \in Nat : Agrees(gen, def) => Agrees(gen, def)'
  BY <1>1 DEF Agrees
<1>. QED
  BY <1>1, <1>2, <1>3, RuntimeLeaves DEF AnswerInv, Bound, Answered, RowsFor

LEMMA AnswerInvariant == Spec => []AnswerInv
<1>1. TypeInv /\ AnswerInv /\ [Next]_vars => AnswerInv'
  <2>1. ASSUME TypeInv, AnswerInv, Next PROVE AnswerInv'
    BY <2>1, NextCases, StepAnswers, RuntimeAnswers
  <2>2. ASSUME AnswerInv, UNCHANGED vars PROVE AnswerInv'
    BY <2>2 DEF vars, AnswerInv, Bound, Agrees, Answered, RowsFor
  <2>. QED
    BY <2>1, <2>2
<1>. QED
  BY <1>1, InitAnswers, TypeInvariant, PTL DEF Spec

(* The rows of an answer, fresh or out of the cache, are those of a query  *)
(* over the context that its request read, however many publishes, flushes *)
(* and late inserts came in between.                                       *)
THEOREM AnswersStayTrue == Spec => []AnswersTrue
<1>1. TypeInv /\ AnswerInv => AnswersTrue
  BY DEF TypeInv, AnswerInv, AnswersTrue, Answered, Sane
<1>. QED
  BY <1>1, TypeInvariant, AnswerInvariant, PTL

------------------------------------------------------------------------------
(* The tables                                                              *)

LEMMA InitTables == Init => TableInv /\ WaitInv
<1>. SUFFICES ASSUME Init PROVE TableInv /\ WaitInv
  OBVIOUS
<1>1. \A t \in Table : Waiting(t) = {}
  BY DEF Init, Waiting, NoRequest
<1>2. KeptNow = {} /\ Retires = {} /\ Dropping = {} /\ ~Unpublished
  BY DEF Init, KeptNow, Retires, Dropping, Unpublished
<1>. QED
  BY <1>1, <1>2 DEF TableInv, WaitInv, Init

\* A request that begins waits for the published table, and none that goes
\* on waits for another.
Asking == {"bound", "probing", "querying"}

\* What new may wait for: the published table, or what the request waited for.
Follows(r, new) ==
  new.pc \in Asking => \/ new.ctx = pub
                       \/ /\ req[r].pc \in Asking
                          /\ new.ctx = req[r].ctx /\ new.endpoint = req[r].endpoint

LEMMA StepFollows ==
  ASSUME TypeInv, NEW r \in Request, Step(r)
  PROVE  \E new : Moves(r, new) /\ Follows(r, new)
<1>. DEFINE q == req[r]
<1>0. q \in Requests /\ Follows(r, NoRequest)
  BY DEF TypeInv, TypeOK, NoRequest, Follows, Asking
<1>1. CASE Read(r)
  <2>1. PICK e \in Endpoint, c \in Caller :
           Moves(r, [NoRequest EXCEPT !.pc = "bound", !.ctx = pub, !.endpoint = e, !.caller = c])
    BY <1>1, ReadMoves
  <2>2. Follows(r, [NoRequest EXCEPT !.pc = "bound", !.ctx = pub, !.endpoint = e, !.caller = c])
    BY DEF Follows, NoRequest
  <2>. QED
    BY <2>1, <2>2
<1>2. CASE Hit(r)
  <2>1. PICK e \in cache : Moves(r, [q EXCEPT !.pc = "done", !.rows = e.rows])
    BY <1>2, HitMoves
  <2>2. Follows(r, [q EXCEPT !.pc = "done", !.rows = e.rows])
    BY <1>0 DEF Follows, Asking, Requests
  <2>. QED
    BY <2>1, <2>2
<1>3. CASE Miss(r)
  <2>1. Follows(r, [q EXCEPT !.pc = "probing"])
    BY <1>0, <1>3, MissMoves DEF Follows, Asking, Requests
  <2>. QED
    BY <1>3, <2>1, MissMoves
<1>4. ASSUME NEW s \in Slot, Probe(r, s)
      PROVE  \E new : Moves(r, new) /\ Follows(r, new)
  <2>. DEFINE missed == [q EXCEPT !.tried = @ \cup {s}]
              won == [q EXCEPT !.pc = "querying", !.slot = s, !.tried = {}]
  <2>1. Moves(r, missed) \/ Moves(r, won)
    BY <1>4, ProbeMoves
  <2>2. Follows(r, missed) /\ Follows(r, won)
    BY <1>0, <1>4, ProbeMoves DEF Follows, Asking, Requests
  <2>. HIDE DEF missed, won
  <2>. QED
    BY <2>1, <2>2
<1>5. CASE Refused(r) \/ QueryFails(r) \/ Respond(r)
  BY <1>0, <1>5, EndMoves
<1>6. CASE Query(r)
  <2>1. ASSUME NEW pc \in {"storing", "done"}
        PROVE  Follows(r, [q EXCEPT !.slot = None, !.rows = RowsFor(q), !.pc = pc])
    BY <1>0 DEF Follows, Asking, Requests
  <2>. QED
    BY <1>0, <1>6, <2>1, QueryMoves
<1>7. CASE Store(r)
  <2>1. Follows(r, [q EXCEPT !.pc = "done"])
    BY <1>0 DEF Follows, Asking, Requests
  <2>. QED
    BY <1>7, <2>1, StoreMoves
<1>. QED
  BY <1>1, <1>2, <1>3, <1>4, <1>5, <1>6, <1>7 DEF Step

LEMMA StepWaits ==
  ASSUME TypeInv, NEW r \in Request, Step(r), NEW t \in Table, NEW s \in Waiting(t)'
  PROVE  s \in Waiting(t) \/ t = pub.table
<1>1. PICK new : Moves(r, new) /\ Follows(r, new)
  BY StepFollows
<1>2. \A q \in Request : req'[q] = IF q = r THEN new ELSE req[q]
  BY <1>1 DEF Moves, TypeInv, TypeOK
<1>. QED
  BY <1>1, <1>2 DEF Waiting, Follows, Asking

LEMMA StepTables ==
  ASSUME TypeInv, TableInv, WaitInv, NEW r \in Request, Step(r)
  PROVE  TableInv' /\ WaitInv'
<1>1. UNCHANGED runtime
  BY DEF Step, Read, Hit, Miss, Probe, Refused, Query, QueryFails, Store, Respond
<1>2. UNCHANGED <<KeptNow, Retires, Dropping, Unpublished, retired, pub>>
  BY <1>1 DEF runtime, KeptNow, Retires, Dropping, Unpublished
<1>3. TableInv'
  BY <1>1, <1>2 DEF TableInv, runtime
<1>4. ASSUME NEW t \in Table, NEW s \in Waiting(t)'
      PROVE  t \in KeptNow \cup Retires \/ \E d \in retired : d.table = t /\ s \in d.late
  <2>1. t # None
    BY ServeAssumption
  <2>. QED
    BY <2>1, StepWaits DEF WaitInv, KeptNow
<1>. QED
  BY <1>2, <1>3, <1>4 DEF WaitInv

\* In the runtime's steps nobody begins or ceases to wait.
Waits == \A t \in Table : Waiting(t)' = Waiting(t)

LEMMA RuntimeWaits ==
  ASSUME RuntimeStep
  PROVE  Waits
  BY RuntimeLeaves DEF Waits, Waiting

Facts ==
  /\ pub \in [gen : Nat, def : Def \cup {None}, table : Table \cup {None}]
  /\ previous \in Table \cup {None}
  /\ db \subseteq Table
  /\ retired \subseteq [table : Table, late : SUBSET Request]
  /\ handler \in [published : BOOLEAN, retires : SUBSET Table] \cup {None}
  /\ None \notin Table

LEMMA KnownFacts == TypeInv => Facts
  BY ServeAssumption DEF TypeInv, TypeOK, Facts

LEMMA PublishedRetires ==
  ASSUME NEW tables \in SUBSET Table, handler' = Published(tables)
  PROVE  Retires' = tables /\ ~Unpublished'
<1>1. Published(tables) \in [published : BOOLEAN, retires : SUBSET Table]
  BY DEF Published
<1>2. handler' # None
  BY <1>1, ServeAssumption
<1>. QED
  BY <1>2 DEF Retires, Unpublished, Published

LEMMA SwapTables ==
  ASSUME Facts, TableInv, WaitInv, Waits, NEW t \in Table, Swap(t)
  PROVE  TableInv' /\ WaitInv'
<1>1. handler = None /\ t \notin db /\ Retires = {} /\ ~Unpublished
  BY DEF Swap, Fresh, Retires, Unpublished
<1>2. pub'.table = t /\ previous' = pub.table /\ db' = db \cup {t} /\ retired' = retired
  BY DEF Swap, Facts
<1>3. Retires' = {previous} \ {None} /\ ~Unpublished'
  <2>1. {previous} \ {None} \in SUBSET Table
    BY DEF Facts
  <2>. QED
    BY <2>1, PublishedRetires DEF Swap
<1>4. KeptNow' = {t, pub.table} \ {None} /\ Dropping' = Dropping
  BY <1>2 DEF KeptNow, Dropping
<1>5. TableInv'
  BY <1>1, <1>2, <1>3, <1>4 DEF TableInv, KeptNow, Facts
<1>6. WaitInv'
  BY <1>1, <1>2, <1>3, <1>4 DEF WaitInv, Waits, KeptNow
<1>. QED
  BY <1>5, <1>6

LEMMA CutoverTables ==
  ASSUME Facts, TableInv, WaitInv, Waits, NEW def, NEW t \in Table, Cutover(def, t)
  PROVE  TableInv' /\ WaitInv'
<1>1. handler = None /\ t \notin db /\ Retires = {} /\ ~Unpublished
  BY DEF Cutover, Fresh, Retires, Unpublished
<1>2. pub'.table = t /\ previous' = None /\ db' = db \cup {t} /\ retired' = retired
  BY DEF Cutover
<1>3. Retires' = KeptNow /\ ~Unpublished'
  <2>1. KeptNow \in SUBSET Table
    BY DEF Facts, KeptNow
  <2>. QED
    BY <2>1, PublishedRetires DEF Cutover, KeptNow
<1>4. KeptNow' = {t} /\ Dropping' = Dropping
  BY <1>2 DEF KeptNow, Dropping, Facts
<1>5. TableInv'
  BY <1>1, <1>2, <1>3, <1>4 DEF TableInv, Facts
<1>6. WaitInv'
  BY <1>1, <1>2, <1>3, <1>4 DEF WaitInv, Waits
<1>. QED
  BY <1>5, <1>6

LEMMA KeepTables ==
  ASSUME Facts, TableInv, WaitInv, Waits, Rollback \/ \E def \in Def : Republish(def)
  PROVE  TableInv' /\ WaitInv'
<1>1. handler = None /\ Retires = {} /\ ~Unpublished
  BY DEF Rollback, Republish, Retires, Unpublished
<1>2. UNCHANGED <<db, retired>> /\ handler' = Published({})
  BY DEF Rollback, Republish
<1>3. \/ pub'.table = previous /\ previous' = pub.table /\ previous # None
      \/ pub'.table = pub.table /\ previous' = previous
  BY DEF Rollback, Republish, Facts
<1>4. Retires' = {} /\ ~Unpublished'
  BY <1>2, PublishedRetires
<1>5. KeptNow' = KeptNow /\ Dropping' = Dropping
  BY <1>2, <1>3 DEF KeptNow, Dropping
<1>6. TableInv'
  BY <1>1, <1>2, <1>3, <1>4, <1>5 DEF TableInv
<1>7. WaitInv'
  BY <1>1, <1>2, <1>4, <1>5 DEF WaitInv, Waits
<1>. QED
  BY <1>6, <1>7

LEMMA RetiredOnes ==
  ASSUME NEW tables, NEW t \in tables
  PROVE  \E d \in Retired(tables) : d.table = t /\ d.late = Waiting(t)
<1>1. [table |-> t, late |-> Waiting(t)] \in Retired(tables)
  BY DEF Retired
<1>. QED
  BY <1>1

LEMMA FlushTables ==
  ASSUME Facts, TableInv, WaitInv, Waits, Flush
  PROVE  TableInv' /\ WaitInv'
<1>1. ~Unpublished /\ Retires = handler.retires /\ Retires \in SUBSET Table
  BY DEF Flush, Unpublished, Retires, Facts
<1>2. /\ UNCHANGED <<pub, previous, db>> /\ handler' = None
      /\ retired' = retired \cup Retired(Retires)
  BY <1>1 DEF Flush
<1>3. Retires' = {} /\ ~Unpublished' /\ KeptNow' = KeptNow
  BY <1>2 DEF Retires, Unpublished, KeptNow
<1>4. \A d \in retired' : d \in retired \/ (d.table \in Retires /\ d = [table |-> d.table, late |-> Waiting(d.table)])
  BY <1>2 DEF Retired
<1>5. retired \subseteq retired' /\ \A t \in Retires : \E d \in retired' : d.table = t /\ d.late = Waiting(t)
  BY <1>2, RetiredOnes
<1>6. Dropping' = Dropping \cup Retires
  BY <1>4, <1>5 DEF Dropping
<1>7. \A d, e \in retired' : d.table = e.table => d = e
  BY <1>4 DEF TableInv, Dropping
<1>8. TableInv'
  BY <1>1, <1>2, <1>3, <1>6, <1>7 DEF TableInv
<1>9. ASSUME NEW t \in Table, NEW s \in Waiting(t)
      PROVE  t \in KeptNow \/ \E d \in retired' : d.table = t /\ s \in d.late
  BY <1>5 DEF WaitInv
<1>. QED
  BY <1>3, <1>8, <1>9 DEF WaitInv, Waits

LEMMA TeardownTables ==
  ASSUME Facts, TableInv, WaitInv, Waits, Teardown
  PROVE  TableInv' /\ WaitInv'
<1>1. handler = None /\ Retires = {} /\ ~Unpublished
  BY DEF Teardown, Retires, Unpublished
<1>2. /\ UNCHANGED <<pub, db>> /\ previous' = None
      /\ retired' = retired \cup Retired(KeptNow)
  BY DEF Teardown, KeptNow
<1>3. Retires' = {} /\ Unpublished'
  <2>1. handler' \in [published : BOOLEAN, retires : SUBSET Table]
    BY DEF Teardown
  <2>. QED
    BY <2>1, ServeAssumption DEF Teardown, Retires, Unpublished
<1>4. \A d \in retired' : d \in retired \/ (d.table \in KeptNow /\ d = [table |-> d.table, late |-> Waiting(d.table)])
  BY <1>2 DEF Retired
<1>5. retired \subseteq retired' /\ \A t \in KeptNow : \E d \in retired' : d.table = t /\ d.late = Waiting(t)
  BY <1>2, RetiredOnes
<1>6. Dropping' = Dropping \cup KeptNow /\ KeptNow' \subseteq KeptNow
  <2>1. Dropping' = Dropping \cup KeptNow
    BY <1>4, <1>5 DEF Dropping
  <2>2. KeptNow' \subseteq KeptNow
    BY <1>2 DEF KeptNow
  <2>. QED
    BY <2>1, <2>2
<1>7. \A d, e \in retired' : d.table = e.table => d = e
  BY <1>1, <1>4 DEF TableInv, Dropping
<1>8. TableInv'
  BY <1>1, <1>2, <1>3, <1>6, <1>7 DEF TableInv
<1>9. ASSUME NEW t \in Table, NEW s \in Waiting(t)
      PROVE  \E d \in retired' : d.table = t /\ s \in d.late
  BY <1>1, <1>5 DEF WaitInv
<1>. QED
  BY <1>8, <1>9 DEF WaitInv, Waits

LEMMA UnpublishTables ==
  ASSUME Facts, TableInv, WaitInv, Waits, Unpublish
  PROVE  TableInv' /\ WaitInv'
<1>. DEFINE known(d) == [d EXCEPT !.late = @ \cup Waiting(d.table)]
<1>1. Unpublished /\ previous = None /\ Retires = {} /\ KeptNow \subseteq Dropping
  BY DEF Unpublish, Unpublished, TableInv
<1>2. /\ pub'.table = None /\ previous' = None /\ db' = db
      /\ retired' = {known(d) : d \in retired}
  BY <1>1 DEF Unpublish
<1>3. Retires' = {} /\ ~Unpublished'
  BY PublishedRetires DEF Unpublish
<1>4. KeptNow' = {}
  BY <1>2 DEF KeptNow
<1>5. \A d \in retired : /\ known(d).table = d.table
                         /\ known(d).late = d.late \cup Waiting(d.table)
  BY DEF Facts
<1>. HIDE DEF known
<1>6. Dropping' = Dropping
  BY <1>2, <1>5 DEF Dropping
<1>7. TableInv'
  <2>1. \A d, e \in retired' : d.table = e.table => d = e
    BY <1>2, <1>5 DEF TableInv
  <2>. QED
    BY <1>2, <1>3, <1>4, <1>6, <2>1 DEF TableInv
<1>8. ASSUME NEW t \in Table, NEW s \in Waiting(t)
      PROVE  \E d \in retired' : d.table = t /\ s \in d.late
  <2>1. PICK d \in retired : d.table = t
    BY <1>1 DEF WaitInv, Dropping
  <2>. QED
    BY <1>2, <1>5, <2>1
<1>. QED
  BY <1>7, <1>8 DEF WaitInv, Waits

\* The drop waits for everybody who may still ask for the table.
LEMMA DropTables ==
  ASSUME Facts, TableInv, WaitInv, Waits, NEW d \in retired, DropTable(d)
  PROVE  TableInv' /\ WaitInv'
<1>1. ~Unpublished /\ UNCHANGED <<pub, previous, handler>>
  BY DEF DropTable, Unpublished
<1>2. retired' = retired \ {d} /\ db' = db \ {d.table} /\ d.table \in Dropping
  BY DEF DropTable, Dropping
<1>3. UNCHANGED <<KeptNow, Retires, Unpublished>>
  BY <1>1 DEF KeptNow, Retires, Unpublished
<1>4. Dropping' = Dropping \ {d.table}
  BY <1>2 DEF Dropping, TableInv
<1>5. TableInv'
  BY <1>1, <1>2, <1>3, <1>4 DEF TableInv
<1>6. Waiting(d.table) = {}
  BY <1>1, <1>2 DEF WaitInv, TableInv, DropTable, Facts
<1>7. ASSUME NEW t \in Table, NEW s \in Waiting(t)
      PROVE  t \in KeptNow \cup Retires \/ \E e \in retired' : e.table = t /\ s \in e.late
  BY <1>2, <1>6 DEF WaitInv
<1>. QED
  BY <1>3, <1>5, <1>7 DEF WaitInv, Waits

LEMMA TableInvariant == Spec => [](TableInv /\ WaitInv)
<1>1. TypeInv /\ TableInv /\ WaitInv /\ [Next]_vars => TableInv' /\ WaitInv'
  <2>1. ASSUME TypeInv, TableInv, WaitInv, RuntimeStep PROVE TableInv' /\ WaitInv'
    BY <2>1, KnownFacts, RuntimeWaits, SwapTables, CutoverTables, KeepTables, FlushTables,
       TeardownTables, UnpublishTables, DropTables DEF RuntimeStep
  <2>2. ASSUME TypeInv, TableInv, WaitInv, Next PROVE TableInv' /\ WaitInv'
    BY <2>1, <2>2, NextCases, StepTables
  <2>3. ASSUME TableInv, WaitInv, UNCHANGED vars PROVE TableInv' /\ WaitInv'
    BY <2>3 DEF vars, TableInv, WaitInv, Waiting, KeptNow, Retires, Dropping, Unpublished
  <2>. QED
    BY <2>2, <2>3
<1>. QED
  BY <1>1, InitTables, TypeInvariant, PTL DEF Spec

(* A request finds the table of the context it read, however old that is,  *)
(* and a rollback the one it goes back to: for any number of requests,     *)
(* tables, publishes and removals of the dataset.                          *)
THEOREM TablesOutlastRequests == Spec => []TablesThere
<1>1. TypeInv /\ TableInv /\ WaitInv => TablesThere
  <2>. SUFFICES ASSUME TypeInv, TableInv, WaitInv PROVE TablesThere
    OBVIOUS
  <2>1. KeptNow \subseteq db
    BY DEF TableInv
  <2>2. \A t \in Table \ db : Waiting(t) = {}
    BY DEF TableInv, WaitInv, Dropping
  <2>. QED
    BY <2>1, <2>2 DEF TablesThere, KeptNow
<1>. QED
  BY <1>1, TypeInvariant, TableInvariant, PTL
=============================================================================
