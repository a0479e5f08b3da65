------------------------ MODULE RuntimeServingProofs ------------------------
(***************************************************************************)
(* Proofs about what the runtime serves, for any number of datasets,       *)
(* endpoints, configs, workers and messages in flight, through crashes and *)
(* restarts:                                                               *)
(*                                                                         *)
(*   ServesOn           a serving dataset serves on       (NoDowntime)     *)
(*   OneBuild           a cutover has one build, result   (OneBuildPer-    *)
(*                      or timer, and no worker            Cutover)        *)
(*   EndpointsFit       endpoints are of the served contract               *)
(*   ServesOneContract  and so are the tables             (OneContract)    *)
(*   ImplementsServing  readers see a Serving             (ServesReaders)  *)
(*   EndsAsLoaded       without a cutover pending, what   (Converged)      *)
(*                      is served is what was loaded                       *)
(*                                                                         *)
(* The first three hold of every behaviour.  The others are false of some, *)
(* which the runs late_apply and stale_endpoints exhibit; they are proved  *)
(* of the behaviours whose reloads keep clear of that: RemovesQuietly for  *)
(* OneContract and ServesReaders, Settled for Converged.                   *)
(*                                                                         *)
(* Each rests on an inductive invariant of its own, beside the type        *)
(* invariant and those of RuntimeProofs (a dataset in a cutover has no     *)
(* worker; a worker works from the served definition): PlanInv relates the *)
(* served catalog to the config loaded last, StageInv counts what may make *)
(* a cutover land, QuietInv says that whatever is on its way to a dataset  *)
(* has its contract, ConvInv says what an endpoint waits for.              *)
(***************************************************************************)
EXTENDS RuntimeServing, RuntimeProofs, FiniteSetTheorems

------------------------------------------------------------------------------
(* The served catalog and the config loaded last                           *)

(* An endpoint fits the dataset it reads.                                  *)
Fits(c, e) ==
  c.endpoints[e] # None =>
    /\ c.datasets[c.endpoints[e].dataset] # None
    /\ c.datasets[c.endpoints[e].dataset].contract = c.endpoints[e].contract

(* What a cutover is on its way to: the definition loaded last, of another *)
(* contract than the served one, with endpoints of that contract.          *)
Planned(d) ==
  /\ pending[d].def = wanted.datasets[d]
  /\ pending[d].def.contract # catalog.datasets[d].contract
  /\ \A e \in Endpoint : pending[d].endpoints[e] # None =>
       /\ pending[d].endpoints[e].dataset = d
       /\ pending[d].endpoints[e].contract = pending[d].def.contract

(* The served catalog differs from the config loaded last only in what     *)
(* waits for a cutover.                                                    *)
PlanInv ==
  /\ phase # "down" => /\ wanted \in Configs
                       /\ catalog.auth = ServedAuth(wanted.auth, catalog.endpoints)
  /\ \A d \in Dataset : IF pending[d] = None THEN catalog.datasets[d] = wanted.datasets[d]
                        ELSE Planned(d)
  /\ \A e \in Endpoint : Fits(catalog, e)

(* The steps that change what is served or loaded.                         *)
LEMMA PlansMove ==
  ASSUME TypeInv, [Next]_vars,
         ~(\E c \in Configs : Reload(c) \/ Boot(c)),
         ~(\E d \in Dataset : Cutover(d)), ~Crash
  PROVE  UNCHANGED <<catalog, wanted, pending>> /\ (phase = "down" <=> phase' = "down")
<1>1. ASSUME NEW d \in Dataset, WorkerStep(d) PROVE UNCHANGED <<phase, catalog, wanted, pending>>
  BY <1>1 DEF WorkerStep, Manual, Poll, RefreshNow, WorkerRead, WorkerSkip, WorkerBuild,
     WorkerBuilt, WorkerRejects, WorkerDies
<1>2. ASSUME NEW d \in Dataset, Handle(d) PROVE UNCHANGED <<phase, catalog, wanted, pending>>
  BY <1>2 DEF Handle, ApplyUnchanged, ApplySwap, ApplyLost, Applying, StageNotReady,
     StageSuperseded, Delivering
<1>3. ASSUME NEW d \in Dataset, Rollback(d) \/ BootRefresh(d) \/ BootSkip(d)
      PROVE  UNCHANGED <<phase, catalog, wanted, pending>>
  BY <1>3 DEF Rollback, BootRefresh, BootSkip
<1>4. ASSUME NEW b \in builds, Stage(b) PROVE UNCHANGED <<phase, catalog, wanted, pending>>
  BY <1>4 DEF Stage, StageOk, StageRejects, StageDies, StageNothing
<1>5. ASSUME NEW r \in retries, RetryStage(r) PROVE UNCHANGED <<phase, catalog, wanted, pending>>
  BY <1>5 DEF RetryStage
<1>6. ASSUME NEW t \in retiring, EngineDrop(t) PROVE UNCHANGED <<phase, catalog, wanted, pending>>
  BY <1>6 DEF EngineDrop
<1>7. CASE BootFinish
  BY <1>7 DEF BootFinish
<1>8. CASE UNCHANGED vars
  BY <1>8 DEF vars
<1>. QED
  BY <1>1, <1>2, <1>3, <1>4, <1>5, <1>6, <1>7, <1>8 DEF Next

LEMMA ConfigFits ==
  ASSUME NEW c \in Configs
  PROVE  /\ \A e \in Endpoint : Fits(c, e)
         /\ c.auth = ServedAuth(c.auth, c.endpoints)
<1>1. IsConfig(c)
  BY ConstantsAssumption
<1>. QED
  BY <1>1 DEF IsConfig, Fits, ServedAuth

LEMMA CutoverPlans ==
  ASSUME TypeInv, FrozenInv, PlanInv, NEW d \in Dataset, Cutover(d)
  PROVE  PlanInv'
<1>1. /\ pending[d] # None /\ pending[d] \in Pending /\ phase = "up" /\ phase' = "up"
      /\ wanted' = wanted /\ d \in Configured(catalog) /\ Planned(d)
  BY TypeFacts DEF Cutover, Lands, Current, Delivering, FrozenInv, PlanInv
<1>2. /\ catalog'.datasets[d] = pending[d].def /\ pending'[d] = None
      /\ catalog'.endpoints = EndpointsAfter(d)
      /\ catalog'.auth = ServedAuth(wanted.auth, catalog'.endpoints)
      /\ \A e \in Dataset \ {d} : catalog'.datasets[e] = catalog.datasets[e]
                                  /\ pending'[e] = pending[e]
  BY TypeFacts DEF Cutover, Catalog
<1>3. pending[d].def # None
  BY <1>1, NoneAssumption DEF Pending, Def
<1>4. ASSUME NEW e \in Endpoint PROVE Fits(catalog', e)
  <2>1. catalog'.endpoints[e] =
          IF pending[d].endpoints[e] # None THEN pending[d].endpoints[e]
          ELSE IF catalog.endpoints[e] # None /\ catalog.endpoints[e].dataset = d THEN None
          ELSE catalog.endpoints[e]
    BY <1>2 DEF EndpointsAfter
  <2>2. CASE pending[d].endpoints[e] # None
    BY <1>1, <1>2, <1>3, <2>1, <2>2 DEF Fits, Planned
  <2>3. CASE pending[d].endpoints[e] = None /\ catalog'.endpoints[e] # None
    <3>1. /\ catalog'.endpoints[e] = catalog.endpoints[e] /\ catalog.endpoints[e].dataset # d
          /\ catalog.endpoints[e].dataset \in Dataset
      BY <2>1, <2>3, TypeFacts DEF Catalog, Ep
    <3>. QED
      BY <1>2, <3>1 DEF Fits, PlanInv
  <2>. QED
    BY <2>2, <2>3 DEF Fits
<1>5. ASSUME NEW e \in Dataset
      PROVE  IF pending'[e] = None THEN catalog'.datasets[e] = wanted'.datasets[e]
             ELSE Planned(e)'
  <2>1. CASE e = d
    BY <1>1, <1>2, <2>1 DEF Planned
  <2>2. CASE e # d
    BY <1>1, <1>2, <2>2 DEF PlanInv, Planned
  <2>. QED
    BY <2>1, <2>2
<1>. QED
  BY <1>1, <1>2, <1>4, <1>5 DEF PlanInv

LEMMA ReloadPlans ==
  ASSUME TypeInv, FrozenInv, PlanInv, NEW c \in Configs, Reload(c)
  PROVE  PlanInv'
<1>0. c \in Catalog
  BY ConfigType
<1>1. /\ wanted' = c /\ pending' = PendingAfter(c) /\ catalog' = Overlay(c, pending')
      /\ phase = "up"
  BY DEF Reload
<1>2. /\ catalog'.auth = ServedAuth(wanted'.auth, catalog'.endpoints)
      /\ \A d \in Dataset : catalog'.datasets[d] = IF pending'[d] # None THEN catalog.datasets[d]
                                                   ELSE c.datasets[d]
  BY <1>1 DEF Overlay
<1>3. ASSUME NEW d \in Dataset, pending'[d] # None PROVE Planned(d)'
  <2>1. d \in Staged(c) /\ catalog'.datasets[d] = catalog.datasets[d]
    BY <1>3, ReloadPending
  <2>2. CASE d \in Restaged(c)
    <3>1. /\ pending'[d].def = c.datasets[d] /\ pending'[d].endpoints = EndpointsOf(c, d)
      <4>1. pending'[d] = [gen |-> stageGen[d] + 1, def |-> c.datasets[d],
                           endpoints |-> EndpointsOf(c, d)]
        BY <1>3, <2>2, ReloadPending
      <4>. QED
        BY <4>1
    <3>2. pending'[d].def.contract # catalog.datasets[d].contract
      BY <2>1, <3>1 DEF Staged
    <3>3. ASSUME NEW e \in Endpoint, pending'[d].endpoints[e] # None
          PROVE  /\ pending'[d].endpoints[e].dataset = d
                 /\ pending'[d].endpoints[e].contract = pending'[d].def.contract
      <4>1. pending'[d].endpoints[e] = c.endpoints[e] /\ c.endpoints[e] # None
            /\ c.endpoints[e].dataset = d
        BY <3>1, <3>3 DEF EndpointsOf
      <4>. QED
        BY <3>1, <4>1, ConfigFits DEF Fits
    <3>. QED
      BY <1>1, <2>1, <3>1, <3>2, <3>3 DEF Planned
  <2>3. CASE d \notin Restaged(c)
    <3>1. pending'[d] = pending[d] /\ pending[d].def = c.datasets[d]
      BY <1>3, <2>3, ReloadPending
    <3>2. Planned(d)
      BY <1>3, <3>1 DEF PlanInv
    <3>. QED
      BY <1>1, <2>1, <3>1, <3>2 DEF Planned
  <2>. QED
    BY <2>2, <2>3
<1>4. ASSUME NEW e \in Endpoint PROVE Fits(catalog', e)
  <2>1. SUFFICES ASSUME catalog'.endpoints[e] # None PROVE Fits(catalog', e)
    BY DEF Fits
  <2>2. \/ /\ catalog'.endpoints[e] = catalog.endpoints[e]
           /\ pending'[catalog.endpoints[e].dataset] # None
        \/ /\ catalog'.endpoints[e] = c.endpoints[e]
           /\ pending'[c.endpoints[e].dataset] = None
    BY <1>1, <2>1 DEF Overlay
  <2>3. CASE /\ catalog'.endpoints[e] = catalog.endpoints[e]
             /\ pending'[catalog.endpoints[e].dataset] # None
    <3>1. catalog.endpoints[e].dataset \in Dataset
      BY <2>1, <2>3, TypeFacts DEF Catalog, Ep
    <3>2. Fits(catalog, e)
      BY DEF PlanInv
    <3>. QED
      BY <1>2, <2>1, <2>3, <3>1, <3>2 DEF Fits
  <2>4. CASE /\ catalog'.endpoints[e] = c.endpoints[e]
             /\ pending'[c.endpoints[e].dataset] = None
    <3>1. c.endpoints[e].dataset \in Dataset
      BY <1>0, <2>1, <2>4 DEF Catalog, Ep
    <3>. QED
      BY <1>2, <2>1, <2>4, <3>1, ConfigFits DEF Fits
  <2>. QED
    BY <2>2, <2>3, <2>4
<1>. QED
  BY <1>1, <1>2, <1>3, <1>4 DEF PlanInv

LEMMA PlanStep == TypeInv /\ FrozenInv /\ PlanInv /\ [Next]_vars => PlanInv'
<1>. SUFFICES ASSUME TypeInv, FrozenInv, PlanInv, [Next]_vars PROVE PlanInv'
  OBVIOUS
<1>1. ASSUME NEW d \in Dataset, Cutover(d) PROVE PlanInv'
  BY <1>1, CutoverPlans
<1>2. ASSUME NEW c \in Configs, Reload(c) PROVE PlanInv'
  BY <1>2, ReloadPlans
<1>3. ASSUME NEW c \in Configs, Boot(c) PROVE PlanInv'
  <2>1. \A d \in Dataset : pending'[d] = None
    BY <1>3 DEF Boot, FrozenInv
  <2>2. catalog' = c /\ wanted' = c
    BY <1>3 DEF Boot
  <2>. QED
    BY <2>1, <2>2, ConfigFits DEF PlanInv
<1>4. CASE Crash
  BY <1>4 DEF Crash, PlanInv, NoCatalog, Fits
<1>5. CASE UNCHANGED <<catalog, wanted, pending>> /\ (phase = "down" <=> phase' = "down")
  BY <1>5 DEF PlanInv, Planned
<1>. QED
  BY <1>1, <1>2, <1>3, <1>4, <1>5, PlansMove

LEMMA PlanInvariant == Spec => []PlanInv
<1>1. Init => PlanInv
  BY DEF Init, PlanInv, NoCatalog, Fits
<1>. QED
  BY <1>1, TypeInvariant, FrozenInvariant, PlanStep, PTL DEF Spec

------------------------------------------------------------------------------
(* No downtime                                                             *)

(* The steps that change what a dataset serves.                            *)
LEMMA SnapshotsMove ==
  ASSUME [Next]_vars,
         ~(\E c \in Configs : Reload(c) \/ Boot(c)),
         ~(\E d \in Dataset : ApplySwap(d) \/ Cutover(d) \/ Rollback(d) \/ BootRefresh(d)),
         ~Crash
  PROVE  UNCHANGED snapshots
<1>1. ASSUME NEW d \in Dataset, WorkerStep(d) PROVE UNCHANGED snapshots
  BY <1>1 DEF WorkerStep, Manual, Poll, RefreshNow, WorkerRead, WorkerSkip, WorkerBuild,
     WorkerBuilt, WorkerRejects, WorkerDies
<1>2. ASSUME NEW d \in Dataset, Handle(d) PROVE UNCHANGED snapshots
  BY <1>2 DEF Handle, ApplyUnchanged, ApplyLost, StageNotReady, StageSuperseded
<1>3. ASSUME NEW d \in Dataset, BootSkip(d) PROVE UNCHANGED snapshots
  BY <1>3 DEF BootSkip
<1>4. ASSUME NEW b \in builds, Stage(b) PROVE UNCHANGED snapshots
  BY <1>4 DEF Stage, StageOk, StageRejects, StageDies, StageNothing
<1>5. ASSUME NEW r \in retries, RetryStage(r) PROVE UNCHANGED snapshots
  BY <1>5 DEF RetryStage
<1>6. ASSUME NEW t \in retiring, EngineDrop(t) PROVE UNCHANGED snapshots
  BY <1>6 DEF EngineDrop
<1>7. CASE BootFinish
  BY <1>7 DEF BootFinish
<1>8. CASE UNCHANGED vars
  BY <1>8 DEF vars
<1>. QED
  BY <1>1, <1>2, <1>3, <1>4, <1>5, <1>6, <1>7, <1>8 DEF Next

(* A dataset that a reload removes is not in the catalog it publishes.     *)
LEMMA RemovedGoes ==
  ASSUME NEW c \in Configs, Reload(c), NEW d \in Removed(c)
  PROVE  d \in Dataset /\ d \notin Configured(catalog') /\ pending'[d] = None
<1>1. d \in Dataset /\ c.datasets[d] = None
  BY DEF Removed, Configured
<1>2. pending' = PendingAfter(c) /\ catalog' = Overlay(c, pending')
  BY DEF Reload
<1>3. pending'[d] = None
  BY <1>1, <1>2 DEF PendingAfter
<1>4. catalog'.datasets[d] = c.datasets[d]
  BY <1>1, <1>2, <1>3 DEF Overlay
<1>. QED
  BY <1>1, <1>3, <1>4 DEF Configured

(* A dataset that serves and stays configured serves on, through whatever  *)
(* handler runs next, as long as the runtime is up ("zero downtime",       *)
(* reload).                                                                *)
THEOREM ServesOn == Spec => NoDowntime
<1>. DEFINE Goes == phase = "up" /\ phase' = "up" =>
                      \A d \in Configured(catalog) \cap Configured(catalog') :
                        snapshots[d].active # None => snapshots'[d].active # None
<1>1. ASSUME TypeInv, [Next]_vars PROVE Goes
  <2>. SUFFICES ASSUME phase = "up", phase' = "up",
                       NEW d \in Configured(catalog) \cap Configured(catalog'),
                       snapshots[d].active # None
                PROVE  snapshots'[d].active # None
    OBVIOUS
  <2>0. d \in Dataset /\ snapshots \in [Dataset -> Entry]
    BY <1>1, TypeFacts DEF Configured
  <2>1. ASSUME NEW f \in Dataset, ApplySwap(f) PROVE snapshots'[d].active # None
    BY <2>0, <2>1 DEF ApplySwap, SwapIn
  <2>2. ASSUME NEW f \in Dataset, Cutover(f) PROVE snapshots'[d].active # None
    BY <2>0, <2>2 DEF Cutover, Lands, Promoted
  <2>3. ASSUME NEW f \in Dataset, Rollback(f) PROVE snapshots'[d].active # None
    BY <2>0, <2>3 DEF Rollback
  <2>4. ASSUME NEW c \in Configs, Reload(c) PROVE snapshots'[d].active # None
    <3>1. d \notin Removed(c)
      BY <2>4, RemovedGoes
    <3>. QED
      BY <2>0, <2>4, <3>1 DEF Reload, Remaining
  <2>5. CASE UNCHANGED snapshots
    BY <2>5
  <2>6. ASSUME NEW f \in Dataset PROVE ~BootRefresh(f)
    BY DEF BootRefresh
  <2>7. \A c \in Configs : ~Boot(c)
    BY DEF Boot
  <2>8. ~Crash
    BY DEF Crash
  <2>. QED
    BY <1>1, <2>1, <2>2, <2>3, <2>4, <2>5, <2>6, <2>7, <2>8, SnapshotsMove
<1>2. TypeInv /\ [Next]_vars => [Goes]_vars
  BY <1>1
<1>3. NoDowntime <=> [][Goes]_vars
  BY DEF NoDowntime
<1>. HIDE DEF Goes
<1>. QED
  BY <1>2, <1>3, TypeInvariant, PTL DEF Spec

------------------------------------------------------------------------------
(* One build for a cutover                                                 *)

One(S) == \E x \in S : S = {x}
StagedIn(q, gen) == {i \in DOMAIN q : q[i].kind = "staged" /\ q[i].gen = gen}
BuildsOf(d, gen) == {b \in builds : b.dataset = d /\ b.gen = gen}
TimersOf(d, gen) == {r \in retries : r.dataset = d /\ r.gen = gen}

(* A build, its result or its timer, and one of these only.                *)
Token(B, S, T) ==
  \/ One(B) /\ S = {} /\ T = {}
  \/ B = {} /\ One(S) /\ T = {}
  \/ B = {} /\ S = {} /\ One(T)

(* No generation is ahead of the counter, so that the next one is new.     *)
Past(d) ==
  /\ \A b \in builds : b.dataset = d => b.gen <= stageGen[d]
  /\ \A r \in retries : r.dataset = d => r.gen <= stageGen[d]
  /\ \A i \in DOMAIN inbox[d] : inbox[d][i].kind = "staged" => inbox[d][i].gen <= stageGen[d]

(* The cutover's token, and what it makes is what the cutover waits for.   *)
Held(d) ==
  pending[d] # None =>
    LET gen == pending[d].gen
    IN  /\ gen <= stageGen[d]
        /\ Token(BuildsOf(d, gen), StagedIn(inbox[d], gen), TimersOf(d, gen))
        /\ \A b \in BuildsOf(d, gen) : b.def = pending[d].def
        /\ \A i \in StagedIn(inbox[d], gen) : inbox[d][i].snap # None =>
             inbox[d][i].snap.contract = pending[d].def.contract

StageInv == \A d \in Dataset : Past(d) /\ Held(d)

LEMMA StagedAppend ==
  ASSUME NEW q \in Seq(Message), NEW m \in Message
  PROVE  /\ \A i \in DOMAIN q : Append(q, m)[i] = q[i]
         /\ Append(q, m)[Len(q) + 1] = m
         /\ DOMAIN Append(q, m) = DOMAIN q \cup {Len(q) + 1}
         /\ Len(q) + 1 \notin DOMAIN q
         /\ \A gen : StagedIn(Append(q, m), gen) =
              IF m.kind = "staged" /\ m.gen = gen THEN StagedIn(q, gen) \cup {Len(q) + 1}
              ELSE StagedIn(q, gen)
<1>. DEFINE r == Append(q, m)
<1>1. /\ \A i \in DOMAIN q : r[i] = q[i]
      /\ r[Len(q) + 1] = m /\ DOMAIN r = DOMAIN q \cup {Len(q) + 1}
      /\ Len(q) + 1 \notin DOMAIN q
  OBVIOUS
<1>. HIDE DEF r
<1>2. \A gen : StagedIn(r, gen) =
        IF m.kind = "staged" /\ m.gen = gen THEN StagedIn(q, gen) \cup {Len(q) + 1}
        ELSE StagedIn(q, gen)
  BY <1>1 DEF StagedIn
<1>. QED
  BY <1>1, <1>2 DEF r

LEMMA TailItems ==
  ASSUME NEW q \in Seq(Message), q # <<>>
  PROVE  \A i \in DOMAIN Tail(q) : i + 1 \in DOMAIN q /\ Tail(q)[i] = q[i + 1]
  OBVIOUS

LEMMA StagedTail ==
  ASSUME NEW q \in Seq(Message), q # <<>>, NEW gen
  PROVE  /\ \A i \in StagedIn(Tail(q), gen) : i + 1 \in StagedIn(q, gen)
         /\ StagedIn(q, gen) = {} => StagedIn(Tail(q), gen) = {}
         /\ One(StagedIn(q, gen)) =>
              IF Head(q).kind = "staged" /\ Head(q).gen = gen THEN StagedIn(Tail(q), gen) = {}
              ELSE One(StagedIn(Tail(q), gen))
<1>1. /\ Len(q) \in Nat /\ Len(q) > 0 /\ Head(q) = q[1]
      /\ DOMAIN q = 1 .. Len(q) /\ DOMAIN Tail(q) = 1 .. (Len(q) - 1)
      /\ \A i \in 1 .. (Len(q) - 1) : Tail(q)[i] = q[i + 1]
  OBVIOUS
<1>2. \A i \in DOMAIN Tail(q) : i + 1 \in DOMAIN q /\ Tail(q)[i] = q[i + 1] /\ i \in Nat /\ i # 0
  BY <1>1
<1>3. \A i \in StagedIn(Tail(q), gen) : i + 1 \in StagedIn(q, gen) /\ i \in Nat /\ i # 0
  BY <1>2 DEF StagedIn
<1>4. \A j \in StagedIn(q, gen) : j \in Nat /\ (j = 1 \/ j - 1 \in StagedIn(Tail(q), gen))
  <2>1. ASSUME NEW j \in DOMAIN q, j # 1
        PROVE  j - 1 \in DOMAIN Tail(q) /\ Tail(q)[j - 1] = q[j]
    <3>1. j \in Nat /\ j - 1 \in 1 .. (Len(q) - 1) /\ (j - 1) + 1 = j
      BY <1>1, <2>1
    <3>. QED
      BY <1>1, <3>1
  <2>2. \A j \in DOMAIN q : j \in Nat
    BY <1>1
  <2>. QED
    BY <2>1, <2>2 DEF StagedIn
<1>5. 1 \in StagedIn(q, gen) <=> Head(q).kind = "staged" /\ Head(q).gen = gen
  BY <1>1 DEF StagedIn
<1>6. ASSUME One(StagedIn(q, gen))
      PROVE  IF Head(q).kind = "staged" /\ Head(q).gen = gen THEN StagedIn(Tail(q), gen) = {}
             ELSE One(StagedIn(Tail(q), gen))
  <2>1. PICK x \in StagedIn(q, gen) : StagedIn(q, gen) = {x}
    BY <1>6 DEF One
  <2>2. CASE x = 1
    <3>1. \A i \in StagedIn(Tail(q), gen) : i \in Nat /\ i # 0 /\ i + 1 = 1
      BY <1>3, <2>1, <2>2
    <3>2. StagedIn(Tail(q), gen) = {}
      BY <3>1
    <3>. QED
      BY <1>5, <2>1, <2>2, <3>2
  <2>3. CASE x # 1
    <3>1. x - 1 \in StagedIn(Tail(q), gen) /\ x \in Nat
      BY <1>4, <2>1, <2>3
    <3>2. \A i \in StagedIn(Tail(q), gen) : i = x - 1
      BY <1>3, <2>1, <3>1
    <3>3. One(StagedIn(Tail(q), gen))
      BY <3>1, <3>2 DEF One
    <3>. QED
      BY <1>5, <2>1, <2>3, <3>3
  <2>. QED
    BY <2>2, <2>3
<1>. QED
  BY <1>3, <1>6

(* A step of one dataset.                                                  *)
LEMMA StageLocal ==
  ASSUME StageInv, NEW d \in Dataset,
         \A e \in Dataset \ {d} : UNCHANGED <<pending[e], stageGen[e], inbox[e]>>,
         \A b : b.dataset # d => (b \in builds <=> b \in builds'),
         \A r : r.dataset # d => (r \in retries <=> r \in retries'),
         Past(d)', Held(d)'
  PROVE  StageInv'
<1>1. ASSUME NEW e \in Dataset, e # d PROVE Past(e)' /\ Held(e)'
  <2>1. /\ pending'[e] = pending[e] /\ stageGen'[e] = stageGen[e] /\ inbox'[e] = inbox[e]
        /\ Past(e) /\ Held(e)
    BY <1>1 DEF StageInv
  <2>2. \A b : b.dataset = e => (b \in builds <=> b \in builds')
    BY <1>1
  <2>3. \A r : r.dataset = e => (r \in retries <=> r \in retries')
    BY <1>1
  <2>4. \A gen : BuildsOf(e, gen)' = BuildsOf(e, gen)
    BY <2>2 DEF BuildsOf
  <2>5. \A gen : TimersOf(e, gen)' = TimersOf(e, gen)
    BY <2>3 DEF TimersOf
  <2>6. Past(e)'
    BY <2>1, <2>2, <2>3 DEF Past
  <2>7. Held(e)'
    BY <2>1, <2>4, <2>5 DEF Held
  <2>. QED
    BY <2>6, <2>7
<1>. QED
  BY <1>1 DEF StageInv

(* An outcome of a worker comes in, or is taken: nothing of a cutover.     *)
LEMMA CallStage ==
  ASSUME TypeInv, StageInv, NEW d \in Dataset, NEW snap \in Snap \cup {None}, Call(d, snap),
         UNCHANGED <<pending, stageGen, builds, retries>>
  PROVE  StageInv'
<1>. DEFINE m == [kind |-> "apply", snap |-> snap]
<1>1. /\ inbox[d] \in Seq(Message) /\ m \in Message /\ m.kind = "apply"
      /\ inbox'[d] = Append(inbox[d], m)
      /\ \A e \in Dataset \ {d} : UNCHANGED inbox[e]
  BY TypeFacts, MessageType DEF Call
<1>. HIDE DEF m
<1>2. /\ \A i \in DOMAIN inbox[d] : inbox'[d][i] = inbox[d][i]
      /\ inbox'[d][Len(inbox[d]) + 1] = m
      /\ DOMAIN inbox'[d] = DOMAIN inbox[d] \cup {Len(inbox[d]) + 1}
      /\ \A gen : StagedIn(inbox'[d], gen) = StagedIn(inbox[d], gen)
  <2>1. ASSUME NEW gen PROVE StagedIn(inbox'[d], gen) = StagedIn(inbox[d], gen)
    BY <1>1, StagedAppend
  <2>2. /\ \A i \in DOMAIN inbox[d] : Append(inbox[d], m)[i] = inbox[d][i]
        /\ Append(inbox[d], m)[Len(inbox[d]) + 1] = m
        /\ DOMAIN Append(inbox[d], m) = DOMAIN inbox[d] \cup {Len(inbox[d]) + 1}
    BY <1>1, StagedAppend
  <2>. QED
    BY <1>1, <2>1, <2>2
<1>3. /\ \A gen : BuildsOf(d, gen)' = BuildsOf(d, gen)
      /\ \A gen : TimersOf(d, gen)' = TimersOf(d, gen)
  BY DEF BuildsOf, TimersOf
<1>4. Past(d) /\ Held(d)
  BY DEF StageInv
<1>5. Past(d)'
  BY <1>1, <1>2, <1>4 DEF Past
<1>6. Held(d)'
  <2>1. \A gen : \A i \in StagedIn(inbox[d], gen) : inbox'[d][i] = inbox[d][i]
    BY <1>2 DEF StagedIn
  <2>. QED
    BY <1>2, <1>3, <1>4, <2>1 DEF Held
<1>. QED
  BY <1>1, <1>5, <1>6, StageLocal

(* Taking the first message, whatever it is, keeps what is left of Past    *)
(* and of what the results are.                                            *)
LEMMA TakeStage ==
  ASSUME TypeInv, StageInv, NEW d \in Dataset, inbox[d] # <<>>,
         inbox' = [inbox EXCEPT ![d] = Tail(@)], stageGen' = stageGen
  PROVE  /\ \A e \in Dataset \ {d} : UNCHANGED inbox[e]
         /\ inbox'[d] = Tail(inbox[d]) /\ inbox[d] \in Seq(Message)
         /\ \A i \in DOMAIN inbox'[d] :
              i + 1 \in DOMAIN inbox[d] /\ inbox'[d][i] = inbox[d][i + 1]
         /\ \A i \in DOMAIN inbox'[d] :
              inbox'[d][i].kind = "staged" => inbox'[d][i].gen <= stageGen'[d]
         /\ pending[d] # None => \A i \in StagedIn(inbox'[d], pending[d].gen) :
              inbox'[d][i].snap # None =>
                inbox'[d][i].snap.contract = pending[d].def.contract
<1>1. inbox[d] \in Seq(Message) /\ inbox'[d] = Tail(inbox[d])
      /\ \A e \in Dataset \ {d} : UNCHANGED inbox[e]
  BY TypeFacts
<1>2. \A i \in DOMAIN inbox'[d] : i + 1 \in DOMAIN inbox[d] /\ inbox'[d][i] = inbox[d][i + 1]
  <2>1. \A i \in DOMAIN Tail(inbox[d]) :
          i + 1 \in DOMAIN inbox[d] /\ Tail(inbox[d])[i] = inbox[d][i + 1]
    BY <1>1, TailItems
  <2>. QED
    BY <1>1, <2>1
<1>3. Past(d) /\ Held(d)
  BY DEF StageInv
<1>4. \A i \in DOMAIN inbox'[d] :
        inbox'[d][i].kind = "staged" => inbox'[d][i].gen <= stageGen'[d]
  BY <1>2, <1>3 DEF Past
<1>5. ASSUME pending[d] # None, NEW i \in StagedIn(inbox'[d], pending[d].gen),
             inbox'[d][i].snap # None
      PROVE  inbox'[d][i].snap.contract = pending[d].def.contract
  <2>1. i + 1 \in StagedIn(inbox[d], pending[d].gen) /\ inbox'[d][i] = inbox[d][i + 1]
    BY <1>1, <1>2, <1>5, StagedTail DEF StagedIn
  <2>. QED
    BY <1>3, <1>5, <2>1 DEF Held
<1>. QED
  BY <1>1, <1>2, <1>4, <1>5

LEMMA ApplyingStage ==
  ASSUME TypeInv, StageInv, NEW d \in Dataset,
         NEW w \in {worker[d], Kick(worker[d])}, Applying(d, w)
  PROVE  StageInv'
<1>1. /\ inbox[d] # <<>> /\ Head(inbox[d]).kind = "apply"
      /\ inbox' = [inbox EXCEPT ![d] = Tail(@)]
      /\ UNCHANGED <<pending, stageGen, builds, retries>>
  BY DEF Applying, Answer
<1>2. /\ \A e \in Dataset \ {d} : UNCHANGED inbox[e]
      /\ inbox'[d] = Tail(inbox[d]) /\ inbox[d] \in Seq(Message)
      /\ \A i \in DOMAIN inbox'[d] :
           inbox'[d][i].kind = "staged" => inbox'[d][i].gen <= stageGen'[d]
      /\ pending[d] # None => \A i \in StagedIn(inbox'[d], pending[d].gen) :
           inbox'[d][i].snap # None =>
             inbox'[d][i].snap.contract = pending[d].def.contract
  BY <1>1, TakeStage
<1>3. /\ \A gen : BuildsOf(d, gen)' = BuildsOf(d, gen)
      /\ \A gen : TimersOf(d, gen)' = TimersOf(d, gen)
  BY <1>1 DEF BuildsOf, TimersOf
<1>4. Past(d) /\ Held(d)
  BY DEF StageInv
<1>5. Past(d)'
  BY <1>1, <1>2, <1>4 DEF Past
<1>6. Held(d)'
  <2>1. \A gen : /\ StagedIn(inbox[d], gen) = {} => StagedIn(inbox'[d], gen) = {}
                 /\ One(StagedIn(inbox[d], gen)) => One(StagedIn(inbox'[d], gen))
    BY <1>1, <1>2, StagedTail
  <2>. QED
    BY <1>1, <1>2, <1>3, <1>4, <2>1 DEF Held, Token
<1>. QED
  BY <1>1, <1>2, <1>5, <1>6, StageLocal

(* A staging result is taken: it lands, is tried again, or was superseded. *)
LEMMA DeliveringStage ==
  ASSUME TypeInv, StageInv, NEW d \in Dataset,
         Cutover(d) \/ StageNotReady(d) \/ StageSuperseded(d)
  PROVE  StageInv'
<1>0. PICK gen : gen = Head(inbox[d]).gen
  OBVIOUS
<1>1. /\ inbox[d] # <<>> /\ Head(inbox[d]).kind = "staged"
      /\ inbox' = [inbox EXCEPT ![d] = Tail(@)]
      /\ UNCHANGED <<stageGen, builds>>
  BY DEF Cutover, StageNotReady, StageSuperseded, Delivering
<1>2. /\ \A e \in Dataset \ {d} : UNCHANGED inbox[e]
      /\ inbox'[d] = Tail(inbox[d]) /\ inbox[d] \in Seq(Message)
      /\ \A i \in DOMAIN inbox'[d] :
           inbox'[d][i].kind = "staged" => inbox'[d][i].gen <= stageGen'[d]
      /\ pending[d] # None => \A i \in StagedIn(inbox'[d], pending[d].gen) :
           inbox'[d][i].snap # None =>
             inbox'[d][i].snap.contract = pending[d].def.contract
  BY <1>1, TakeStage
<1>3. \A g : BuildsOf(d, g)' = BuildsOf(d, g)
  BY <1>1 DEF BuildsOf
<1>4. Past(d) /\ Held(d)
  BY DEF StageInv
<1>5. \A g : /\ StagedIn(inbox[d], g) = {} => StagedIn(inbox'[d], g) = {}
             /\ One(StagedIn(inbox[d], g)) =>
                  IF gen = g THEN StagedIn(inbox'[d], g) = {} ELSE One(StagedIn(inbox'[d], g))
  BY <1>0, <1>1, <1>2, StagedTail
<1>6. 1 \in StagedIn(inbox[d], gen) /\ gen \in Nat /\ gen <= stageGen[d]
  <2>1. Head(inbox[d]) = inbox[d][1] /\ 1 \in DOMAIN inbox[d] /\ Head(inbox[d]) \in Message
    BY <1>1, <1>2
  <2>. QED
    BY <1>0, <1>1, <1>4, <2>1, MessageType DEF StagedIn, Past
<1>7. CASE Cutover(d)
  <2>1. /\ pending'[d] = None /\ UNCHANGED retries
        /\ \A e \in Dataset \ {d} : pending'[e] = pending[e]
    BY <1>7, TypeFacts DEF Cutover
  <2>2. Past(d)'
    BY <1>1, <1>2, <1>4, <2>1 DEF Past
  <2>3. Held(d)'
    BY <2>1 DEF Held
  <2>. QED
    BY <1>1, <1>2, <2>1, <2>2, <2>3, StageLocal
<1>8. CASE StageSuperseded(d)
  <2>1. /\ UNCHANGED <<pending, retries>>
        /\ pending[d] # None => pending[d].gen # gen
    BY <1>0, <1>8 DEF StageSuperseded, Current
  <2>2. Past(d)'
    BY <1>1, <1>2, <1>4, <2>1 DEF Past
  <2>3. \A g : TimersOf(d, g)' = TimersOf(d, g)
    BY <2>1 DEF TimersOf
  <2>4. Held(d)'
    BY <1>1, <1>2, <1>3, <1>4, <1>5, <2>1, <2>3 DEF Held, Token
  <2>. QED
    BY <1>1, <1>2, <2>1, <2>2, <2>4, StageLocal
<1>9. CASE StageNotReady(d)
  <2>. DEFINE r == [dataset |-> d, gen |-> gen]
  <2>1. /\ UNCHANGED pending /\ pending[d] # None /\ pending[d].gen = gen
        /\ retries' = retries \cup {r}
    BY <1>0, <1>9 DEF StageNotReady, Current
  <2>2. r.dataset = d /\ r.gen = gen
    OBVIOUS
  <2>. HIDE DEF r
  <2>3. Past(d)'
    BY <1>1, <1>2, <1>4, <1>6, <2>1, <2>2 DEF Past
  <2>4. /\ BuildsOf(d, gen) = {} /\ One(StagedIn(inbox[d], gen)) /\ TimersOf(d, gen) = {}
    BY <1>4, <1>6, <2>1 DEF Held, Token
  <2>5. TimersOf(d, gen)' = {r}
    BY <2>1, <2>2, <2>4 DEF TimersOf
  <2>6. StagedIn(inbox'[d], gen) = {}
    BY <1>5, <2>4
  <2>7. Token(BuildsOf(d, gen), StagedIn(inbox[d], gen), TimersOf(d, gen))'
    BY <1>3, <2>4, <2>5, <2>6 DEF Token, One
  <2>8. Held(d)'
    BY <1>1, <1>2, <1>3, <1>4, <2>1, <2>7 DEF Held
  <2>. QED
    BY <1>1, <1>2, <2>1, <2>2, <2>3, <2>8, StageLocal
<1>. QED
  BY <1>7, <1>8, <1>9

(* A staging task ends: its result takes its place.                        *)
LEMMA ResultStage ==
  ASSUME TypeInv, StageInv, NEW b \in builds, NEW d \in Dataset, b.dataset = d,
         NEW snap \in Snap \cup {None}, snap # None => snap.contract = b.def.contract,
         builds' = builds \ {b},
         inbox' = [inbox EXCEPT ![d] =
           Append(@, [kind |-> "staged", gen |-> b.gen, snap |-> snap])],
         UNCHANGED <<pending, stageGen, retries>>
  PROVE  StageInv'
<1>. DEFINE m == [kind |-> "staged", gen |-> b.gen, snap |-> snap]
<1>1. /\ m \in Message /\ m.snap = snap /\ inbox[d] \in Seq(Message)
      /\ inbox'[d] = Append(inbox[d], m) /\ m.kind = "staged" /\ m.gen = b.gen
      /\ \A e \in Dataset \ {d} : UNCHANGED inbox[e]
  BY TypeFacts, MessageType DEF Build
<1>2. \A x : x.dataset # d => (x \in builds <=> x \in builds')
  OBVIOUS
<1>. HIDE DEF m
<1>3. PICK last : last = Len(inbox[d]) + 1
  OBVIOUS
<1>4. /\ \A i \in DOMAIN inbox[d] : inbox'[d][i] = inbox[d][i]
      /\ inbox'[d][last] = m
      /\ DOMAIN inbox'[d] = DOMAIN inbox[d] \cup {last}
      /\ last \notin DOMAIN inbox[d]
  BY <1>1, <1>3, StagedAppend
<1>5. /\ \A g : b.gen = g => StagedIn(inbox'[d], g) = StagedIn(inbox[d], g) \cup {last}
      /\ \A g : b.gen # g => StagedIn(inbox'[d], g) = StagedIn(inbox[d], g)
  BY <1>1, <1>4 DEF StagedIn
<1>6. Past(d) /\ Held(d)
  BY DEF StageInv
<1>7. Past(d)'
  BY <1>1, <1>4, <1>6 DEF Past
<1>8. /\ \A g : TimersOf(d, g)' = TimersOf(d, g)
      /\ \A g : b.gen = g => BuildsOf(d, g)' = BuildsOf(d, g) \ {b}
      /\ \A g : b.gen # g => BuildsOf(d, g)' = BuildsOf(d, g)
  BY DEF TimersOf, BuildsOf
<1>9. Held(d)'
  <2>. SUFFICES ASSUME pending[d] # None PROVE Held(d)'
    BY DEF Held
  <2>1. PICK g : g = pending[d].gen
    OBVIOUS
  <2>2. /\ g <= stageGen[d]
        /\ Token(BuildsOf(d, g), StagedIn(inbox[d], g), TimersOf(d, g))
        /\ \A x \in BuildsOf(d, g) : x.def = pending[d].def
        /\ \A i \in StagedIn(inbox[d], g) : inbox[d][i].snap # None =>
             inbox[d][i].snap.contract = pending[d].def.contract
    BY <1>6, <2>1 DEF Held
  <2>3. \A i \in StagedIn(inbox[d], g) : inbox'[d][i] = inbox[d][i]
    BY <1>4 DEF StagedIn
  <2>4. CASE b.gen # g
    <3>1. StagedIn(inbox'[d], g) = StagedIn(inbox[d], g) /\ BuildsOf(d, g)' = BuildsOf(d, g)
      BY <1>5, <1>8, <2>4
    <3>2. TimersOf(d, g)' = TimersOf(d, g)
      BY <1>8
    <3>3. Token(BuildsOf(d, g)', StagedIn(inbox'[d], g), TimersOf(d, g)')
      BY <2>2, <3>1, <3>2
    <3>4. ASSUME NEW i \in StagedIn(inbox'[d], g), inbox'[d][i].snap # None
          PROVE  inbox'[d][i].snap.contract = pending[d].def.contract
      <4>1. i \in StagedIn(inbox[d], g) /\ inbox'[d][i] = inbox[d][i]
        BY <2>3, <3>1, <3>4
      <4>. QED
        BY <2>2, <3>4, <4>1
    <3>5. \A x \in BuildsOf(d, g)' : x.def = pending[d].def
      BY <2>2, <3>1
    <3>. QED
      BY <2>1, <2>2, <3>3, <3>4, <3>5 DEF Held
  <2>5. CASE b.gen = g
    <3>1. b \in BuildsOf(d, g)
      BY <2>5 DEF BuildsOf
    <3>2. BuildsOf(d, g) = {b} /\ StagedIn(inbox[d], g) = {} /\ TimersOf(d, g) = {}
      BY <2>2, <3>1 DEF Token, One
    <3>3. BuildsOf(d, g)' = {} /\ TimersOf(d, g)' = {} /\ StagedIn(inbox'[d], g) = {last}
      <4>1. BuildsOf(d, g)' = BuildsOf(d, g) \ {b} /\ TimersOf(d, g)' = TimersOf(d, g)
            /\ StagedIn(inbox'[d], g) = StagedIn(inbox[d], g) \cup {last}
        BY <1>5, <1>8, <2>5
      <4>. QED
        BY <3>2, <4>1
    <3>4. Token(BuildsOf(d, g)', StagedIn(inbox'[d], g), TimersOf(d, g)')
      BY <3>3 DEF Token, One
    <3>5. m.snap # None => m.snap.contract = pending[d].def.contract
      BY <1>1, <2>2, <3>1
    <3>. QED
      BY <1>4, <2>1, <2>2, <3>3, <3>4, <3>5 DEF Held
  <2>. QED
    BY <2>4, <2>5
<1>. QED
  BY <1>1, <1>2, <1>7, <1>9, StageLocal

LEMMA StagingStage ==
  ASSUME TypeInv, StageInv, NEW b \in builds, Stage(b)
  PROVE  StageInv'
<1>0. PICK d \in Dataset : d = b.dataset
  BY TypeFacts DEF Build
<1>1. CASE StageOk(b)
  <2>1. PICK id \in SnapshotId :
          inbox' = [inbox EXCEPT ![d] =
            Append(@, [kind |-> "staged", gen |-> b.gen,
                       snap |-> Built(id, b.table, b.def, b.def.path)])]
    BY <1>0, <1>1 DEF StageOk
  <2>2. /\ Built(id, b.table, b.def, b.def.path) \in Snap
        /\ Built(id, b.table, b.def, b.def.path).contract = b.def.contract
    BY TypeFacts, BuiltType DEF Build, Def, Built
  <2>3. builds' = builds \ {b} /\ UNCHANGED <<pending, stageGen, retries>>
    BY <1>1 DEF StageOk
  <2>. HIDE DEF Built
  <2>. QED
    BY <1>0, <2>1, <2>2, <2>3, ResultStage
<1>2. CASE StageRejects(b) \/ StageDies(b)
  <2>1. /\ builds' = builds \ {b} /\ UNCHANGED <<pending, stageGen, retries>>
        /\ inbox' = [inbox EXCEPT ![d] =
             Append(@, [kind |-> "staged", gen |-> b.gen, snap |-> None])]
    BY <1>0, <1>2 DEF StageRejects, StageDies, StageNothing
  <2>. QED
    BY <1>0, <2>1, ResultStage
<1>. QED
  BY <1>1, <1>2 DEF Stage

(* A timer fires: the build begins again, unless it was superseded.        *)
LEMMA RetryStaging ==
  ASSUME TypeInv, StageInv, NEW r \in retries, RetryStage(r)
  PROVE  StageInv'
<1>0. PICK d \in Dataset : d = r.dataset
  BY DEF TypeInv, TypeOK
<1>1. /\ d \in Dataset /\ r.gen \in Nat /\ retries' = retries \ {r} /\ r.dataset = d
      /\ UNCHANGED <<pending, stageGen, inbox>>
      /\ \A x : x.dataset # d => (x \in retries <=> x \in retries')
  BY <1>0 DEF RetryStage, TypeInv, TypeOK
<1>2. Past(d) /\ Held(d)
  BY <1>1 DEF StageInv
<1>3. \A g : TimersOf(d, g)' = IF r.gen = g THEN TimersOf(d, g) \ {r} ELSE TimersOf(d, g)
  <2>1. ASSUME NEW g
        PROVE  TimersOf(d, g)' = IF r.gen = g THEN TimersOf(d, g) \ {r} ELSE TimersOf(d, g)
    BY <1>1 DEF TimersOf
  <2>. QED
    BY <2>1
<1>4. CASE ~Current(d, r.gen)
  <2>1. UNCHANGED builds
    BY <1>1, <1>4 DEF RetryStage
  <2>2. pending[d] # None => pending[d].gen # r.gen
    BY <1>4 DEF Current
  <2>3. \A g : BuildsOf(d, g)' = BuildsOf(d, g)
    BY <2>1 DEF BuildsOf
  <2>4. Past(d)'
    BY <1>1, <1>2, <2>1 DEF Past
  <2>5. Held(d)'
    BY <1>1, <1>2, <1>3, <2>2, <2>3 DEF Held
  <2>. QED
    BY <1>1, <2>1, <2>4, <2>5, StageLocal
<1>5. CASE Current(d, r.gen)
  <2>1. PICK t \in Fresh :
          builds' = builds \cup {[dataset |-> d, gen |-> r.gen, def |-> pending[d].def,
                                  table |-> t]}
    BY <1>1, <1>5 DEF RetryStage
  <2>. DEFINE b == [dataset |-> d, gen |-> r.gen, def |-> pending[d].def, table |-> t]
  <2>2. /\ b.dataset = d /\ b.gen = r.gen /\ b.def = pending[d].def
        /\ builds' = builds \cup {b}
    BY <2>1
  <2>. HIDE DEF b
  <2>3. pending[d] # None /\ pending[d].gen = r.gen
    BY <1>5 DEF Current
  <2>4. r \in TimersOf(d, r.gen)
    BY <1>1 DEF TimersOf
  <2>5. BuildsOf(d, r.gen) = {} /\ StagedIn(inbox[d], r.gen) = {} /\ TimersOf(d, r.gen) = {r}
    BY <1>2, <2>3, <2>4 DEF Held, Token, One
  <2>6. BuildsOf(d, r.gen)' = {b} /\ TimersOf(d, r.gen)' = {}
    BY <1>3, <2>2, <2>5 DEF BuildsOf
  <2>7. Past(d)'
    BY <1>1, <1>2, <2>2 DEF Past
  <2>8. Token(BuildsOf(d, r.gen)', StagedIn(inbox[d], r.gen), TimersOf(d, r.gen)')
    BY <2>5, <2>6 DEF Token, One
  <2>9. Held(d)'
    BY <1>1, <1>2, <2>2, <2>3, <2>5, <2>6, <2>8 DEF Held
  <2>. QED
    BY <1>1, <2>2, <2>7, <2>9, StageLocal
<1>. QED
  BY <1>4, <1>5

(* What a reload starts: a build for each dataset it stages.               *)
LEMMA ReloadBuilds ==
  ASSUME NEW c \in Configs, Reload(c)
  PROVE  \E new :
           /\ builds' = builds \cup {new[d] : d \in Restaged(c)}
           /\ \A d \in Restaged(c) :
                /\ new[d].dataset = d
                /\ new[d].gen = pending'[d].gen
                /\ new[d].def = pending'[d].def
<1>1. PICK table \in [Restaged(c) -> Fresh] :
        builds' = builds \cup
          {[dataset |-> d, gen |-> PendingAfter(c)[d].gen, def |-> PendingAfter(c)[d].def,
            table |-> table[d]] : d \in Restaged(c)}
  BY DEF Reload
<1>2. pending' = PendingAfter(c)
  BY DEF Reload
<1>. DEFINE record(d) == [dataset |-> d, gen |-> PendingAfter(c)[d].gen,
                          def |-> PendingAfter(c)[d].def, table |-> table[d]]
            new == [d \in Restaged(c) |-> record(d)]
<1>3. ASSUME NEW d \in Restaged(c)
      PROVE  /\ new[d].dataset = d
             /\ new[d].gen = pending'[d].gen
             /\ new[d].def = pending'[d].def
  BY <1>2
<1>4. builds' = builds \cup {new[d] : d \in Restaged(c)}
  <2>1. builds' = builds \cup {record(d) : d \in Restaged(c)}
    BY <1>1
  <2>. HIDE DEF record
  <2>2. \A d \in Restaged(c) : new[d] = record(d)
    OBVIOUS
  <2>. QED
    BY <2>1, <2>2
<1>. HIDE DEF new
<1>. QED
  BY <1>3, <1>4

LEMMA ReloadStage ==
  ASSUME TypeInv, FrozenInv, StageInv, NEW c \in Configs, Reload(c)
  PROVE  StageInv'
<1>1. PICK new :
        /\ builds' = builds \cup {new[d] : d \in Restaged(c)}
        /\ \A d \in Restaged(c) :
             /\ new[d].dataset = d
             /\ new[d].gen = pending'[d].gen
             /\ new[d].def = pending'[d].def
  BY ReloadBuilds
<1>2. UNCHANGED <<inbox, retries>>
  BY DEF Reload
<1>3. ASSUME NEW d \in Dataset, d \in Restaged(c)
      PROVE  /\ pending'[d].gen = stageGen[d] + 1
             /\ stageGen'[d] = stageGen[d] + 1
  <2>1. pending'[d] = [gen |-> stageGen[d] + 1, def |-> c.datasets[d],
                       endpoints |-> EndpointsOf(c, d)]
    BY <1>3 DEF Reload, PendingAfter, Restaged, Staged, Touched, Removed, InPlace
  <2>2. stageGen'[d] = stageGen[d] + 1
    BY <1>3 DEF Reload
  <2>. QED
    BY <2>1, <2>2
<1>4. ASSUME NEW d \in Dataset PROVE Past(d)' /\ Held(d)'
  <2>1. Past(d) /\ Held(d)
    BY DEF StageInv
  <2>2. /\ stageGen[d] \in Nat
        /\ \A b \in builds : b.gen \in Nat
        /\ \A r \in retries : r.gen \in Nat
        /\ \A i \in DOMAIN inbox[d] : inbox[d][i].kind = "staged" => inbox[d][i].gen \in Nat
    BY TypeFacts, MessageType DEF TypeInv, TypeOK, Build
  <2>3. CASE d \in Restaged(c)
    <3>1. PICK g \in Nat : g = stageGen[d] + 1
      BY <2>2
    <3>2. /\ pending'[d].gen = g /\ stageGen'[d] = g /\ stageGen[d] <= g /\ g # stageGen[d]
          /\ \A n \in Nat : n <= stageGen[d] => n <= g /\ n # g
      BY <1>3, <2>2, <2>3, <3>1
    <3>3. PICK b : /\ b \in builds' /\ b.dataset = d /\ b.gen = g /\ b.def = pending'[d].def
                   /\ \A x \in builds' : x.dataset = d => x = b \/ x \in builds
      <4>1. \A e \in Restaged(c) : new[e].dataset = d => e = d
        BY <1>1
      <4>. QED
        BY <1>1, <2>3, <3>2, <4>1
    <3>4. Past(d)'
      BY <1>2, <2>1, <2>2, <3>2, <3>3 DEF Past
    <3>5. /\ \A x \in builds : x.dataset = d => x.gen # g
          /\ \A r \in retries : r.dataset = d => r.gen # g
          /\ \A i \in DOMAIN inbox[d] : inbox[d][i].kind = "staged" => inbox[d][i].gen # g
      BY <2>1, <2>2, <3>2 DEF Past
    <3>6. BuildsOf(d, g)' = {b}
      BY <3>3, <3>5 DEF BuildsOf
    <3>7. TimersOf(d, g)' = {} /\ StagedIn(inbox'[d], g) = {}
      BY <1>2, <3>5 DEF TimersOf, StagedIn
    <3>8. Token(BuildsOf(d, g)', StagedIn(inbox'[d], g), TimersOf(d, g)')
      BY <3>6, <3>7 DEF Token, One
    <3>9. Held(d)'
      BY <3>2, <3>3, <3>6, <3>7, <3>8 DEF Held
    <3>. QED
      BY <3>4, <3>9
  <2>4. CASE d \notin Restaged(c)
    <3>1. stageGen'[d] = stageGen[d] /\ (pending'[d] # None => pending'[d] = pending[d])
      BY <2>4 DEF Reload, PendingAfter
    <3>2. \A b : b.dataset = d => (b \in builds' <=> b \in builds)
      BY <1>1, <2>4
    <3>3. \A g : BuildsOf(d, g)' = BuildsOf(d, g)
      BY <3>2 DEF BuildsOf
    <3>4. \A g : TimersOf(d, g)' = TimersOf(d, g)
      BY <1>2 DEF TimersOf
    <3>5. Past(d)'
      BY <1>2, <2>1, <3>1, <3>2 DEF Past
    <3>6. Held(d)'
      BY <1>2, <2>1, <3>1, <3>3, <3>4 DEF Held
    <3>. QED
      BY <3>5, <3>6
  <2>. QED
    BY <2>3, <2>4
<1>. QED
  BY <1>4 DEF StageInv

LEMMA StageStep == TypeInv /\ FrozenInv /\ StageInv /\ [Next]_vars => StageInv'
<1>. SUFFICES ASSUME TypeInv, FrozenInv, StageInv, [Next]_vars PROVE StageInv'
  OBVIOUS
<1>0. ASSUME UNCHANGED <<pending, stageGen, builds, retries, inbox>> PROVE StageInv'
  BY <1>0 DEF StageInv, Past, Held, BuildsOf, TimersOf
<1>1. ASSUME NEW d \in Dataset, WorkerStep(d) PROVE StageInv'
  <2>1. UNCHANGED <<pending, stageGen, builds, retries>>
    BY <1>1 DEF WorkerStep, Manual, Poll, RefreshNow, WorkerRead, WorkerSkip, WorkerBuild,
       WorkerBuilt, WorkerRejects, WorkerDies
  <2>2. CASE WorkerSkip(d) \/ WorkerRejects(d)
    <3>1. Call(d, None)
      BY <2>2 DEF WorkerSkip, WorkerRejects
    <3>. QED
      BY <2>1, <3>1, CallStage
  <2>3. CASE WorkerBuilt(d)
    <3>1. Call(d, worker[d].snap) /\ worker[d].snap \in Snap \cup {None}
      BY <2>3, TypeFacts, WorkerFields DEF WorkerBuilt
    <3>. QED
      BY <2>1, <3>1, CallStage
  <2>4. CASE UNCHANGED inbox
    BY <2>1, <2>4, <1>0
  <2>. QED
    BY <1>1, <2>2, <2>3, <2>4
    DEF WorkerStep, Manual, Poll, RefreshNow, WorkerRead, WorkerBuild, WorkerDies
<1>2. ASSUME NEW d \in Dataset, Handle(d) PROVE StageInv'
  <2>1. CASE \E w \in {worker[d], Kick(worker[d])} : Applying(d, w)
    BY <2>1, ApplyingStage
  <2>2. CASE Cutover(d) \/ StageNotReady(d) \/ StageSuperseded(d)
    BY <2>2, DeliveringStage
  <2>. QED
    BY <1>2, <2>1, <2>2 DEF Handle, ApplyUnchanged, ApplySwap, ApplyLost
<1>3. ASSUME NEW d \in Dataset, Rollback(d) \/ BootRefresh(d) \/ BootSkip(d) PROVE StageInv'
  BY <1>3, <1>0 DEF Rollback, BootRefresh, BootSkip
<1>4. ASSUME NEW c \in Configs, Reload(c) PROVE StageInv'
  BY <1>4, ReloadStage
<1>5. ASSUME NEW c \in Configs, Boot(c) PROVE StageInv'
  BY <1>5, <1>0 DEF Boot
<1>6. ASSUME NEW b \in builds, Stage(b) PROVE StageInv'
  BY <1>6, StagingStage
<1>7. ASSUME NEW r \in retries, RetryStage(r) PROVE StageInv'
  BY <1>7, RetryStaging
<1>8. ASSUME NEW t \in retiring, EngineDrop(t) PROVE StageInv'
  BY <1>8, <1>0 DEF EngineDrop
<1>9. CASE Crash
  BY <1>9 DEF Crash, StageInv, Past, Held
<1>10. CASE BootFinish
  BY <1>10, <1>0 DEF BootFinish
<1>11. CASE UNCHANGED vars
  BY <1>11, <1>0 DEF vars
<1>. QED
  BY <1>1, <1>2, <1>3, <1>4, <1>5, <1>6, <1>7, <1>8, <1>9, <1>10, <1>11 DEF Next

LEMMA StageInvariant == Spec => []StageInv
<1>1. Init => StageInv
  BY DEF Init, StageInv, Past, Held
<1>. QED
  BY <1>1, TypeInvariant, FrozenInvariant, StageStep, PTL DEF Spec

LEMMA OneIsOne ==
  /\ \A S : One(S) => Cardinality(S) = 1
  /\ Cardinality({}) = 0
<1>1. ASSUME NEW S, One(S) PROVE Cardinality(S) = 1
  BY <1>1, FS_Singleton DEF One
<1>. QED
  BY <1>1, FS_EmptySet

(* While a schema cutover is pending, its dataset has no refresh worker,   *)
(* and there is exactly one of: a build of the current generation, its     *)
(* undelivered result, its retry timer.  None would leave the cutover      *)
(* pending for ever, two would race (stage_one, on_staged_result,          *)
(* :retry_stage).                                                          *)
THEOREM OneBuild == Spec => []OneBuildPerCutover
<1>1. ASSUME FrozenInv, StageInv PROVE OneBuildPerCutover
  <2>. SUFFICES ASSUME NEW d \in Dataset, pending[d] # None, NEW gen, gen = pending[d].gen
       PROVE /\ worker[d] = NoWorker
             /\ Cardinality(BuildsOf(d, gen)) + Cardinality(StagedIn(inbox[d], gen))
                 + Cardinality(TimersOf(d, gen)) = 1
    BY DEF OneBuildPerCutover, BuildsOf, StagedIn, TimersOf
  <2>1. Token(BuildsOf(d, gen), StagedIn(inbox[d], gen), TimersOf(d, gen))
    BY <1>1 DEF StageInv, Held
  <2>2. worker[d] = NoWorker
    BY <1>1 DEF FrozenInv
  <2>. QED
    BY <2>1, <2>2, OneIsOne DEF Token
<1>. QED
  BY <1>1, FrozenInvariant, StageInvariant, PTL

------------------------------------------------------------------------------
(* One contract                                                            *)

Outcome(m) == m.kind = "apply" /\ m.snap # None

(* No reload removes a dataset that has the outcome of a refresh in the    *)
(* runtime's mailbox.  Such an outcome is applied to whatever has the      *)
(* dataset's name by then (apply_outcome looks for its table only), which  *)
(* is what the run late_apply exhibits.                                    *)
RemovesQuietly ==
  \A c \in Configs : Reload(c) =>
    \A d \in Removed(c) : \A i \in DOMAIN inbox[d] : ~Outcome(inbox[d][i])

(* All that a dataset serves, and all that is on its way to be served, is  *)
(* of the served contract; while a cutover is pending, it is ahead of what *)
(* makes the cutover land.                                                 *)
Agrees(d) ==
  IF catalog.datasets[d] # None
  THEN LET contract == catalog.datasets[d].contract
       IN  /\ snapshots[d].active # None => snapshots[d].active.contract = contract
           /\ snapshots[d].previous # None => snapshots[d].previous.contract = contract
           /\ \A i \in DOMAIN inbox[d] : Outcome(inbox[d][i]) =>
                /\ inbox[d][i].snap.contract = contract
                /\ pending[d] # None => \A j \in StagedIn(inbox[d], pending[d].gen) : i < j
  ELSE snapshots[d] = NoEntry /\ \A i \in DOMAIN inbox[d] : ~Outcome(inbox[d][i])

QuietInv ==
  /\ phase = "boot" => todo \subseteq Configured(catalog)
  /\ phase # "up" => \A d \in Dataset : \A i \in DOMAIN inbox[d] : ~Outcome(inbox[d][i])
  /\ \A d \in Dataset : Agrees(d)

(* A step of one dataset that is not a cutover.                            *)
LEMMA AgreesLocal ==
  ASSUME QuietInv, UNCHANGED catalog, todo' \subseteq todo, NEW d \in Dataset,
         \A e \in Dataset \ {d} : UNCHANGED <<snapshots[e], pending[e], inbox[e]>>,
         phase' = phase, phase # "up" => UNCHANGED inbox,
         Agrees(d)'
  PROVE  QuietInv'
<1>1. ASSUME NEW e \in Dataset, e # d PROVE Agrees(e)'
  BY <1>1 DEF QuietInv, Agrees
<1>. QED
  BY <1>1 DEF QuietInv

(* A message comes in.                                                     *)
LEMMA AppendAgrees ==
  ASSUME TypeInv, QuietInv, NEW d \in Dataset, NEW m \in Message,
         inbox' = [inbox EXCEPT ![d] = Append(@, m)],
         Outcome(m) => /\ catalog.datasets[d] # None /\ pending[d] = None
                       /\ m.snap.contract = catalog.datasets[d].contract,
         phase = "up", UNCHANGED <<phase, todo, catalog, snapshots, pending>>
  PROVE  QuietInv'
<1>1. /\ inbox[d] \in Seq(Message) /\ inbox'[d] = Append(inbox[d], m)
      /\ \A e \in Dataset \ {d} : inbox'[e] = inbox[e]
  BY TypeFacts
<1>2. PICK last : last = Len(inbox[d]) + 1
  OBVIOUS
<1>3. /\ \A i \in DOMAIN inbox[d] : inbox'[d][i] = inbox[d][i] /\ i \in Nat /\ i < last
      /\ inbox'[d][last] = m
      /\ DOMAIN inbox'[d] = DOMAIN inbox[d] \cup {last}
      /\ last \notin DOMAIN inbox[d]
  BY <1>1, <1>2, StagedAppend
<1>4. Agrees(d)
  BY DEF QuietInv
<1>5. \A g : \A j \in StagedIn(inbox'[d], g) : j \in StagedIn(inbox[d], g) \/ j = last
  BY <1>3 DEF StagedIn
<1>6. Agrees(d)'
  <2>1. CASE catalog.datasets[d] = None
    BY <1>3, <1>4, <2>1 DEF Agrees
  <2>2. CASE catalog.datasets[d] # None
    <3>1. ASSUME NEW i \in DOMAIN inbox'[d], Outcome(inbox'[d][i])
          PROVE  /\ inbox'[d][i].snap.contract = catalog.datasets[d].contract
                 /\ pending[d] # None =>
                      \A j \in StagedIn(inbox'[d], pending[d].gen) : i < j
      <4>1. CASE i = last
        BY <1>3, <3>1, <4>1
      <4>2. CASE i \in DOMAIN inbox[d]
        BY <1>3, <1>4, <1>5, <2>2, <3>1, <4>2 DEF Agrees
      <4>. QED
        BY <1>3, <4>1, <4>2
    <3>. QED
      BY <1>4, <2>2, <3>1 DEF Agrees
  <2>. QED
    BY <2>1, <2>2
<1>. QED
  BY <1>1, <1>6, AgreesLocal

(* The first message is taken: the others keep their order.                *)
LEMMA TailAgrees ==
  ASSUME TypeInv, NEW d \in Dataset, Agrees(d), inbox[d] # <<>>,
         inbox' = [inbox EXCEPT ![d] = Tail(@)]
  PROVE  /\ inbox[d] \in Seq(Message)
         /\ \A e \in Dataset \ {d} : inbox'[e] = inbox[e]
         /\ \A i \in DOMAIN inbox'[d] : i + 1 \in DOMAIN inbox[d] /\ i \in Nat
                                        /\ inbox'[d][i] = inbox[d][i + 1]
         /\ catalog.datasets[d] # None =>
              \A i \in DOMAIN inbox'[d] : Outcome(inbox'[d][i]) =>
                /\ inbox'[d][i].snap.contract = catalog.datasets[d].contract
                /\ pending[d] # None =>
                     \A j \in StagedIn(inbox'[d], pending[d].gen) : i < j
         /\ catalog.datasets[d] = None =>
              \A i \in DOMAIN inbox'[d] : ~Outcome(inbox'[d][i])
<1>1. /\ inbox[d] \in Seq(Message) /\ inbox'[d] = Tail(inbox[d])
      /\ \A e \in Dataset \ {d} : inbox'[e] = inbox[e]
  BY TypeFacts
<1>2. \A i \in DOMAIN inbox'[d] : i + 1 \in DOMAIN inbox[d] /\ i \in Nat
                                  /\ inbox'[d][i] = inbox[d][i + 1]
  <2>1. \A i \in DOMAIN Tail(inbox[d]) :
          i + 1 \in DOMAIN inbox[d] /\ i \in Nat /\ Tail(inbox[d])[i] = inbox[d][i + 1]
    BY <1>1
  <2>. QED
    BY <1>1, <2>1
<1>3. \A g : \A j \in StagedIn(inbox'[d], g) : j + 1 \in StagedIn(inbox[d], g) /\ j \in Nat
  BY <1>2 DEF StagedIn
<1>4. ASSUME catalog.datasets[d] # None, NEW i \in DOMAIN inbox'[d], Outcome(inbox'[d][i])
      PROVE  /\ inbox'[d][i].snap.contract = catalog.datasets[d].contract
             /\ pending[d] # None => \A j \in StagedIn(inbox'[d], pending[d].gen) : i < j
  <2>1. /\ inbox[d][i + 1].snap.contract = catalog.datasets[d].contract
        /\ pending[d] # None =>
             \A j \in StagedIn(inbox[d], pending[d].gen) : i + 1 < j
    BY <1>2, <1>4 DEF Agrees
  <2>2. ASSUME pending[d] # None, NEW j \in StagedIn(inbox'[d], pending[d].gen) PROVE i < j
    <3>1. i + 1 < j + 1 /\ i \in Nat /\ j \in Nat
      BY <1>2, <1>3, <2>1, <2>2
    <3>. QED
      BY <3>1
  <2>. QED
    BY <1>2, <2>1, <2>2
<1>5. ASSUME catalog.datasets[d] = None, NEW i \in DOMAIN inbox'[d]
      PROVE  ~Outcome(inbox'[d][i])
  BY <1>2, <1>5 DEF Agrees
<1>. QED
  BY <1>1, <1>2, <1>4, <1>5

LEMMA WorkerAgrees ==
  ASSUME TypeInv, FrozenInv, CrewInv, QuietInv, NEW d \in Dataset, WorkerStep(d)
  PROVE  QuietInv'
<1>1. phase = "up" /\ UNCHANGED <<phase, todo, catalog, snapshots, pending>>
  BY DEF WorkerStep, Manual, Poll, RefreshNow, WorkerRead, WorkerSkip, WorkerBuild,
     WorkerBuilt, WorkerRejects, WorkerDies
<1>2. CASE WorkerSkip(d) \/ WorkerRejects(d)
  <2>1. PICK m \in Message : m = [kind |-> "apply", snap |-> None]
    BY MessageType
  <2>2. inbox' = [inbox EXCEPT ![d] = Append(@, m)] /\ ~Outcome(m)
    BY <1>2, <2>1 DEF WorkerSkip, WorkerRejects, Call, Outcome
  <2>. QED
    BY <1>1, <2>2, AppendAgrees
<1>3. CASE WorkerBuilt(d)
  <2>1. worker[d].snap \in Snap \cup {None} /\ worker[d] # NoWorker /\ worker[d].st = "building"
    BY <1>3, TypeFacts, WorkerFields DEF WorkerBuilt, NoWorker
  <2>2. PICK m \in Message : m = [kind |-> "apply", snap |-> worker[d].snap]
    BY <2>1, MessageType
  <2>3. /\ inbox' = [inbox EXCEPT ![d] = Append(@, m)] /\ m.snap = worker[d].snap
    BY <1>3, <2>2 DEF WorkerBuilt, Call
  <2>4. /\ worker[d].def = catalog.datasets[d] /\ worker[d].def # None
        /\ worker[d].snap.contract = worker[d].def.contract
    BY <2>1, TypeFacts DEF CrewInv, ShapedWorker
  <2>5. pending[d] = None
    BY <2>1 DEF FrozenInv
  <2>. QED
    BY <1>1, <2>3, <2>4, <2>5, AppendAgrees
<1>4. CASE UNCHANGED inbox
  BY <1>1, <1>4 DEF QuietInv, Agrees
<1>. QED
  BY <1>2, <1>3, <1>4 DEF WorkerStep, Manual, Poll, RefreshNow, WorkerRead, WorkerBuild, WorkerDies

LEMMA ApplyingAgrees ==
  ASSUME TypeInv, QuietInv, NEW d \in Dataset,
         ApplyUnchanged(d) \/ ApplySwap(d) \/ ApplyLost(d)
  PROVE  QuietInv'
<1>1. /\ phase = "up" /\ inbox[d] # <<>> /\ inbox' = [inbox EXCEPT ![d] = Tail(@)]
      /\ UNCHANGED <<phase, todo, catalog, pending>> /\ Agrees(d)
  BY DEF ApplyUnchanged, ApplySwap, ApplyLost, Applying, Answer, QuietInv
<1>2. /\ inbox[d] \in Seq(Message)
      /\ \A e \in Dataset \ {d} : inbox'[e] = inbox[e]
      /\ catalog.datasets[d] # None =>
           \A i \in DOMAIN inbox'[d] : Outcome(inbox'[d][i]) =>
             /\ inbox'[d][i].snap.contract = catalog.datasets[d].contract
             /\ pending[d] # None =>
                  \A j \in StagedIn(inbox'[d], pending[d].gen) : i < j
      /\ catalog.datasets[d] = None =>
           \A i \in DOMAIN inbox'[d] : ~Outcome(inbox'[d][i])
  BY <1>1, TailAgrees
<1>3. CASE UNCHANGED snapshots
  <2>1. Agrees(d)'
    BY <1>1, <1>2, <1>3 DEF Agrees
  <2>. QED
    BY <1>1, <1>2, <1>3, <2>1, AgreesLocal
<1>4. CASE ApplySwap(d)
  <2>1. /\ 1 \in DOMAIN inbox[d] /\ inbox[d][1] = Head(inbox[d]) /\ Outcome(inbox[d][1])
    BY <1>1, <1>2, <1>4 DEF ApplySwap, Applying, Outcome
  <2>2. /\ catalog.datasets[d] # None
        /\ Head(inbox[d]).snap.contract = catalog.datasets[d].contract
    BY <1>1, <2>1 DEF Agrees
  <2>3. /\ snapshots'[d] = [active |-> Head(inbox[d]).snap, previous |-> snapshots[d].active,
                            quarantined |-> None]
        /\ \A e \in Dataset \ {d} : snapshots'[e] = snapshots[e]
    BY <1>4, TypeFacts DEF ApplySwap, SwapIn
  <2>4. snapshots'[d].active = Head(inbox[d]).snap /\ snapshots'[d].previous = snapshots[d].active
    BY <2>3
  <2>5. Agrees(d)'
    BY <1>1, <1>2, <2>2, <2>4 DEF Agrees
  <2>. QED
    BY <1>1, <1>2, <2>3, <2>5, AgreesLocal
<1>. QED
  BY <1>3, <1>4 DEF ApplyUnchanged, ApplyLost

(* A result that does not land leaves the rest as it is.                   *)
LEMMA StagedAgrees ==
  ASSUME TypeInv, QuietInv, NEW d \in Dataset, StageNotReady(d) \/ StageSuperseded(d)
  PROVE  QuietInv'
<1>1. /\ phase = "up" /\ inbox[d] # <<>> /\ inbox' = [inbox EXCEPT ![d] = Tail(@)]
      /\ UNCHANGED <<phase, todo, catalog, pending, snapshots>> /\ Agrees(d)
  BY DEF StageNotReady, StageSuperseded, Delivering, QuietInv
<1>2. /\ \A e \in Dataset \ {d} : inbox'[e] = inbox[e]
      /\ catalog.datasets[d] # None =>
           \A i \in DOMAIN inbox'[d] : Outcome(inbox'[d][i]) =>
             /\ inbox'[d][i].snap.contract = catalog.datasets[d].contract
             /\ pending[d] # None =>
                  \A j \in StagedIn(inbox'[d], pending[d].gen) : i < j
      /\ catalog.datasets[d] = None =>
           \A i \in DOMAIN inbox'[d] : ~Outcome(inbox'[d][i])
  BY <1>1, TailAgrees
<1>3. Agrees(d)'
  BY <1>1, <1>2 DEF Agrees
<1>. QED
  BY <1>1, <1>2, <1>3, AgreesLocal

(* When a cutover lands no outcome of the old contract is left: each was   *)
(* in the mailbox before the staging task was started.                     *)
LEMMA CutoverAgrees ==
  ASSUME TypeInv, FrozenInv, StageInv, QuietInv, NEW d \in Dataset, Cutover(d)
  PROVE  QuietInv'
<1>1. /\ phase = "up" /\ inbox[d] # <<>> /\ inbox' = [inbox EXCEPT ![d] = Tail(@)]
      /\ UNCHANGED <<phase, todo>> /\ Agrees(d) /\ Held(d)
      /\ pending[d] # None /\ pending[d] \in Pending /\ catalog.datasets[d] # None
  BY TypeFacts
  DEF Cutover, Delivering, Lands, Current, QuietInv, StageInv, FrozenInv, Configured
<1>2. /\ inbox[d] \in Seq(Message)
      /\ \A e \in Dataset \ {d} : inbox'[e] = inbox[e]
      /\ \A i \in DOMAIN inbox'[d] : i + 1 \in DOMAIN inbox[d] /\ i \in Nat
                                     /\ inbox'[d][i] = inbox[d][i + 1]
  BY <1>1, TailAgrees
<1>3. /\ 1 \in StagedIn(inbox[d], pending[d].gen) /\ inbox[d][1] = Head(inbox[d])
      /\ Head(inbox[d]).snap # None
  BY <1>1, <1>2 DEF Cutover, Delivering, Lands, Current, StagedIn
<1>4. ASSUME NEW i \in DOMAIN inbox'[d] PROVE ~Outcome(inbox'[d][i])
  <2>1. i + 1 \in DOMAIN inbox[d] /\ i \in Nat /\ inbox'[d][i] = inbox[d][i + 1]
    BY <1>2
  <2>2. Outcome(inbox[d][i + 1]) => i + 1 < 1
    BY <1>1, <1>3, <2>1 DEF Agrees
  <2>. QED
    BY <2>1, <2>2
<1>5. /\ snapshots'[d] = [active |-> Head(inbox[d]).snap, previous |-> None,
                          quarantined |-> None]
      /\ catalog'.datasets[d] = pending[d].def
      /\ \A e \in Dataset \ {d} : /\ snapshots'[e] = snapshots[e] /\ pending'[e] = pending[e]
                                  /\ catalog'.datasets[e] = catalog.datasets[e]
  BY TypeFacts DEF Cutover, Promoted, Catalog
<1>6. snapshots'[d].active = Head(inbox[d]).snap /\ snapshots'[d].previous = None
  BY <1>5
<1>7. Head(inbox[d]).snap.contract = pending[d].def.contract /\ pending[d].def # None
  BY <1>1, <1>3, NoneAssumption DEF Held, Pending, Def
<1>8. Agrees(d)'
  BY <1>4, <1>5, <1>6, <1>7 DEF Agrees
<1>9. ASSUME NEW e \in Dataset, e # d PROVE Agrees(e)'
  BY <1>2, <1>5, <1>9 DEF Agrees, QuietInv
<1>10. phase' # "boot"
  BY <1>1
<1>. QED
  BY <1>1, <1>8, <1>9, <1>10 DEF QuietInv

LEMMA StagingAgrees ==
  ASSUME TypeInv, QuietInv, NEW b \in builds, Stage(b)
  PROVE  QuietInv'
<1>1. PICK d \in Dataset : d = b.dataset
  BY TypeFacts DEF Build
<1>2. PICK m \in Message : inbox' = [inbox EXCEPT ![d] = Append(@, m)] /\ ~Outcome(m)
  <2>1. CASE StageOk(b)
    <3>1. PICK id \in SnapshotId :
            inbox' = [inbox EXCEPT ![d] =
              Append(@, [kind |-> "staged", gen |-> b.gen,
                         snap |-> Built(id, b.table, b.def, b.def.path)])]
      BY <1>1, <2>1 DEF StageOk
    <3>2. Built(id, b.table, b.def, b.def.path) \in Snap /\ b.gen \in Nat
      BY TypeFacts, BuiltType DEF Build, Def
    <3>. QED
      BY <3>1, <3>2, MessageType DEF Outcome
  <2>2. CASE StageRejects(b) \/ StageDies(b)
    <3>1. b.gen \in Nat
      BY TypeFacts DEF Build
    <3>. QED
      BY <1>1, <2>2, <3>1, MessageType DEF StageRejects, StageDies, StageNothing, Outcome
  <2>. QED
    BY <2>1, <2>2 DEF Stage
<1>3. phase = "up" /\ UNCHANGED <<phase, todo, catalog, snapshots, pending>>
  BY DEF Stage, StageOk, StageRejects, StageDies, StageNothing
<1>. QED
  BY <1>2, <1>3, AppendAgrees

LEMMA RollbackAgrees ==
  ASSUME TypeInv, QuietInv, NEW d \in Dataset, Rollback(d)
  PROVE  QuietInv'
<1>. DEFINE old == snapshots[d]
            new == [active |-> old.previous, previous |-> old.active,
                    quarantined |-> IF old.active = None THEN None ELSE old.active.id]
<1>1. /\ phase = "up" /\ old.previous # None /\ snapshots'[d] = new /\ Agrees(d)
      /\ \A e \in Dataset \ {d} : snapshots'[e] = snapshots[e]
      /\ UNCHANGED <<phase, todo, catalog, pending, inbox>>
  BY TypeFacts DEF Rollback, QuietInv
<1>2. snapshots'[d].active = old.previous /\ snapshots'[d].previous = old.active
  BY <1>1
<1>3. Agrees(d)'
  BY <1>1, <1>2 DEF Agrees, NoEntry
<1>. QED
  BY <1>1, <1>3, AgreesLocal

LEMMA BootRefreshAgrees ==
  ASSUME TypeInv, QuietInv, NEW d \in Dataset, BootRefresh(d)
  PROVE  QuietInv'
<1>1. /\ phase = "boot" /\ d \in todo /\ todo' \subseteq todo /\ Agrees(d)
      /\ UNCHANGED <<phase, catalog, pending, inbox>>
  BY DEF BootRefresh, QuietInv
<1>2. PICK snap :
        /\ snap.contract = catalog.datasets[d].contract
        /\ snapshots' = [snapshots EXCEPT ![d] =
             [active |-> snap, previous |-> snapshots[d].active, quarantined |-> None]]
  BY DEF BootRefresh, SwapIn, Built
<1>3. /\ snapshots'[d].active = snap /\ snapshots'[d].previous = snapshots[d].active
      /\ \A e \in Dataset \ {d} : snapshots'[e] = snapshots[e]
  BY <1>2, TypeFacts
<1>4. catalog.datasets[d] # None
  BY <1>1 DEF QuietInv, Configured
<1>5. Agrees(d)'
  BY <1>1, <1>2, <1>3, <1>4 DEF Agrees
<1>. QED
  BY <1>1, <1>3, <1>5, AgreesLocal

LEMMA BootAgrees ==
  ASSUME TypeInv, FrozenInv, QuietInv, NEW c \in Configs, Boot(c)
  PROVE  QuietInv'
<1>1. /\ phase = "down" /\ todo' = Configured(c) /\ catalog' = c /\ UNCHANGED inbox
      /\ \A d \in Dataset : snapshots'[d] = Seeded(c, d)
      /\ \A d \in Dataset : \A i \in DOMAIN inbox[d] : ~Outcome(inbox[d][i])
  BY DEF Boot, QuietInv
<1>2. ASSUME NEW d \in Dataset PROVE Agrees(d)'
  <2>1. CASE c.datasets[d] = None
    <3>1. Seeded(c, d) = NoEntry
      BY <2>1 DEF Seeded
    <3>. QED
      BY <1>1, <2>1, <3>1 DEF Agrees
  <2>2. CASE c.datasets[d] # None
    <3>. DEFINE entry == Seeded(c, d)
    <3>1. \/ entry = NoEntry
          \/ /\ entry = sidecar[d] /\ SameBuild(sidecar[d].active, c.datasets[d])
             /\ SameBuild(sidecar[d].previous, sidecar[d].active)
          \/ /\ entry = [sidecar[d] EXCEPT !.previous = None]
             /\ SameBuild(sidecar[d].active, c.datasets[d])
      BY DEF Seeded
    <3>2. /\ entry.active # None => entry.active.contract = c.datasets[d].contract
          /\ entry.previous # None => entry.previous.contract = c.datasets[d].contract
      <4>1. CASE entry = NoEntry
        BY <4>1 DEF NoEntry
      <4>2. CASE /\ entry = sidecar[d] /\ SameBuild(sidecar[d].active, c.datasets[d])
                 /\ SameBuild(sidecar[d].previous, sidecar[d].active)
        BY <4>2 DEF SameBuild
      <4>3. CASE /\ entry = [sidecar[d] EXCEPT !.previous = None]
                 /\ SameBuild(sidecar[d].active, c.datasets[d])
        <5>1. entry.active = sidecar[d].active /\ entry.previous = None
          BY <4>3, TypeFacts DEF Entry
        <5>. QED
          BY <4>3, <5>1 DEF SameBuild
      <4>. QED
        BY <3>1, <4>1, <4>2, <4>3
    <3>. HIDE DEF entry
    <3>3. snapshots'[d] = entry
      BY <1>1 DEF entry
    <3>. QED
      BY <1>1, <2>2, <3>2, <3>3 DEF Agrees
  <2>. QED
    BY <2>1, <2>2
<1>. QED
  BY <1>1, <1>2 DEF QuietInv

(* A dataset that stays keeps the contract it serves: a change of contract *)
(* is staged.                                                              *)
LEMMA ReloadKeeps ==
  ASSUME TypeInv, FrozenInv, NEW c \in Configs, Reload(c), NEW d \in Dataset,
         d \notin Removed(c), catalog.datasets[d] # None
  PROVE  /\ catalog'.datasets[d] # None
         /\ catalog'.datasets[d].contract = catalog.datasets[d].contract
<1>1. pending' = PendingAfter(c) /\ catalog' = Overlay(c, pending')
  BY DEF Reload
<1>2. catalog'.datasets[d] = IF pending'[d] # None THEN catalog.datasets[d]
                             ELSE c.datasets[d]
  BY <1>1 DEF Overlay
<1>3. c.datasets[d] # None
  BY DEF Removed, Configured
<1>4. ASSUME d \in Staged(c) PROVE pending'[d] # None
  <2>1. d \in Restaged(c) \/ pending[d] # None
    BY <1>4 DEF Restaged
  <2>2. d \notin InPlace(c)
    BY <1>4 DEF InPlace
  <2>3. CASE d \in Restaged(c)
    <3>1. pending'[d] \in Pending
      BY <1>1, <2>3, ConfigType, RestagedPending
    <3>. QED
      BY <3>1, NoneAssumption DEF Pending, Def, Ep
  <2>4. CASE d \notin Restaged(c)
    BY <1>1, <2>1, <2>2, <2>4 DEF PendingAfter
  <2>. QED
    BY <2>3, <2>4
<1>5. CASE pending'[d] # None
  BY <1>2, <1>5
<1>6. CASE pending'[d] = None
  <2>1. d \notin Staged(c) \/ c.datasets[d] = catalog.datasets[d]
    BY <1>4, <1>6
  <2>2. catalog'.datasets[d] = c.datasets[d]
    BY <1>2, <1>6
  <2>. QED
    BY <1>3, <2>1, <2>2 DEF Staged, Touched, Configured
<1>. QED
  BY <1>5, <1>6

(* What is staged anew lands behind what is queued now.                    *)
LEMMA ReloadAgrees ==
  ASSUME TypeInv, FrozenInv, StageInv, QuietInv, RemovesQuietly, NEW c \in Configs, Reload(c)
  PROVE  QuietInv'
<1>1. /\ phase = "up" /\ UNCHANGED <<phase, todo, inbox>>
      /\ catalog' = Overlay(c, pending') /\ snapshots' = Remaining(c)
      /\ pending' = PendingAfter(c)
  BY DEF Reload
<1>2. ASSUME NEW d \in Dataset PROVE Agrees(d)'
  <2>0. Agrees(d) /\ Past(d) /\ stageGen[d] \in Nat
    BY DEF QuietInv, StageInv, TypeInv, TypeOK
  <2>2. CASE d \in Removed(c)
    <3>1. catalog'.datasets[d] = None /\ snapshots'[d] = NoEntry
      BY <1>1, <2>2, RemovedGoes DEF Configured, Remaining
    <3>. QED
      BY <1>1, <2>2, <3>1 DEF Agrees, RemovesQuietly
  <2>3. CASE d \notin Removed(c) /\ catalog.datasets[d] = None
    <3>1. snapshots'[d] = NoEntry /\ \A i \in DOMAIN inbox'[d] : ~Outcome(inbox'[d][i])
      BY <1>1, <2>0, <2>3 DEF Remaining, Agrees
    <3>2. snapshots'[d].active = None /\ snapshots'[d].previous = None
      BY <3>1 DEF NoEntry
    <3>. QED
      BY <3>1, <3>2 DEF Agrees
  <2>4. CASE d \notin Removed(c) /\ catalog.datasets[d] # None
    <3>1. snapshots'[d] = snapshots[d] /\ c.datasets[d] # None
      BY <1>1, <2>4 DEF Remaining, Removed, Configured
    <3>2. /\ catalog'.datasets[d] # None
          /\ catalog'.datasets[d].contract = catalog.datasets[d].contract
      BY <2>4, ReloadKeeps
    <3>3. ASSUME pending'[d] # None, NEW i \in DOMAIN inbox[d], Outcome(inbox[d][i]),
                 NEW j \in StagedIn(inbox[d], pending'[d].gen)
          PROVE  i < j
      <4>1. CASE d \in Restaged(c)
        <5>1. pending'[d] = [gen |-> stageGen[d] + 1, def |-> c.datasets[d],
                             endpoints |-> EndpointsOf(c, d)]
          BY <3>3, <4>1, ReloadPending
        <5>2. pending'[d].gen = stageGen[d] + 1
          BY <5>1
        <5>3. inbox[d][j].gen <= stageGen[d] /\ inbox[d][j].gen = stageGen[d] + 1
          BY <2>0, <3>3, <5>2 DEF StagedIn, Past
        <5>. QED
          BY <2>0, <5>3
      <4>2. CASE d \notin Restaged(c)
        <5>1. pending'[d] = pending[d]
          BY <3>3, <4>2, ReloadPending
        <5>. QED
          BY <2>0, <2>4, <3>3, <5>1 DEF Agrees
      <4>. QED
        BY <4>1, <4>2
    <3>. QED
      BY <1>1, <2>0, <2>4, <3>1, <3>2, <3>3 DEF Agrees
  <2>. QED
    BY <2>2, <2>3, <2>4
<1>. QED
  BY <1>1, <1>2 DEF QuietInv

LEMMA QuietStep ==
  ASSUME TypeInv, FrozenInv, CrewInv, StageInv, QuietInv, [Next]_vars, [RemovesQuietly]_vars
  PROVE  QuietInv'
<1>0. ASSUME UNCHANGED <<phase, todo, catalog, snapshots, pending, inbox>> PROVE QuietInv'
  BY <1>0 DEF QuietInv, Agrees
<1>1. ASSUME NEW d \in Dataset, WorkerStep(d) PROVE QuietInv'
  BY <1>1, WorkerAgrees
<1>2. ASSUME NEW d \in Dataset, Handle(d) PROVE QuietInv'
  BY <1>2, ApplyingAgrees, CutoverAgrees, StagedAgrees DEF Handle
<1>3. ASSUME NEW d \in Dataset, Rollback(d) PROVE QuietInv'
  BY <1>3, RollbackAgrees
<1>4. ASSUME NEW d \in Dataset, BootRefresh(d) PROVE QuietInv'
  BY <1>4, BootRefreshAgrees
<1>5. ASSUME NEW d \in Dataset, BootSkip(d) PROVE QuietInv'
  BY <1>5 DEF BootSkip, QuietInv, Agrees
<1>6. ASSUME NEW c \in Configs, Reload(c) PROVE QuietInv'
  <2>1. spent' # spent
    <3>1. spent["reload"] \in Nat /\ spent'["reload"] = spent["reload"] + 1
      BY <1>6, TypeFacts DEF Reload, Spend, Bounded
    <3>. QED
      BY <3>1
  <2>2. RemovesQuietly
    BY <2>1 DEF vars
  <2>. QED
    BY <1>6, <2>2, ReloadAgrees
<1>7. ASSUME NEW c \in Configs, Boot(c) PROVE QuietInv'
  BY <1>7, BootAgrees
<1>8. ASSUME NEW b \in builds, Stage(b) PROVE QuietInv'
  BY <1>8, StagingAgrees
<1>9. ASSUME NEW r \in retries, RetryStage(r) PROVE QuietInv'
  BY <1>9, <1>0 DEF RetryStage
<1>10. ASSUME NEW t \in retiring, EngineDrop(t) PROVE QuietInv'
  BY <1>10, <1>0 DEF EngineDrop
<1>11. CASE Crash
  BY <1>11 DEF Crash, QuietInv, Agrees, NoCatalog
<1>12. CASE BootFinish
  BY <1>12 DEF BootFinish, QuietInv, Agrees
<1>13. CASE UNCHANGED vars
  BY <1>13, <1>0 DEF vars
<1>. QED
  BY <1>1, <1>2, <1>3, <1>4, <1>5, <1>6, <1>7, <1>8, <1>9, <1>10, <1>11, <1>12, <1>13
  DEF Next

LEMMA QuietInvariant == Spec /\ [][RemovesQuietly]_vars => []QuietInv
<1>1. Init => QuietInv
  BY DEF Init, QuietInv, Agrees, NoCatalog
<1>2. TypeInv /\ FrozenInv /\ CrewInv /\ StageInv /\ QuietInv
        /\ [Next]_vars /\ [RemovesQuietly]_vars => QuietInv'
  BY QuietStep
<1>. QED
  BY <1>1, <1>2, TypeInvariant, FrozenInvariant, CrewInvariant, StageInvariant, PTL DEF Spec

(* Unless a reload removes a dataset while the outcome of one of its       *)
(* refreshes is in the mailbox, no handler and no crash ever leaves a      *)
(* dataset whose table, rollback target or endpoints are of another        *)
(* contract than the one it serves ("never a mix", cutover; swap_in).      *)
THEOREM ServesOneContract == Spec /\ [][RemovesQuietly]_vars => []OneContract
<1>1. ASSUME PlanInv, QuietInv PROVE OneContract
  BY <1>1 DEF QuietInv, Agrees, PlanInv, Fits, OneContract, Configured
<1>. QED
  BY <1>1, PlanInvariant, QuietInvariant, PTL

(* The endpoints never depend on that: each was compiled against the       *)
(* contract its dataset serves, whatever is removed when.                  *)
THEOREM EndpointsFit ==
  Spec => [](\A e \in Endpoint : Fits(catalog, e))
<1>. QED
  BY PlanInvariant, PTL DEF PlanInv

------------------------------------------------------------------------------
(* What readers see is a Serving                                           *)

LEMMA SeenSnapType ==
  ASSUME NEW s \in Snap \cup {None}
  PROVE  /\ SeenSnap(s) = None <=> s = None
         /\ s # None => /\ SeenSnap(s) \in [id : SnapshotId, contract : Contract]
                        /\ SeenSnap(s).id = s.id
                        /\ SeenSnap(s).contract = s.contract
<1>1. CASE s = None
  BY <1>1 DEF SeenSnap
<1>2. CASE s # None
  <2>1. /\ SeenSnap(s) = [id |-> s.id, contract |-> s.contract]
        /\ s.id \in SnapshotId /\ s.contract \in Contract
    BY <1>2 DEF SeenSnap, Snap
  <2>2. SeenSnap(s) \in [id : SnapshotId, contract : Contract]
    BY <2>1
  <2>3. SeenSnap(s).id = s.id /\ SeenSnap(s).contract = s.contract
    BY <2>1
  <2>. QED
    BY <1>2, <2>2, <2>3, NoneAssumption
<1>. QED
  BY <1>1, <1>2

(* A dataset that readers see, and one that they do not.                   *)
LEMMA SeenOffered ==
  ASSUME TypeInv, NEW d \in Dataset, SeenUp, catalog.datasets[d] # None
  PROVE  /\ SeenContracts[d] = catalog.datasets[d].contract
         /\ SeenContracts[d] \in Contract /\ SeenContracts[d] # None
         /\ SeenSnapshots[d] = [active   |-> SeenSnap(snapshots[d].active),
                                previous |-> SeenSnap(snapshots[d].previous),
                                barred   |-> snapshots[d].quarantined]
         /\ SeenSnapshots[d].active = SeenSnap(snapshots[d].active)
         /\ SeenSnapshots[d].previous = SeenSnap(snapshots[d].previous)
         /\ SeenSnapshots[d].barred = snapshots[d].quarantined
<1>1. catalog.datasets[d].contract \in Contract
  BY TypeFacts DEF Catalog, Def
<1>2. SeenSnapshots[d] = [active   |-> SeenSnap(snapshots[d].active),
                          previous |-> SeenSnap(snapshots[d].previous),
                          barred   |-> snapshots[d].quarantined]
  BY DEF SeenSnapshots, SeenServes, SeenUp
<1>. QED
  BY <1>1, <1>2, NoneAssumption DEF SeenContracts

LEMMA SeenNothing ==
  ASSUME NEW d \in Dataset, ~SeenUp \/ catalog.datasets[d] = None
  PROVE  /\ SeenContracts[d] = None
         /\ SeenSnapshots[d] = [active |-> None, previous |-> None, barred |-> None]
  BY DEF SeenContracts, SeenSnapshots, SeenServes, SeenUp

LEMMA SeenConsistent ==
  ASSUME TypeInv, PlanInv, QuietInv, FailClosed
  PROVE  Reader!Consistent
<1>1. ASSUME NEW d \in Dataset,
             NEW s \in {SeenSnapshots[d].active, SeenSnapshots[d].previous} \ {None}
      PROVE  /\ s \in [id : SnapshotId, contract : Contract]
             /\ s.contract = SeenContracts[d]
  <2>1. CASE ~SeenUp \/ catalog.datasets[d] = None
    <3>1. SeenSnapshots[d] = [active |-> None, previous |-> None, barred |-> None]
      BY <2>1, SeenNothing
    <3>2. SeenSnapshots[d].active = None /\ SeenSnapshots[d].previous = None
      BY <3>1
    <3>. QED
      BY <1>1, <3>2
  <2>2. CASE SeenUp /\ catalog.datasets[d] # None
    <3>1. PICK t \in {snapshots[d].active, snapshots[d].previous} : s = SeenSnap(t)
      BY <1>1, <2>2, SeenOffered
    <3>2. t \in Snap \cup {None} /\ t # None
      BY <1>1, <3>1, TypeFacts DEF Entry, SeenSnap
    <3>3. t.contract = catalog.datasets[d].contract
      BY <2>2, <3>1, <3>2 DEF QuietInv, Agrees
    <3>. QED
      BY <2>2, <3>1, <3>2, <3>3, SeenSnapType, SeenOffered
  <2>. QED
    BY <2>1, <2>2
<1>2. ASSUME NEW e \in Endpoint, SeenEndpoints[e] # None
      PROVE  /\ SeenContracts[SeenEndpoints[e].dataset] = SeenEndpoints[e].contract
             /\ SeenEndpoints[e].contract \in Tenanted => ~SeenOpen
  <2>1. SeenUp /\ SeenEndpoints[e] = catalog.endpoints[e] /\ catalog.endpoints[e] # None
    BY <1>2 DEF SeenEndpoints
  <2>2. /\ catalog.endpoints[e].dataset \in Dataset
        /\ catalog.datasets[catalog.endpoints[e].dataset] # None
        /\ catalog.datasets[catalog.endpoints[e].dataset].contract
             = catalog.endpoints[e].contract
    BY <2>1, TypeFacts DEF Catalog, Ep, PlanInv, Fits
  <2>3. SeenContracts[SeenEndpoints[e].dataset] = SeenEndpoints[e].contract
    BY <2>1, <2>2, SeenOffered
  <2>4. SeenEndpoints[e].contract \in Tenanted => ~SeenOpen
    BY <2>1 DEF FailClosed, SeenOpen
  <2>. QED
    BY <2>3, <2>4
<1>. QED
  BY <1>1, <1>2 DEF Reader!Consistent, Reader!Snapshot

LEMMA SeenConsistentNext ==
  TypeInv' /\ PlanInv' /\ QuietInv' /\ FailClosed' => Reader!Consistent'
<1>1. TypeInv /\ PlanInv /\ QuietInv /\ FailClosed => Reader!Consistent
  BY SeenConsistent
<1>. QED
  BY <1>1, PTL

LEMMA SeenInit == Init => Reader!Init
<1>1. ASSUME Init PROVE Reader!Init
  <2>1. ~SeenUp
    BY <1>1 DEF Init, SeenUp
  <2>2. SeenSnapshots = [d \in Dataset |-> Reader!Nothing]
    BY <2>1, SeenNothing DEF SeenSnapshots, Reader!Nothing
  <2>. QED
    BY <2>1, <2>2 DEF Reader!Init, Reader!Off, SeenContracts, SeenEndpoints, SeenOpen
<1>. QED
  BY <1>1

(* No step of these changes what readers see of the catalog.               *)
LEMMA SeenStutters ==
  ASSUME UNCHANGED <<catalog, snapshots>>, phase = "down" <=> phase' = "down"
  PROVE  UNCHANGED <<SeenUp, SeenContracts, SeenEndpoints, SeenOpen, SeenSnapshots>>
  BY DEF SeenUp, SeenContracts, SeenEndpoints, SeenOpen, SeenSnapshots, SeenServes

(* What readers get for a dataset.                                         *)
Shows(d) ==
  IF SeenUp /\ catalog.datasets[d] # None
  THEN /\ SeenContracts[d] = catalog.datasets[d].contract
       /\ SeenContracts[d] # None
       /\ SeenSnapshots[d] = [active   |-> SeenSnap(snapshots[d].active),
                              previous |-> SeenSnap(snapshots[d].previous),
                              barred   |-> snapshots[d].quarantined]
  ELSE /\ SeenContracts[d] = None
       /\ SeenSnapshots[d] = [active |-> None, previous |-> None, barred |-> None]

LEMMA ShowsAll == TypeInv => \A d \in Dataset : Shows(d)
  BY SeenOffered, SeenNothing DEF Shows

LEMMA ShowsAllNext == TypeInv' => (\A d \in Dataset : Shows(d))'
  BY ShowsAll, PTL

LEMMA ShowsOther ==
  ASSUME NEW e \in Dataset, SeenUp' = SeenUp, UNCHANGED <<catalog.datasets[e], snapshots[e]>>
  PROVE  SeenSnapshots'[e] = SeenSnapshots[e] /\ SeenContracts'[e] = SeenContracts[e]
  BY DEF SeenSnapshots, SeenServes, SeenUp, SeenContracts

LEMMA ShowsChange ==
  ASSUME NEW d \in Dataset, NEW v, SeenSnapshots'[d] = v,
         \A e \in Dataset \ {d} : SeenSnapshots'[e] = SeenSnapshots[e]
  PROVE  SeenSnapshots' = [SeenSnapshots EXCEPT ![d] = v]
  BY DEF SeenSnapshots

(* A refresh, by a worker's outcome or in init.                            *)
LEMMA SwapRefreshes ==
  ASSUME TypeInv, TypeInv', QuietInv, QuietInv', NEW d \in Dataset, NEW snap \in Snap,
         SwapIn(d, snap), UNCHANGED <<phase, catalog>>, phase # "down",
         catalog.datasets[d] # None
  PROVE  Reader!Refresh(d)
<1>1. /\ SeenUp /\ SeenUp' = SeenUp
      /\ UNCHANGED <<SeenContracts, SeenEndpoints, SeenOpen>>
  BY DEF SeenUp, SeenContracts, SeenEndpoints, SeenOpen
<1>2. /\ snapshots'[d] = [active |-> snap, previous |-> snapshots[d].active,
                          quarantined |-> None]
      /\ \A e \in Dataset \ {d} : snapshots'[e] = snapshots[e]
  BY TypeFacts DEF SwapIn
<1>3. /\ snapshots'[d].active = snap /\ snapshots'[d].previous = snapshots[d].active
      /\ snapshots'[d].quarantined = None
  BY <1>2
<1>4. Shows(d) /\ Shows(d)'
  BY ShowsAll, ShowsAllNext
<1>5. /\ SeenSnapshots'[d] = [active   |-> SeenSnap(snap),
                              previous |-> SeenSnap(snapshots[d].active),
                              barred   |-> None]
      /\ SeenSnapshots[d] = [active   |-> SeenSnap(snapshots[d].active),
                             previous |-> SeenSnap(snapshots[d].previous),
                             barred   |-> snapshots[d].quarantined]
      /\ SeenContracts[d] # None /\ SeenContracts[d] = catalog.datasets[d].contract
  BY <1>1, <1>3, <1>4 DEF Shows
<1>6. /\ SeenSnapshots'[d].active = SeenSnap(snap)
      /\ SeenSnapshots[d].active = SeenSnap(snapshots[d].active)
  BY <1>5
<1>7. snap # None /\ snap.contract = catalog.datasets[d].contract
  BY <1>3, NoneAssumption DEF QuietInv, Agrees, Snap
<1>8. /\ SeenSnapshots'[d].active # None
      /\ SeenSnapshots'[d].active.contract = SeenContracts[d]
  BY <1>5, <1>6, <1>7, SeenSnapType
<1>9. SeenSnapshots' = [SeenSnapshots EXCEPT ![d] =
         [active |-> SeenSnapshots'[d].active, previous |-> SeenSnapshots[d].active,
          barred |-> None]]
  <2>1. \A e \in Dataset \ {d} : SeenSnapshots'[e] = SeenSnapshots[e]
    BY <1>1, <1>2, ShowsOther
  <2>. QED
    BY <1>5, <1>6, <2>1, ShowsChange
<1>10. SeenSnapshots' = [SeenSnapshots EXCEPT ![d] =
          [active |-> SeenSnapshots'[d].active, previous |-> @.active, barred |-> None]]
  BY <1>9 DEF SeenSnapshots
<1>. QED
  BY <1>1, <1>5, <1>8, <1>10 DEF Reader!Refresh, Reader!Offered

LEMMA RollbackRollsBack ==
  ASSUME TypeInv, TypeInv', QuietInv, NEW d \in Dataset, Rollback(d)
  PROVE  Reader!RollBack(d)
<1>1. /\ SeenUp /\ SeenUp' = SeenUp
      /\ UNCHANGED <<SeenContracts, SeenEndpoints, SeenOpen>>
      /\ UNCHANGED catalog
  BY DEF SeenUp, SeenContracts, SeenEndpoints, SeenOpen, Rollback
<1>2. /\ snapshots[d].previous # None
      /\ snapshots'[d] =
           [active |-> snapshots[d].previous, previous |-> snapshots[d].active,
            quarantined |-> IF snapshots[d].active = None THEN None
                            ELSE snapshots[d].active.id]
      /\ \A e \in Dataset \ {d} : snapshots'[e] = snapshots[e]
  BY TypeFacts DEF Rollback
<1>3. /\ snapshots'[d].active = snapshots[d].previous
      /\ snapshots'[d].previous = snapshots[d].active
      /\ snapshots'[d].quarantined = IF snapshots[d].active = None THEN None
                                     ELSE snapshots[d].active.id
  BY <1>2
<1>4. catalog.datasets[d] # None
  BY <1>2 DEF QuietInv, Agrees, NoEntry
<1>5. Shows(d) /\ Shows(d)'
  BY ShowsAll, ShowsAllNext
<1>6. /\ SeenSnapshots'[d] = [active   |-> SeenSnap(snapshots[d].previous),
                              previous |-> SeenSnap(snapshots[d].active),
                              barred   |-> snapshots'[d].quarantined]
      /\ SeenSnapshots[d] = [active   |-> SeenSnap(snapshots[d].active),
                             previous |-> SeenSnap(snapshots[d].previous),
                             barred   |-> snapshots[d].quarantined]
  BY <1>1, <1>3, <1>4, <1>5 DEF Shows
<1>7. /\ SeenSnapshots[d].active = SeenSnap(snapshots[d].active)
      /\ SeenSnapshots[d].previous = SeenSnap(snapshots[d].previous)
      /\ snapshots[d].active \in Snap \cup {None} /\ snapshots[d].previous \in Snap \cup {None}
  BY <1>6, TypeFacts DEF Entry
<1>8. /\ SeenSnapshots[d].previous # None
      /\ snapshots'[d].quarantined = IF SeenSnapshots[d].active = None THEN None
                                     ELSE SeenSnapshots[d].active.id
  <2>1. SeenSnapshots[d].previous # None
    BY <1>2, <1>7, SeenSnapType
  <2>2. CASE snapshots[d].active = None
    BY <1>3, <1>7, <2>1, <2>2, SeenSnapType
  <2>3. CASE snapshots[d].active # None
    BY <1>3, <1>7, <2>1, <2>3, SeenSnapType
  <2>. QED
    BY <2>2, <2>3
<1>9. SeenSnapshots' = [SeenSnapshots EXCEPT ![d] =
         [active |-> SeenSnapshots[d].previous, previous |-> SeenSnapshots[d].active,
          barred |-> IF SeenSnapshots[d].active = None THEN None
                     ELSE SeenSnapshots[d].active.id]]
  <2>1. \A e \in Dataset \ {d} : SeenSnapshots'[e] = SeenSnapshots[e]
    BY <1>1, <1>2, ShowsOther
  <2>. QED
    BY <1>6, <1>7, <1>8, <2>1, ShowsChange
<1>10. SeenSnapshots' = [SeenSnapshots EXCEPT ![d] =
          [active |-> @.previous, previous |-> @.active,
           barred |-> IF @.active = None THEN None ELSE @.active.id]]
  BY <1>9 DEF SeenSnapshots
<1>. QED
  BY <1>1, <1>8, <1>10 DEF Reader!RollBack

LEMMA CutoverChanges ==
  ASSUME TypeInv, TypeInv', FrozenInv, PlanInv, PlanInv', QuietInv', FailClosed',
         NEW d \in Dataset, Cutover(d)
  PROVE  Reader!Change(d)
<1>1. /\ SeenUp /\ SeenUp' /\ SeenUp' = SeenUp
      /\ pending[d] # None /\ pending[d] \in Pending /\ Head(inbox[d]).snap # None
      /\ catalog.datasets[d] # None /\ inbox[d] # <<>>
  BY TypeFacts DEF Cutover, Delivering, Lands, Current, SeenUp, FrozenInv, Configured
<1>2. /\ snapshots'[d] = [active |-> Head(inbox[d]).snap, previous |-> None,
                          quarantined |-> None]
      /\ catalog'.datasets[d] = pending[d].def
      /\ \A e \in Dataset \ {d} : /\ snapshots'[e] = snapshots[e]
                                  /\ catalog'.datasets[e] = catalog.datasets[e]
  BY TypeFacts DEF Cutover, Promoted, Catalog
<1>3. /\ snapshots'[d].active = Head(inbox[d]).snap /\ snapshots'[d].previous = None
      /\ snapshots'[d].quarantined = None
  BY <1>2
<1>4. catalog'.datasets[d] # None
  BY <1>1, <1>2, NoneAssumption DEF Pending, Def
<1>5. Shows(d) /\ Shows(d)'
  BY ShowsAll, ShowsAllNext
<1>6. /\ SeenSnapshots'[d] = [active |-> SeenSnap(snapshots'[d].active), previous |-> None,
                              barred |-> None]
      /\ SeenContracts'[d] = catalog'.datasets[d].contract /\ SeenContracts[d] # None
  BY <1>1, <1>3, <1>4, <1>5 DEF Shows, SeenSnap
<1>7. SeenSnapshots'[d].active = SeenSnap(snapshots'[d].active)
  BY <1>6
<1>8. /\ snapshots'[d].active \in Snap \cup {None} /\ snapshots'[d].active # None
      /\ snapshots'[d].active.contract = catalog'.datasets[d].contract
  <2>1. snapshots'[d] \in Entry
    BY DEF TypeInv, TypeOK
  <2>. QED
    BY <1>1, <1>3, <1>4, <2>1 DEF QuietInv, Agrees, Entry
<1>9. /\ SeenSnapshots'[d].active # None
      /\ SeenSnapshots'[d].active.contract = SeenContracts'[d]
  BY <1>6, <1>7, <1>8, SeenSnapType
<1>10. SeenSnapshots' = [SeenSnapshots EXCEPT ![d] =
          [Reader!Nothing EXCEPT !.active = SeenSnapshots'[d].active]]
  <2>1. \A e \in Dataset \ {d} : SeenSnapshots'[e] = SeenSnapshots[e]
    BY <1>1, <1>2, ShowsOther
  <2>2. SeenSnapshots'[d] = [Reader!Nothing EXCEPT !.active = SeenSnapshots'[d].active]
    BY <1>6, <1>7 DEF Reader!Nothing
  <2>. QED
    BY <2>1, <2>2, ShowsChange
<1>11. SeenContracts' = [SeenContracts EXCEPT ![d] = SeenSnapshots'[d].active.contract]
  <2>1. \A e \in Dataset \ {d} : SeenContracts'[e] = SeenContracts[e]
    BY <1>1, <1>2, ShowsOther
  <2>. QED
    BY <1>9, <2>1 DEF SeenContracts
<1>12. ASSUME NEW e \in Endpoint
       PROVE  \/ SeenEndpoints'[e] = SeenEndpoints[e]
              \/ SeenEndpoints'[e] # None /\ SeenEndpoints'[e].dataset = d
              \/ SeenEndpoints'[e] = None /\ SeenEndpoints[e].dataset = d
  <2>1. SeenEndpoints[e] = catalog.endpoints[e] /\ SeenEndpoints'[e] = catalog'.endpoints[e]
    BY <1>1 DEF SeenEndpoints
  <2>2. catalog'.endpoints[e] =
          IF pending[d].endpoints[e] # None THEN pending[d].endpoints[e]
          ELSE IF catalog.endpoints[e] # None /\ catalog.endpoints[e].dataset = d THEN None
          ELSE catalog.endpoints[e]
    BY DEF Cutover, EndpointsAfter
  <2>3. pending[d].endpoints[e] # None => pending[d].endpoints[e].dataset = d
    BY <1>1 DEF PlanInv, Planned
  <2>. QED
    BY <2>1, <2>2, <2>3
<1>13. Reader!Consistent'
  BY SeenConsistentNext
<1>. QED
  BY <1>1, <1>6, <1>9, <1>10, <1>11, <1>12, <1>13 DEF Reader!Change, Reader!Offered

LEMMA ReloadPublishes ==
  ASSUME TypeInv, TypeInv', FrozenInv, QuietInv, PlanInv', QuietInv', FailClosed',
         NEW c \in Configs, Reload(c)
  PROVE  Reader!Publish
<1>1. /\ SeenUp /\ SeenUp' /\ snapshots' = Remaining(c)
  BY DEF Reload, SeenUp
<1>2. \A d \in Dataset : Shows(d) /\ Shows(d)'
  BY ShowsAll, ShowsAllNext
<1>3. ASSUME NEW d \in Dataset, SeenContracts[d] # None
      PROVE  SeenContracts'[d] \in {SeenContracts[d], None}
  <2>1. catalog.datasets[d] # None /\ SeenContracts[d] = catalog.datasets[d].contract
    BY <1>2, <1>3 DEF Shows
  <2>2. CASE catalog'.datasets[d] = None
    BY <1>2, <2>2 DEF Shows
  <2>3. CASE catalog'.datasets[d] # None
    <3>1. d \notin Removed(c)
      BY <2>3, RemovedGoes DEF Configured
    <3>. QED
      BY <1>1, <1>2, <2>1, <2>3, <3>1, ReloadKeeps DEF Shows
  <2>. QED
    BY <2>2, <2>3
<1>4. ASSUME NEW d \in Dataset
      PROVE  SeenSnapshots'[d] = IF SeenContracts'[d] # None THEN SeenSnapshots[d]
                                 ELSE Reader!Nothing
  <2>1. CASE catalog'.datasets[d] = None
    BY <1>2, <2>1 DEF Shows, Reader!Nothing
  <2>2. CASE catalog'.datasets[d] # None
    <3>1. d \notin Removed(c)
      BY <2>2, RemovedGoes DEF Configured
    <3>2. snapshots'[d] = snapshots[d]
      BY <1>1, <3>1 DEF Remaining
    <3>3. SeenContracts'[d] # None
          /\ SeenSnapshots'[d] = [active   |-> SeenSnap(snapshots[d].active),
                                  previous |-> SeenSnap(snapshots[d].previous),
                                  barred   |-> snapshots[d].quarantined]
      BY <1>1, <1>2, <2>2, <3>2 DEF Shows
    <3>4. CASE catalog.datasets[d] # None
      BY <1>1, <1>2, <3>3, <3>4 DEF Shows
    <3>5. CASE catalog.datasets[d] = None
      <4>1. snapshots[d] = NoEntry
        BY <3>5 DEF QuietInv, Agrees
      <4>2. /\ snapshots[d].active = None /\ snapshots[d].previous = None
            /\ snapshots[d].quarantined = None
        BY <4>1 DEF NoEntry
      <4>. QED
        BY <1>2, <3>3, <3>5, <4>2 DEF Shows, SeenSnap
    <3>. QED
      BY <3>4, <3>5
  <2>. QED
    BY <2>1, <2>2
<1>5. SeenSnapshots' = [d \in Dataset |-> IF SeenContracts'[d] # None THEN SeenSnapshots[d]
                                          ELSE Reader!Nothing]
  BY <1>4 DEF SeenSnapshots
<1>6. Reader!Consistent'
  BY SeenConsistentNext
<1>. QED
  BY <1>1, <1>3, <1>5, <1>6 DEF Reader!Publish, Reader!Offered

(* The steps that readers notice are those of Serving, and the others they *)
(* do not notice.                                                          *)
LEMMA ReaderStep ==
  ASSUME TypeInv, TypeInv', FrozenInv, PlanInv, PlanInv', QuietInv, QuietInv', FailClosed',
         [Next]_vars
  PROVE  \/ Reader!Next
         \/ UNCHANGED <<SeenUp, SeenContracts, SeenEndpoints, SeenOpen, SeenSnapshots>>
<1>1. ASSUME NEW c \in Configs, Boot(c) PROVE Reader!Start
  BY <1>1, SeenConsistentNext DEF Boot, Reader!Start, SeenUp
<1>2. ASSUME Crash PROVE Reader!Stop
  <2>1. SeenUp /\ ~SeenUp'
    BY <1>2 DEF Crash, SeenUp
  <2>2. \A d \in Dataset : Shows(d)'
    BY ShowsAllNext
  <2>3. \A d \in Dataset : SeenContracts'[d] = None /\ SeenSnapshots'[d] = Reader!Nothing
    BY <2>1, <2>2 DEF Shows, Reader!Nothing
  <2>4. /\ SeenContracts' = [d \in Dataset |-> None]
        /\ SeenSnapshots' = [d \in Dataset |-> Reader!Nothing]
    BY <2>3 DEF SeenContracts, SeenSnapshots
  <2>5. SeenEndpoints' = [e \in Endpoint |-> None] /\ ~SeenOpen'
    BY <2>1 DEF SeenEndpoints, SeenOpen
  <2>. QED
    BY <2>1, <2>4, <2>5 DEF Reader!Stop, Reader!Off
<1>3. ASSUME NEW c \in Configs, Reload(c) PROVE Reader!Publish
  BY <1>3, ReloadPublishes
<1>4. ASSUME NEW d \in Dataset, ApplySwap(d) PROVE Reader!Refresh(d)
  <2>1. /\ phase = "up" /\ inbox[d] # <<>> /\ UNCHANGED <<phase, catalog>>
        /\ Head(inbox[d]).snap # None /\ Head(inbox[d]).kind = "apply"
        /\ inbox[d] \in Seq(Message)
    BY <1>4, TypeFacts DEF ApplySwap, Applying
  <2>2. /\ 1 \in DOMAIN inbox[d] /\ Head(inbox[d]) = inbox[d][1]
        /\ Head(inbox[d]) \in Message
    BY <2>1
  <2>3. Head(inbox[d]).snap \in Snap
    BY <2>1, <2>2, MessageType
  <2>4. catalog.datasets[d] # None
    BY <2>1, <2>2 DEF QuietInv, Agrees, Outcome
  <2>. QED
    BY <1>4, <2>1, <2>3, <2>4, SwapRefreshes DEF ApplySwap
<1>5. ASSUME NEW d \in Dataset, BootRefresh(d) PROVE Reader!Refresh(d)
  <2>1. /\ phase = "boot" /\ UNCHANGED <<phase, catalog>> /\ catalog.datasets[d] # None
        /\ catalog.datasets[d] \in Def
    BY <1>5, TypeFacts DEF BootRefresh, QuietInv, Configured, Catalog
  <2>2. PICK id \in SnapshotId, t \in Fresh :
          SwapIn(d, Built(id, t, catalog.datasets[d], catalog.datasets[d].path))
    BY <1>5 DEF BootRefresh
  <2>3. Built(id, t, catalog.datasets[d], catalog.datasets[d].path) \in Snap
    BY <2>1, <2>2, BuiltType DEF Def, Fresh
  <2>. QED
    BY <2>1, <2>2, <2>3, SwapRefreshes
<1>6. ASSUME NEW d \in Dataset, Rollback(d) PROVE Reader!RollBack(d)
  BY <1>6, RollbackRollsBack
<1>7. ASSUME NEW d \in Dataset, Cutover(d) PROVE Reader!Change(d)
  BY <1>7, CutoverChanges
<1>8. ASSUME ~(\E c \in Configs : Reload(c) \/ Boot(c)), ~Crash,
             ~(\E d \in Dataset : ApplySwap(d) \/ Cutover(d) \/ Rollback(d) \/ BootRefresh(d))
      PROVE  UNCHANGED <<SeenUp, SeenContracts, SeenEndpoints, SeenOpen, SeenSnapshots>>
  BY <1>8, PlansMove, SnapshotsMove, SeenStutters
<1>. QED
  BY <1>1, <1>2, <1>3, <1>4, <1>5, <1>6, <1>7, <1>8 DEF Reader!Next

(* To its readers the runtime is a Serving, through crashes, restarts,     *)
(* reloads, cutovers and rollbacks, unless a reload removes a dataset      *)
(* while the outcome of one of its refreshes is in the mailbox.            *)
THEOREM ImplementsServing == Spec /\ [][RemovesQuietly]_vars => ServesReaders
<1>1. Init => Reader!Init
  BY SeenInit
<1>2. TypeInv /\ TypeInv' /\ FrozenInv /\ PlanInv /\ PlanInv' /\ QuietInv /\ QuietInv'
        /\ FailClosed' /\ [Next]_vars
      => [Reader!Next]_<<SeenUp, Reader!reads>>
  BY ReaderStep DEF Reader!reads
<1>. QED
  BY <1>1, <1>2, TypeInvariant, FrozenInvariant, PlanInvariant, QuietInvariant, NeverOpen, PTL
  DEF Spec, ServesReaders, Reader!Spec

------------------------------------------------------------------------------
(* Serving what was loaded last                                            *)

(* An endpoint that reads a dataset in a cutover.                          *)
Waits(ep, pend) == IF ep = None THEN FALSE ELSE pend[ep.dataset] # None

(* What an operator must leave alone while cutovers are pending.  First,   *)
(* the endpoints of a dataset whose cutover goes on: they are not staged   *)
(* anew (the comparison in stage_new is of definitions only), which is     *)
(* what the run stale_endpoints exhibits.  Second, an endpoint name that   *)
(* reads a dataset in a cutover may be given up, but not moved to another  *)
(* dataset: merge_pending keeps the old one, and adopting the cutover      *)
(* drops it without putting the new one in its place.                      *)
Settled ==
  \A c \in Configs : Reload(c) =>
    /\ \A d \in Dataset : pending[d] # None /\ PendingAfter(c)[d] = pending[d] =>
         EndpointsOf(c, d) = EndpointsOf(wanted, d)
    /\ \A e \in Endpoint : Waits(catalog.endpoints[e], PendingAfter(c)) =>
         c.endpoints[e] = None \/ Waits(c.endpoints[e], PendingAfter(c))

(* A cutover is on its way to the endpoints loaded last; an endpoint of    *)
(* the config loaded last is served unless it waits, and one that is not   *)
(* in that config is served only as long as it waits.                      *)
ServedOrWaits(e) ==
  IF Waits(wanted.endpoints[e], pending)
  THEN catalog.endpoints[e] = None \/ Waits(catalog.endpoints[e], pending)
  ELSE \/ catalog.endpoints[e] = wanted.endpoints[e]
       \/ wanted.endpoints[e] = None /\ Waits(catalog.endpoints[e], pending)

ConvInv ==
  /\ \A d \in Dataset : pending[d] # None => pending[d].endpoints = EndpointsOf(wanted, d)
  /\ \A e \in Endpoint : ServedOrWaits(e)

LEMMA CutoverConverges ==
  ASSUME TypeInv, ConvInv, NEW d \in Dataset, Cutover(d)
  PROVE  ConvInv'
<1>1. /\ pending[d] # None /\ pending'[d] = None /\ wanted' = wanted
      /\ \A f \in Dataset \ {d} : pending'[f] = pending[f]
      /\ pending[d].endpoints = EndpointsOf(wanted, d)
  BY TypeFacts DEF Cutover, Delivering, Lands, Current, ConvInv
<1>2. ASSUME NEW e \in Endpoint PROVE ServedOrWaits(e)'
  <2>1. catalog'.endpoints[e] =
          IF wanted.endpoints[e] # None /\ wanted.endpoints[e].dataset = d
          THEN wanted.endpoints[e]
          ELSE IF catalog.endpoints[e] # None /\ catalog.endpoints[e].dataset = d THEN None
          ELSE catalog.endpoints[e]
    <3>1. catalog'.endpoints[e] =
            IF pending[d].endpoints[e] # None THEN pending[d].endpoints[e]
            ELSE IF catalog.endpoints[e] # None /\ catalog.endpoints[e].dataset = d THEN None
            ELSE catalog.endpoints[e]
      BY DEF Cutover, EndpointsAfter
    <3>2. pending[d].endpoints[e] =
            IF wanted.endpoints[e] # None /\ wanted.endpoints[e].dataset = d
            THEN wanted.endpoints[e] ELSE None
      BY <1>1 DEF EndpointsOf
    <3>. QED
      BY <3>1, <3>2
  <2>2. /\ catalog.endpoints[e] # None => catalog.endpoints[e].dataset \in Dataset
        /\ wanted.endpoints[e] # None => wanted.endpoints[e].dataset \in Dataset
    BY TypeFacts DEF Catalog, Ep
  <2>3. ServedOrWaits(e)
    BY DEF ConvInv
  <2>. QED
    BY <1>1, <2>1, <2>2, <2>3 DEF ServedOrWaits, Waits
<1>3. \A f \in Dataset : pending'[f] # None =>
        pending'[f].endpoints = EndpointsOf(wanted', f)
  BY <1>1 DEF ConvInv
<1>. QED
  BY <1>2, <1>3 DEF ConvInv

LEMMA ReloadConverges ==
  ASSUME TypeInv, FrozenInv, ConvInv, Settled, NEW c \in Configs, Reload(c)
  PROVE  ConvInv'
<1>1. /\ wanted' = c /\ pending' = PendingAfter(c) /\ catalog' = Overlay(c, pending')
  BY DEF Reload
<1>2. ASSUME NEW d \in Dataset, pending'[d] # None
      PROVE  pending'[d].endpoints = EndpointsOf(wanted', d)
  <2>1. CASE d \in Restaged(c)
    <3>1. pending'[d] = [gen |-> stageGen[d] + 1, def |-> c.datasets[d],
                         endpoints |-> EndpointsOf(c, d)]
      BY <1>2, <2>1, ReloadPending
    <3>. QED
      BY <1>1, <3>1
  <2>2. CASE d \notin Restaged(c)
    <3>1. pending'[d] = pending[d]
      BY <1>2, <2>2, ReloadPending
    <3>2. EndpointsOf(c, d) = EndpointsOf(wanted, d)
      BY <1>1, <1>2, <3>1 DEF Settled
    <3>. QED
      BY <1>1, <1>2, <3>1, <3>2 DEF ConvInv
  <2>. QED
    BY <2>1, <2>2
<1>3. ASSUME NEW e \in Endpoint PROVE ServedOrWaits(e)'
  <2>1. catalog'.endpoints[e] =
          IF Waits(catalog.endpoints[e], pending') THEN catalog.endpoints[e]
          ELSE IF Waits(c.endpoints[e], pending') THEN None ELSE c.endpoints[e]
    BY <1>1 DEF Overlay, Waits
  <2>2. Waits(catalog.endpoints[e], pending') =>
          c.endpoints[e] = None \/ Waits(c.endpoints[e], pending')
    BY <1>1 DEF Settled
  <2>. QED
    BY <1>1, <2>1, <2>2 DEF ServedOrWaits
<1>. QED
  BY <1>2, <1>3 DEF ConvInv

LEMMA ConvStep ==
  ASSUME TypeInv, FrozenInv, ConvInv, [Next]_vars, [Settled]_vars
  PROVE  ConvInv'
<1>1. ASSUME NEW d \in Dataset, Cutover(d) PROVE ConvInv'
  BY <1>1, CutoverConverges
<1>2. ASSUME NEW c \in Configs, Reload(c) PROVE ConvInv'
  <2>1. spent' # spent
    <3>1. spent["reload"] \in Nat /\ spent'["reload"] = spent["reload"] + 1
      BY <1>2, TypeFacts DEF Reload, Spend, Bounded
    <3>. QED
      BY <3>1
  <2>2. Settled
    BY <2>1 DEF vars
  <2>. QED
    BY <1>2, <2>2, ReloadConverges
<1>3. ASSUME NEW c \in Configs, Boot(c) PROVE ConvInv'
  <2>1. /\ \A d \in Dataset : pending'[d] = None
        /\ catalog' = c /\ wanted' = c
    BY <1>3 DEF Boot, FrozenInv
  <2>2. c.endpoints \in [Endpoint -> Ep \cup {None}]
    BY ConfigType DEF Catalog
  <2>. QED
    BY <2>1, <2>2 DEF ConvInv, ServedOrWaits, Waits, Ep
<1>4. CASE Crash
  BY <1>4 DEF Crash, ConvInv, ServedOrWaits, Waits, NoCatalog
<1>5. CASE UNCHANGED <<catalog, wanted, pending>>
  BY <1>5 DEF ConvInv, ServedOrWaits
<1>. QED
  BY <1>1, <1>2, <1>3, <1>4, <1>5, PlansMove

LEMMA ConvInvariant == Spec /\ [][Settled]_vars => []ConvInv
<1>1. Init => ConvInv
  BY DEF Init, ConvInv, ServedOrWaits, Waits, NoCatalog
<1>2. TypeInv /\ FrozenInv /\ ConvInv /\ [Next]_vars /\ [Settled]_vars => ConvInv'
  BY ConvStep
<1>. QED
  BY <1>1, <1>2, TypeInvariant, FrozenInvariant, PTL DEF Spec

(* Unless a reload changes the endpoints of a cutover that goes on, or     *)
(* moves an endpoint name away from a dataset in one, the runtime serves   *)
(* the config loaded last, exactly, as soon as no cutover is pending       *)
(* (apply_reload, merge_pending, cutover).                                 *)
THEOREM EndsAsLoaded == Spec /\ [][Settled]_vars => []Converged
<1>1. ASSUME TypeInv, PlanInv, ConvInv PROVE Converged
  <2>. SUFFICES ASSUME phase = "up", \A d \in Dataset : pending[d] = None
                PROVE  catalog = wanted
    BY DEF Converged
  <2>1. catalog \in Catalog /\ wanted \in Catalog /\ wanted \in Configs
    BY <1>1, TypeFacts DEF PlanInv
  <2>2. catalog.datasets = wanted.datasets
    <3>1. \A d \in Dataset : catalog.datasets[d] = wanted.datasets[d]
      BY <1>1 DEF PlanInv
    <3>. QED
      BY <2>1, <3>1 DEF Catalog
  <2>3. catalog.endpoints = wanted.endpoints
    <3>1. ASSUME NEW e \in Endpoint PROVE catalog.endpoints[e] = wanted.endpoints[e]
      <4>1. /\ catalog.endpoints[e] # None => catalog.endpoints[e].dataset \in Dataset
            /\ wanted.endpoints[e] # None => wanted.endpoints[e].dataset \in Dataset
        BY <2>1 DEF Catalog, Ep
      <4>. QED
        BY <1>1, <4>1 DEF ConvInv, ServedOrWaits, Waits
    <3>. QED
      BY <2>1, <3>1 DEF Catalog
  <2>4. catalog.auth = wanted.auth
    BY <1>1, <2>1, <2>3, ConfigFits DEF PlanInv
  <2>. QED
    BY <2>1, <2>2, <2>3, <2>4 DEF Catalog
<1>. QED
  BY <1>1, TypeInvariant, PlanInvariant, ConvInvariant, PTL
=============================================================================
