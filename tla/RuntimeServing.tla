--------------------------- MODULE RuntimeServing ---------------------------
(***************************************************************************)
(* The runtime keeps the promise of module Serving.  A reader knows of a   *)
(* snapshot its id and contract, and sees nothing of a dataset that is not *)
(* in the served catalog.  init publishes before its initial refresh, so   *)
(* that a boot is visible to readers too.                                  *)
(***************************************************************************)
EXTENDS Runtime

(* What a request reads of a snapshot: not its table, not where it is from.*)
SeenSnap(s) == IF s = None THEN None ELSE [id |-> s.id, contract |-> s.contract]

(* Runtime.serve/1, Runtime.snapshots/1: what readers get for a dataset.   *)
SeenServes(d) ==
  IF phase # "down" /\ catalog.datasets[d] # None
  THEN [active   |-> SeenSnap(snapshots[d].active),
        previous |-> SeenSnap(snapshots[d].previous),
        barred   |-> snapshots[d].quarantined]
  ELSE [active |-> None, previous |-> None, barred |-> None]

(* The context that context_of publishes: nothing of it while the runtime  *)
(* is down.                                                                *)
SeenUp == phase # "down"
SeenContracts ==
  [d \in Dataset |-> IF SeenUp /\ catalog.datasets[d] # None
                     THEN catalog.datasets[d].contract ELSE None]
SeenEndpoints == [e \in Endpoint |-> IF SeenUp THEN catalog.endpoints[e] ELSE None]
SeenOpen == SeenUp /\ catalog.auth = "none"
SeenSnapshots == [d \in Dataset |-> SeenServes(d)]

Reader == INSTANCE Serving WITH
  up <- SeenUp, contract <- SeenContracts, endpoints <- SeenEndpoints,
  open <- SeenOpen, serves <- SeenSnapshots

(* To its readers the runtime is a Serving: whatever workers, builds,      *)
(* mailbox, disk and failures do, what a request may see changes only by   *)
(* the start, the stop, the reload, the refresh, the rollback and the      *)
(* change of contract that the moduledoc of runtime.ex speaks of.          *)
ServesReaders == Reader!Spec
==============================================================================
