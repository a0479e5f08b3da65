------------------------------- MODULE Serving -------------------------------
(***************************************************************************)
(* What the serving runtime promises whoever reads from it: datasets with  *)
(* one contract each, endpoints compiled against it, a snapshot to answer  *)
(* from and perhaps one to roll back to, and the few ways in which these   *)
(* may change from one request to the next.  No workers, no builds, no     *)
(* mailbox, no files: a dataset is refreshed, rolled back, or moved to     *)
(* another contract at one instant.                                        *)
(***************************************************************************)
CONSTANTS Dataset, Endpoint, SnapshotId, Contract, Tenanted, None

VARIABLES
  up,        (* requests are answered                                      *)
  contract,  (* per dataset: its contract, None if it is not configured    *)
  endpoints, (* per endpoint name: whom it reads, and compiled against what*)
  open,      (* requests need no key                                       *)
  serves     (* per dataset: snapshot, rollback target, barred id          *)

reads == <<contract, endpoints, open, serves>>

Snapshot == [id : SnapshotId, contract : Contract]
Nothing  == [active |-> None, previous |-> None, barred |-> None]
Offered  == {d \in Dataset : contract[d] # None}

(* A snapshot and an endpoint of a dataset have the dataset's contract,    *)
(* and an endpoint that reads tenants' rows asks for a key.                *)
Consistent ==
  /\ \A d \in Dataset : \A s \in {serves[d].active, serves[d].previous} \ {None} :
       /\ s \in Snapshot
       /\ s.contract = contract[d]
  /\ \A e \in Endpoint : endpoints[e] # None =>
       /\ contract[endpoints[e].dataset] = endpoints[e].contract
       /\ endpoints[e].contract \in Tenanted => ~open

Off ==
  /\ contract = [d \in Dataset |-> None] /\ endpoints = [e \in Endpoint |-> None]
  /\ ~open /\ serves = [d \in Dataset |-> Nothing]

Init == ~up /\ Off

Start == ~up /\ up' /\ Consistent'
Stop  == up /\ ~up' /\ Off'

(* A new snapshot goes live; the one it replaces can be returned to.       *)
Refresh(d) ==
  /\ up /\ d \in Offered
  /\ serves'[d].active # None /\ serves'[d].active.contract = contract[d]
  /\ serves' = [serves EXCEPT ![d] = [active |-> serves'[d].active,
                                      previous |-> @.active, barred |-> None]]
  /\ UNCHANGED <<up, contract, endpoints, open>>

(* The two trade places, and the id that was live is barred.               *)
RollBack(d) ==
  /\ up /\ serves[d].previous # None
  /\ serves' = [serves EXCEPT ![d] =
       [active |-> @.previous, previous |-> @.active,
        barred |-> IF @.active = None THEN None ELSE @.active.id]]
  /\ UNCHANGED <<up, contract, endpoints, open>>

(* A dataset moves to another contract: a snapshot of that contract, the   *)
(* contract and the endpoints change together, and there is no way back.   *)
(* Other datasets go on as they are, but for endpoint names it takes over. *)
Change(d) ==
  /\ up /\ up' /\ d \in Offered
  /\ serves' = [serves EXCEPT ![d] = [Nothing EXCEPT !.active = serves'[d].active]]
  /\ serves'[d].active # None
  /\ contract' = [contract EXCEPT ![d] = serves'[d].active.contract]
  /\ \A e \in Endpoint :
       \/ endpoints'[e] = endpoints[e]
       \/ endpoints'[e] # None /\ endpoints'[e].dataset = d
       \/ endpoints'[e] = None /\ endpoints[e].dataset = d
  /\ Consistent'

(* A new config is published.  It adds datasets, which serve nothing yet,  *)
(* removes others, and leaves the contract and the snapshots of the rest.  *)
Publish ==
  /\ up /\ up'
  /\ \A d \in Offered : contract'[d] \in {contract[d], None}
  /\ serves' = [d \in Dataset |-> IF contract'[d] # None THEN serves[d] ELSE Nothing]
  /\ Consistent'

Next ==
  \/ Start \/ Stop \/ Publish
  \/ \E d \in Dataset : Refresh(d) \/ RollBack(d) \/ Change(d)

Spec == Init /\ [][Next]_<<up, reads>>
==============================================================================
