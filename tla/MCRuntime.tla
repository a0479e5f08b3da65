------------------------------ MODULE MCRuntime ------------------------------
(* Small instances of Runtime for TLC.                                     *)
EXTENDS RuntimeServing, TLC

CONSTANTS d1, e1, s1, s2, s3, plain, tenant, wide, home, other

Nowhere == [d \in Dataset |-> None]
NoEndpoint == [e \in Endpoint |-> None]

(* One dataset of contract c, served by endpoint e1.                       *)
Solo(c, p, auth) ==
  [datasets  |-> [Nowhere EXCEPT ![d1] = [contract |-> c, path |-> p]],
   endpoints |-> [NoEndpoint EXCEPT ![e1] = [dataset |-> d1, contract |-> c]],
   auth      |-> auth]

(* The same dataset without an endpoint over it.                           *)
Bare(c, p) ==
  [Solo(c, p, "required") EXCEPT !.endpoints = NoEndpoint]

Empty == [datasets |-> Nowhere, endpoints |-> NoEndpoint, auth |-> "required"]

OneConfig == {Solo(plain, home, "required")}
MovedConfigs == {Solo(plain, home, "required"), Solo(plain, other, "required")}
SchemaConfigs == {Solo(plain, home, "none"), Solo(tenant, home, "required")}
ThreeSchemas == SchemaConfigs \cup {Solo(wide, home, "none")}
RemovalConfigs == {Solo(plain, home, "required"), Solo(tenant, home, "required"), Empty}
LiveConfigs == {Solo(plain, home, "required"), Solo(tenant, home, "required"),
                Solo(plain, other, "required"), Empty}
EndpointConfigs == {Solo(plain, home, "required"), Solo(tenant, home, "required"),
                    Bare(tenant, home)}

Bounds(reload, crash, kill, lost) ==
  [what \in Bounded |->
     CASE what = "reload" -> reload [] what = "crash" -> crash
       [] what = "kill" -> kill [] OTHER -> lost]
Limit000 == Bounds(0, 0, 0, 0)
Limit010 == Bounds(0, 1, 0, 0)
Limit211 == Bounds(2, 1, 1, 1)
Limit300 == Bounds(3, 0, 0, 0)
Limit110 == Bounds(1, 1, 0, 1)

(* Names of tables and ids of snapshots are interchangeable.               *)
Symmetry == Permutations(Table) \cup Permutations(SnapshotId)
==============================================================================
