----------------------------- MODULE RuntimeLive -----------------------------
(***************************************************************************)
(* The liveness of the runtime, for TLC.                                   *)
(*                                                                         *)
(* A dataset with a static manifest has no interval of its own (unless     *)
(* refresh_interval_ms is set): a refresh of it that fails is not retried, *)
(* so it can be owed service only while its refreshes do not fail.  Half   *)
(* of the behaviours here are healthy in that sense from the start, the    *)
(* others are any.                                                         *)
(*                                                                         *)
(* To keep the instance small, nobody refreshes by hand what serves        *)
(* already, and of the free names a new table always takes the same: the   *)
(* names are interchangeable, so with one dataset this is every behaviour  *)
(* up to a renaming.  (A symmetry set is not sound with liveness.)         *)
(***************************************************************************)
EXTENDS MCRuntime

VARIABLE healthy

(* Nothing at d that the skip check of Refresh.perform could hit.          *)
NothingToSkip(d) == SeenIn(snapshots[d]) = SeenIn(NoEntry)

(* A refresh of d that comes to nothing: no usable snapshot at the source, *)
(* a failed build, a worker that dies and its messages with it.            *)
RefreshFails(d) ==
  \/ NothingToSkip(d) /\ (BootSkip(d) \/ WorkerSkip(d))
  \/ WorkerRejects(d) \/ WorkerDies(d)

LiveNext ==
  /\ Next
  /\ \A d \in Dataset : Manual(d) => NothingToSkip(d)
  /\ \A t \in db' \ db : t = CHOOSE name \in Fresh : TRUE
  /\ healthy => \A d \in Dataset : ~RefreshFails(d)
  /\ healthy' = healthy

LiveSpec ==
  Init /\ healthy \in BOOLEAN /\ [][LiveNext]_<<vars, healthy>> /\ Fairness

(* While refreshes do not fail every configured dataset gets to serve,     *)
(* polled or not: read at boot, told to refresh when a reload adds or      *)
(* re-points it (trigger_refresh in add_new and reconcile_common), and     *)
(* again when the build it made is of a pruned generation (apply_outcome). *)
AddedServes ==
  \A d \in Dataset :
    healthy /\ d \in Configured(catalog)
      ~> (snapshots[d].active # None \/ d \notin Configured(catalog))
==============================================================================
