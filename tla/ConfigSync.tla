----------------------------- MODULE ConfigSync -----------------------------
(* A config in a bucket: how the loader fetches it into generations of     *)
(* files on disk and makes one of them current, how a boot falls back to   *)
(* that one, how the sync loop notices changes, and which generations the  *)
(* runtime deletes while snapshots still read from them.                   *)
(*                                                                         *)
(* Two processes run the loader, the runtime at its boot and the sync, and *)
(* nothing keeps them apart.  The bucket changes file by file; any request *)
(* to it may fail.  Of the runtime only what it reads of the config's      *)
(* files is here: a dataset's snapshots stand for the generation they were *)
(* built from (see Runtime for the rest).                                  *)
EXTENDS Integers, FiniteSets, Sequences

CONSTANTS
  File,        (* the YAML files of a project, numbered as they are listed *)
  Source,      (* values of OFFLOADER_CONFIG                               *)
  GenId,       (* names of generations                                     *)
  MaxVersion,  (* bounds the uploads and deletions                         *)
  ValidTrees,  (* the trees that Catalog.load accepts                      *)
  Removable,   (* files that the instance deletes from the bucket          *)
  MaxFaults,   (* bounds the faults                                        *)
  MaxOfAKind,  (* bounds those of one kind                                 *)
  None

Loader == {"boot", "sync"}
Fault  == {"crash", "retry", "restart", "timeout"}
(* Each upload has a version of its own, as an object's time of update and *)
(* size are in the listing; 0 is that of a file that is not there.         *)
Tree    == [File -> 0 .. MaxVersion]
NoFiles == [f \in File |-> 0]

ASSUME ConfigAssumption ==
  /\ MaxVersion \in Nat \ {0} /\ MaxFaults \in Nat /\ MaxOfAKind \in Nat
  /\ ValidTrees \subseteq Tree \ {NoFiles}
  /\ File \subseteq Nat /\ Removable \subseteq File
  /\ None \notin GenId \cup Tree \cup Source

VARIABLES
  bucket,    (* what each source holds                                     *)
  clock,     (* the last change to a bucket                                *)
  flaky,     (* whether requests to it may still fail                      *)
  config,    (* OFFLOADER_CONFIG                                           *)
  dirs,      (* the directories under configs/                             *)
  older,     (* which name of a generation sorts before which              *)
  gens,      (* their files, .digest and .source, while a loader may read  *)
             (* them: of the current generation and the ones being written *)
  link,      (* the generation that <cache_dir>/config points at           *)
  load,      (* the loads under way                                        *)
  runtime,   (* where the runtime is: down, loading, failed, seeding,      *)
             (* warming, up                                                *)
  catalog,   (* what it serves: the files and the source they came from    *)
  calls,     (* reloads in its mailbox                                     *)
  snapshots, (* generations of the active and the previous snapshot        *)
  record,    (* the same in the sidecar file                               *)
  build,     (* the generation that a running build reads                  *)
  sync,      (* the sync loop: the digest it took, the one it recorded     *)
  faults     (* how often the runtime crashed, its boot was tried again,   *)
             (* the node restarted, a reload call timed out                *)

disk == <<dirs, older, gens, link>>
serving == <<runtime, catalog, calls, snapshots, record, build>>
vars == <<bucket, clock, flaky, config, disk, load, serving, sync, faults>>

NoGen       == [tree |-> NoFiles, listed |-> None, source |-> None]
NoLoad      == [pc |-> "idle", gen |-> None, items |-> NoFiles, todo |-> {}]
NoSnapshots == [active |-> None, previous |-> None]

At(a, pc) == load[a].pc = pc
Loading(a) == ~At(a, "idle")
Target(a) == load[a].gen

Alive == runtime \notin {"down", "failed"}

(* A listing's digest tells any two listings apart.                        *)
Digest == bucket[config]

(* The directory of every load has its name from the start, so an earlier  *)
(* load sorts first whichever writes first.                                *)
Named == dirs \cup ({load[a].gen : a \in Loader} \ {None})
InUse == {snapshots.active, snapshots.previous} \ {None}
Mentioned ==
  Named \cup InUse \cup ({record.active, record.previous, build, link} \ {None})
NewName == CHOOSE g \in GenId : g \notin Mentioned

(* Names that are gone are no longer compared.                             *)
Among(names) == {p \in older : p[1] \in names /\ p[2] \in names}

------------------------------------------------------------------------------
(* The bucket: an operator uploads or deletes one file at a time.          *)

Upload(s, f) ==
  /\ clock < MaxVersion
  /\ clock' = clock + 1
  /\ bucket' = [bucket EXCEPT ![s][f] = clock + 1]
  /\ UNCHANGED <<flaky, config, disk, load, serving, sync, faults>>

Remove(s, f) ==
  /\ clock < MaxVersion /\ f \in Removable /\ bucket[s][f] # 0
  /\ clock' = clock + 1
  /\ bucket' = [bucket EXCEPT ![s][f] = 0]
  /\ UNCHANGED <<flaky, config, disk, load, serving, sync, faults>>

(* From some point on every request is answered.                           *)
Settle ==
  /\ flaky /\ flaky' = FALSE
  /\ UNCHANGED <<bucket, clock, config, disk, load, serving, sync, faults>>

------------------------------------------------------------------------------
(* The loader                                                              *)

(* load_generation names a directory that it will write to.                *)
Begin(a) ==
  /\ GenId \ Mentioned # {}
  /\ load' = [load EXCEPT ![a] = [NoLoad EXCEPT !.pc = "listing", !.gen = NewName]]
  /\ older' = older \cup (Named \X {NewName})

(* list_objects, again when with_retry starts over after a transient error *)
(* of any request, from an empty directory.  A listing without a YAML file *)
(* is an error (FetchFails).                                               *)
List(a) ==
  /\ At(a, "listing") \/ (At(a, "fetching") /\ flaky)
  /\ Digest # NoFiles
  /\ load' = [load EXCEPT ![a].pc = "fetching", ![a].items = Digest,
                          ![a].todo = {f \in File : Digest[f] # 0}]
  /\ dirs' = dirs \ {Target(a)}
  /\ gens' = [gens EXCEPT ![Target(a)] = NoGen]
  /\ UNCHANGED <<bucket, clock, flaky, config, older, link, serving, sync, faults>>

(* get_object and write_file of the next listed file, as it is in the      *)
(* bucket by then; one that was deleted since is an error.                 *)
Get(a, f) ==
  /\ f \in load[a].todo /\ (\A g \in load[a].todo : f <= g) /\ Digest[f] # 0
  /\ load' = [load EXCEPT ![a].todo = @ \ {f}]
  /\ dirs' = dirs \cup {Target(a)}
  /\ gens' = [gens EXCEPT ![Target(a)].tree[f] = Digest[f]]
  /\ UNCHANGED <<bucket, clock, flaky, config, older, link, serving, sync, faults>>

(* A load ends and its directory is removed.                               *)
Discard(a) ==
  /\ load' = [load EXCEPT ![a] = NoLoad]
  /\ dirs' = dirs \ {Target(a)}
  /\ gens' = [gens EXCEPT ![Target(a)] = NoGen]
  /\ older' = Among(Named \ {Target(a)})
  /\ UNCHANGED link

(* Mutant: an invalid revision is let through.                             *)
AcceptsAll(tree) == TRUE

(* validate: Catalog.load of what was fetched.                             *)
Validates(tree) == tree \in ValidTrees

(* The runtime is gone, and with it the reload that sync may wait for.     *)
HungUp ==
  /\ calls' = <<>>
  /\ sync' = IF sync.pc = "waiting" THEN [sync EXCEPT !.pc = "idle"] ELSE sync

(* What the callers do with {:error, reason}: init stops.                  *)
Refused(a) ==
  /\ IF a = "boot" THEN runtime' = "failed" /\ HungUp
     ELSE sync' = [sync EXCEPT !.pc = "idle"] /\ UNCHANGED <<runtime, calls>>
  /\ UNCHANGED <<catalog, snapshots, record, build>>

(* Mutant: any current generation stands in.                               *)
CachedFromAnywhere == link # None /\ link \in dirs /\ Validates(gens[link].tree)

(* load_cached: the current generation came from here and still validates. *)
Cached ==
  /\ link # None /\ link \in dirs
  /\ gens[link].source = config /\ Validates(gens[link].tree)

(* No YAML file is listed, or the next one is gone.                        *)
Missing(a) ==
  \/ At(a, "listing") /\ Digest = NoFiles
  \/ \E f \in load[a].todo : (\A g \in load[a].todo : f <= g) /\ Digest[f] = 0

(* The fetch fails.  At boot the current generation stands in, unless the  *)
(* bucket answered (that it is gone, empty, too large) or the disk failed; *)
(* a listed file that is gone by then does not count as an answer.         *)
FetchFails(a, answered) ==
  /\ Loading(a) /\ (flaky \/ Missing(a))
  /\ ~flaky => (answered <=> At(a, "listing"))
  /\ Discard(a)
  /\ IF a = "boot" /\ ~answered /\ Cached
     THEN /\ runtime' = "seeding"
          /\ catalog' = [tree |-> gens[link].tree, source |-> gens[link].source]
          /\ UNCHANGED <<calls, snapshots, record, build, sync>>
     ELSE Refused(a)
  /\ UNCHANGED <<bucket, clock, flaky, config, faults>>

Fetched(a) == At(a, "fetching") /\ load[a].todo = {}

(* The fetched tree does not validate.                                     *)
Reject(a) ==
  /\ Fetched(a) /\ ~Validates(gens[Target(a)].tree)
  /\ Discard(a) /\ Refused(a)
  /\ UNCHANGED <<bucket, clock, flaky, config, faults>>

(* It does: .source and .digest are written and the link is renamed over;  *)
(* nobody reads the directory before that.  Sync then calls the runtime,   *)
(* and is done if there is none to call.                                   *)
Activate(a) ==
  /\ Fetched(a) /\ Validates(gens[Target(a)].tree)
  /\ gens' = [g \in GenId |->
               IF g = link THEN NoGen
               ELSE IF g = Target(a) THEN [tree |-> gens[g].tree, listed |-> load[a].items,
                                           source |-> config]
               ELSE gens[g]]
  /\ link' = Target(a)
  /\ load' = [load EXCEPT ![a] = NoLoad]
  /\ LET new == [tree |-> gens[Target(a)].tree, source |-> config]
     IN  IF a = "boot"
         THEN runtime' = "seeding" /\ catalog' = new /\ UNCHANGED <<calls, sync>>
         ELSE /\ IF Alive
                 THEN calls' = Append(calls, new) /\ sync' = [sync EXCEPT !.pc = "waiting"]
                 ELSE UNCHANGED calls /\ sync' = [sync EXCEPT !.pc = "idle"]
              /\ UNCHANGED <<runtime, catalog>>
  /\ UNCHANGED <<bucket, clock, flaky, config, dirs, older, snapshots, record, build, faults>>

------------------------------------------------------------------------------
(* The runtime                                                             *)

(* A fault, unless too many happened.                                      *)
AllFaults == faults["crash"] + faults["retry"] + faults["restart"] + faults["timeout"]
Happens(fault) ==
  /\ faults[fault] < MaxOfAKind /\ AllFaults < MaxFaults
  /\ faults' = [faults EXCEPT ![fault] = @ + 1]

NewestTwo == {g \in dirs : Cardinality({h \in dirs : <<g, h>> \in older}) < 2}

(* Loader.prune keeps the current generation, the newest two and those in  *)
(* use; a load may still be writing, to one of those or to another.        *)
Spared(used) == dirs \cap (used \cup {link} \cup NewestTwo)
Prune(used) ==
  /\ dirs' = Spared(used)
  /\ gens' = [g \in GenId |-> IF g \in dirs \ Spared(used) THEN NoGen ELSE gens[g]]
  /\ older' = Among(Spared(used) \cup {load[a].gen : a \in Loader})
  /\ UNCHANGED link

(* The supervisor starts the runtime, and once the node was up, tries      *)
(* again after a boot that failed: init loads the config first.  The       *)
(* runtime is registered under its name from here on.                      *)
StartBoot ==
  /\ \/ runtime = "down" /\ UNCHANGED faults
     \/ runtime = "failed" /\ sync.pc # "off" /\ Happens("retry")
  /\ runtime' = "loading" /\ Begin("boot")
  /\ UNCHANGED <<bucket, clock, flaky, config, dirs, gens, link, catalog, calls, snapshots, record,
                 build, sync>>

(* seed_from_sidecar, if the record is one for this config, and the start  *)
(* of the first refresh, which resolves the link (pin).                    *)
Seed ==
  /\ runtime = "seeding" /\ runtime' = "warming"
  /\ \/ UNCHANGED snapshots
     \/ /\ record.active # None
        /\ \E previous \in {record.previous, None} :
             snapshots' = [active |-> record.active, previous |-> previous]
  /\ build' = link
  /\ UNCHANGED <<bucket, clock, flaky, config, disk, load, catalog, calls, record, sync, faults>>

(* Mutant: whether the files are still there is not looked at.             *)
Unchecked == TRUE

(* generation_missing? of the directory that the build read from.          *)
StillThere == build \in dirs

(* A finished build goes live, if its generation is still there; a cutover *)
(* leaves no previous snapshot.                                            *)
Applied(cutover) ==
  [active |-> build, previous |-> IF cutover THEN None ELSE snapshots.active]

(* The first refresh fails or is applied, tables that nothing mentions are *)
(* dropped, so that a record of them is void, and old generations deleted. *)
Open ==
  /\ runtime = "warming" /\ runtime' = "up"
  /\ \/ UNCHANGED snapshots
     \/ StillThere /\ snapshots' = Applied(FALSE)
  /\ record' = snapshots' /\ build' = None
  /\ Prune({snapshots'.active, snapshots'.previous} \ {None})
  /\ UNCHANGED <<bucket, clock, flaky, config, load, catalog, calls, sync, faults>>

(* A worker or a schema cutover starts to build from the current files.    *)
StartBuild ==
  /\ runtime = "up" /\ build = None
  /\ build' = link
  /\ UNCHANGED <<bucket, clock, flaky, config, disk, load, runtime, catalog, calls, snapshots, record,
                 sync, faults>>

(* It ends: it failed, or lost its files, or apply_outcome and cutover put *)
(* its snapshot in.                                                        *)
FinishBuild ==
  /\ runtime = "up" /\ build # None
  /\ build' = None
  /\ \/ UNCHANGED <<snapshots, record>>
     \/ /\ StillThere
        /\ \E cutover \in BOOLEAN : snapshots' = Applied(cutover)
        /\ record' = snapshots'
  /\ UNCHANGED <<bucket, clock, flaky, config, disk, load, runtime, catalog, calls, sync, faults>>

Rollback ==
  /\ runtime = "up" /\ snapshots.previous # None
  /\ snapshots' = [active |-> snapshots.previous, previous |-> snapshots.active]
  /\ record' = snapshots'
  /\ UNCHANGED <<bucket, clock, flaky, config, disk, load, runtime, catalog, calls, build, sync, faults>>

(* apply_reload: the dataset stays, with its worker's build or without, or *)
(* is removed.  Sync gets its reply if it still waits for this call.       *)
Reload ==
  /\ runtime = "up" /\ calls # <<>>
  /\ catalog' = Head(calls) /\ calls' = Tail(calls)
  /\ snapshots' \in {snapshots, NoSnapshots}
  /\ record' = IF snapshots' = snapshots THEN record ELSE NoSnapshots
  /\ build' \in {build, None}
  /\ Prune({snapshots'.active, snapshots'.previous} \ {None})
  /\ sync' = IF sync.pc = "waiting" /\ Len(calls) = 1
             THEN [sync EXCEPT !.pc = "idle", !.last = sync.seen]
             ELSE sync
  /\ UNCHANGED <<bucket, clock, flaky, config, load, runtime, faults>>

------------------------------------------------------------------------------
(* The sync loop                                                           *)

(* Mutant: the baseline is what the bucket holds.                          *)
StartSyncLive ==
  /\ sync.pc = "off" /\ runtime = "up"
  /\ sync' = [sync EXCEPT !.pc = "idle", !.last = Digest]
  /\ UNCHANGED <<bucket, clock, flaky, config, disk, load, serving, faults>>

(* init starts after the runtime's, from the current generation's digest.  *)
StartSync ==
  /\ sync.pc = "off" /\ runtime = "up"
  /\ sync' = [sync EXCEPT !.pc = "idle", !.last = gens[link].listed]
  /\ UNCHANGED <<bucket, clock, flaky, config, disk, load, serving, faults>>

(* Mutant: the digest is recorded before it is known to be applied.        *)
TickRecords ==
  /\ sync.pc = "idle" /\ Digest # sync.last /\ Alive
  /\ sync' = [sync EXCEPT !.pc = "loading", !.seen = Digest, !.last = Digest]
  /\ Begin("sync")
  /\ UNCHANGED <<bucket, clock, flaky, config, dirs, gens, link, serving, faults>>

(* A tick finds another digest than the recorded one, and the runtime      *)
(* alive; other ticks change only the status.                              *)
Tick ==
  /\ sync.pc = "idle" /\ Digest # sync.last /\ Alive
  /\ sync' = [sync EXCEPT !.pc = "loading", !.seen = Digest]
  /\ Begin("sync")
  /\ UNCHANGED <<bucket, clock, flaky, config, dirs, gens, link, serving, faults>>

(* After two minutes it gives up; the call stays in the mailbox.           *)
CallTimesOut ==
  /\ sync.pc = "waiting" /\ Happens("timeout")
  /\ sync' = [sync EXCEPT !.pc = "idle"]
  /\ UNCHANGED <<bucket, clock, flaky, config, disk, load, serving>>

------------------------------------------------------------------------------
(* Crashes                                                                 *)

Stopped ==
  /\ runtime' = "down" /\ catalog' = None /\ snapshots' = NoSnapshots /\ build' = None
  /\ UNCHANGED <<bucket, clock, dirs, gens, link, record>>

(* The runtime alone; sync goes on, without the reply it may wait for.     *)
Crash ==
  /\ Alive /\ Happens("crash")
  /\ load' = [load EXCEPT !["boot"] = NoLoad]
  /\ older' = Among(dirs \cup {load["sync"].gen})
  /\ HungUp /\ Stopped /\ UNCHANGED <<flaky, config>>

(* The node stops, and may come back with another config.                  *)
NoSync == [pc |-> "off", seen |-> None, last |-> None]
NodeStops ==
  /\ load' = [a \in Loader |-> NoLoad]
  /\ older' = Among(dirs)
  /\ sync' = NoSync /\ calls' = <<>>
  /\ Stopped /\ config' \in Source

Restart ==
  /\ Happens("restart") /\ NodeStops /\ UNCHANGED flaky

(* A first boot that fails stops the node; so does one too many later.     *)
GiveUp == runtime = "failed" /\ NodeStops /\ UNCHANGED <<faults, flaky>>

------------------------------------------------------------------------------
Init ==
  /\ bucket = [s \in Source |-> [f \in File |-> 1]]
  /\ clock = 1 /\ flaky = TRUE /\ config \in Source
  /\ dirs = {} /\ older = {} /\ gens = [g \in GenId |-> NoGen] /\ link = None
  /\ load = [a \in Loader |-> NoLoad]
  /\ runtime = "down" /\ catalog = None /\ calls = <<>>
  /\ snapshots = NoSnapshots /\ record = NoSnapshots /\ build = None
  /\ sync = NoSync /\ faults = [kind \in Fault |-> 0]

LoaderStep(a) ==
  \/ List(a) \/ Reject(a) \/ Activate(a)
  \/ \E f \in File : Get(a, f)
  \/ \E answered \in BOOLEAN : FetchFails(a, answered)

Next ==
  \/ \E s \in Source, f \in File : Upload(s, f) \/ Remove(s, f)
  \/ Settle
  \/ \E a \in Loader : LoaderStep(a)
  \/ StartBoot \/ Seed \/ Open
  \/ StartBuild \/ FinishBuild \/ Rollback \/ Reload
  \/ StartSync \/ Tick \/ CallTimesOut
  \/ Crash \/ Restart \/ GiveUp

Spec == Init /\ [][Next]_vars

(* Ticks go on, requests succeed in the end, and what runs goes on.        *)
Fairness ==
  /\ WF_vars(StartBoot \/ Seed \/ Open \/ GiveUp) /\ WF_vars(Reload)
  /\ WF_vars(StartSync \/ Tick)
  /\ \A a \in Loader : WF_vars(LoaderStep(a))

FairSpec == Spec /\ Fairness

------------------------------------------------------------------------------
Catalogs == [tree : ValidTrees, source : Source]

(* Every variable holds a value of its kind.                               *)
TypeOK ==
  /\ bucket \in [Source -> Tree] /\ clock \in 1 .. MaxVersion
  /\ flaky \in BOOLEAN /\ config \in Source
  /\ dirs \subseteq GenId /\ older \subseteq GenId \X GenId
  /\ gens \in [GenId -> [tree : Tree, listed : Tree \cup {None}, source : Source \cup {None}]]
  /\ link \in GenId \cup {None}
  /\ load \in [Loader -> [pc : {"idle", "listing", "fetching"}, gen : GenId \cup {None},
                          items : Tree, todo : SUBSET File]]
  /\ runtime \in {"down", "failed", "loading", "seeding", "warming", "up"}
  /\ catalog \in Catalogs \cup {None}
  /\ calls \in Seq(Catalogs)
  /\ {snapshots, record} \subseteq [active : GenId \cup {None}, previous : GenId \cup {None}]
  /\ build \in GenId \cup {None}
  /\ sync \in [pc : {"off", "idle", "loading", "waiting"}, seen : Tree \cup {None},
               last : Tree \cup {None}]
  /\ faults \in [Fault -> 0 .. MaxOfAKind]

Files(tree) == {f \in File : tree[f] # 0}

(* Only a valid tree is current, and what runs is of the configured source.*)
CurrentValid ==
  /\ link # None => link \in dirs /\ gens[link].tree \in ValidTrees
  /\ catalog # None => catalog.source = config

(* The current generation is always a tree that validates and holds every  *)
(* file of one listing, whoever fetched it, whatever failed meanwhile and  *)
(* whichever generations were deleted, as long as the runtime crashes no   *)
(* more than once in a fetch: prune spares the newest two directories, for *)
(* a fetch may be writing one.  What runs is of the configured source      *)
(* ("only a valid tree becomes current", loader.ex).                       *)
CurrentWhole ==
  /\ CurrentValid
  /\ link # None => Files(gens[link].tree) = Files(gens[link].listed)

(* When a tick would call the bucket unchanged, the runtime serves what is *)
(* in it: also after a fetch during an upload, a fallback, a reload that   *)
(* timed out, a restart of either (running_digest and apply_change).       *)
SkipsOnlyCurrent ==
  (runtime = "up" /\ calls = <<>> /\ sync.pc # "off" /\ sync.last = Digest)
    => catalog.tree = Digest

(* The files of the generation that a snapshot was built from are there as *)
(* long as it serves or may be rolled back to, for a remote_scan reads     *)
(* them per request (prune, pin, generation_missing?).                     *)
SnapshotFiles == InUse \subseteq dirs

(* Once the bucket stays as it is, valid, and answers, it is served in the *)
(* end, whatever failed before and left behind.                            *)
CatchesUp ==
  <>[](~flaky /\ Digest \in ValidTrees => catalog # None /\ catalog.tree = Digest)
==============================================================================
