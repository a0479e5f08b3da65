-------------------------- MODULE ServeCommandProofs --------------------------
(***************************************************************************)
(* What holds of ServeCommand for every value of its constants: whatever   *)
(* the project, the ports and the order of signals, a docker process is    *)
(* never left alone and never misses a stop signal, and the ports it is    *)
(* given bind.                                                             *)
(***************************************************************************)
EXTENDS ServeCommand, FiniteSetTheorems, WellFoundedInduction, SequenceTheorems, TLAPS

(* Why neither property can be lost: a child is only there while serve     *)
(* waits for it with its signal channel open, and a signal that came is in *)
(* the channel until it is passed on.                                      *)
ChildInv ==
  /\ pc \in {"wait", "return"} <=> child # "none"
  /\ pc = "return" => child = "gone"
  /\ pc \in {"start", "wait", "return"} <=> notified

HeardInv ==
  /\ asked => phase = "run"
  /\ (asked /\ child # "gone") => pending \/ told

ServeInv == ChildInv /\ HeardInv

LEMMA ServeInvInit == Init => ServeInv
  BY DEF Init, ServeInit, ServeInv, ChildInv, HeardInv

LEMMA ServeInvExit ==
  ASSUME Exit
  PROVE  ServeInv'
  BY DEF Exit, ServeInv, ChildInv, HeardInv

(* The steps of serve itself.                                              *)
LEMMA ServeInvOwn ==
  ASSUME ServeInv,
         \/ Check
         \/ \E found, noPull \in BOOLEAN : LookPath(found, noPull)
         \/ \E held \in SUBSET (1 .. LastPort) : PickPorts(held)
         \/ Notify
         \/ \E starts \in BOOLEAN : Start(starts)
  PROVE  ServeInv'
<1>. USE DEF ServeInv, ChildInv, HeardInv, runVars
<1>1. CASE Check
  BY <1>1, ServeInvExit DEF Check
<1>2. ASSUME NEW found \in BOOLEAN, NEW noPull \in BOOLEAN, LookPath(found, noPull)
      PROVE  ServeInv'
  BY <1>2, ServeInvExit DEF LookPath
<1>3. ASSUME NEW held \in SUBSET (1 .. LastPort), PickPorts(held)
      PROVE  ServeInv'
  BY <1>3 DEF PickPorts
<1>4. CASE Notify
  BY <1>4 DEF Notify
<1>5. ASSUME NEW starts \in BOOLEAN, Start(starts)
      PROVE  ServeInv'
  BY <1>5, ServeInvExit DEF Start
<1>. QED
  BY <1>1, <1>2, <1>3, <1>4, <1>5

(* While the child is there, and what happens outside of serve.            *)
LEMMA ServeInvOther ==
  ASSUME ServeInv,
         \/ Forward \/ Wait \/ StopNotify \/ Signal \/ Bind \/ Boot \/ ContainerEnds
         \/ \E ok \in BOOLEAN : PullEnds(ok)
         \/ \E p \in 1 .. LastPort : TakePort(p)
  PROVE  ServeInv'
<1>. USE DEF ServeInv, ChildInv, HeardInv, runVars
<1>1. CASE Forward
  BY <1>1 DEF Forward
<1>2. CASE Wait
  BY <1>2 DEF Wait
<1>3. CASE StopNotify
  BY <1>3, ServeInvExit DEF StopNotify
<1>4. CASE Signal
  BY <1>4, ServeInvExit DEF Signal
<1>5. CASE Bind
  BY <1>5 DEF Bind
<1>6. CASE Boot
  BY <1>6 DEF Boot
<1>7. CASE ContainerEnds
  BY <1>7 DEF ContainerEnds, Up
<1>8. ASSUME NEW ok \in BOOLEAN, PullEnds(ok)
      PROVE  ServeInv'
  BY <1>8 DEF PullEnds
<1>9. ASSUME NEW p \in 1 .. LastPort, TakePort(p)
      PROVE  ServeInv'
  BY <1>9 DEF TakePort
<1>. QED
  BY <1>1, <1>2, <1>3, <1>4, <1>5, <1>6, <1>7, <1>8, <1>9

LEMMA ServeInvNext ==
  ASSUME ServeInv, [Next]_vars
  PROVE  ServeInv'
<1>1. CASE ServeNext
  BY <1>1, ServeInvOwn, ServeInvOther DEF ServeNext
<1>2. CASE UNCHANGED <<pc, runVars>>
  BY <1>2 DEF ServeInv, ChildInv, HeardInv, runVars
<1>. QED
  BY <1>1, <1>2 DEF Next, vars, serveVars

LEMMA ServeInvariant == Spec => []ServeInv
<1>. QED
  BY ServeInvInit, ServeInvNext, PTL DEF Spec

(* A docker process never runs without serve waiting for it, whenever a    *)
(* stop signal comes: runDocker asks for signals before it starts one, and *)
(* until it has waited for it.                                             *)
THEOREM NeverOrphaned == Spec => []NoOrphan
<1>1. ServeInv => NoOrphan
  BY DEF ServeInv, ChildInv, NoOrphan, Up
<1>. QED
  BY <1>1, ServeInvariant, PTL

(* A stop signal that came once the container's process was to be started  *)
(* is in the channel or passed on, as long as that process runs.           *)
THEOREM AlwaysHeard == Spec => []StopHeard
<1>1. ServeInv => StopHeard
  BY DEF ServeInv, HeardInv, StopHeard, Up
<1>. QED
  BY <1>1, ServeInvariant, PTL

------------------------------------------------------------------------------
(* The ports that serve picks, for every pair of ports asked for, every    *)
(* set of ports that others hold and every length of the scan.             *)

Reach(start) == {p \in start .. start + Scan - 1 : p <= LastPort}

LEMMA ReachFinite ==
  ASSUME NEW start \in Nat
  PROVE  Reach(start) \subseteq Nat /\ IsFiniteSet(Reach(start))
<1>. DEFINE last == start + Scan - 1
<1>1. start \in Int /\ last \in Int
  BY PortAssumption
<1>2. Reach(start) \subseteq start .. last
  BY DEF Reach
<1>. HIDE DEF last
<1>3. IsFiniteSet(start .. last)
  BY <1>1, FS_Interval
<1>4. IsFiniteSet(Reach(start))
  BY <1>2, <1>3, FS_Subset
<1>. QED
  BY <1>1, <1>2, <1>4

LEMMA Smallest ==
  ASSUME NEW S \in SUBSET Nat, S # {}
  PROVE  \E p \in S : \A q \in S : p <= q
<1>1. PICK p \in S : \A q \in S : <<q, p>> \notin OpToRel(<, Nat)
  BY WFMin, NatLessThanWellFounded
<1>2. \A q \in S : ~ (q < p)
  BY <1>1 DEF OpToRel
<1>. QED
  BY <1>2

(* firstFreePort: the first of the free ports in its reach, or the start.  *)
LEMMA FirstFree ==
  ASSUME NEW start \in Nat, NEW held
  PROVE  LET p == FirstFreePort(start, held)
             free == Reach(start) \ held
         IN  /\ p \in Nat
             /\ free = {} => p = start
             /\ free # {} => p \in free /\ \A q \in free : p <= q
<1>. DEFINE free == {p \in start .. start + Scan - 1 : p <= LastPort /\ p \notin held}
<1>1. free = Reach(start) \ held /\ free \subseteq Nat
  BY PortAssumption DEF Reach
<1>2. FirstFreePort(start, held) = IF free = {} THEN start ELSE CHOOSE p \in free : \A q \in free : p <= q
  BY DEF FirstFreePort
<1>. HIDE DEF free
<1>3. CASE free = {}
  BY <1>1, <1>2, <1>3
<1>4. CASE free # {}
  <2>1. \E p \in free : \A q \in free : p <= q
    BY <1>1, <1>4, Smallest
  <2>. QED
    BY <1>1, <1>2, <1>4, <2>1
<1>. QED
  BY <1>3, <1>4

LEMMA AtLeastTwo ==
  ASSUME NEW S \in SUBSET Nat, IsFiniteSet(S), ~(Cardinality(S) < 2)
  PROVE  \E a, b \in S : a < b
<1>1. S # {}
  BY FS_EmptySet
<1>2. PICK a \in S : TRUE
  BY <1>1
<1>3. CASE \A b \in S : b = a
  <2>1. S = {a}
    BY <1>2, <1>3
  <2>. QED
    BY <2>1, FS_Singleton
<1>4. CASE \E b \in S : b # a
  BY <1>4
<1>. QED
  BY <1>3, <1>4

(* The two ports are apart, and free if two are free in reach of both: the *)
(* admin port is looked for above the API port when it may not be at it.   *)
LEMMA PickedApart ==
  ASSUME NEW held,
         NEW a \in (Reach(ApiPort) \cap Reach(AdminPort)) \ held,
         NEW b \in (Reach(ApiPort) \cap Reach(AdminPort)) \ held,
         a < b
  PROVE  LET api == FirstFreePort(ApiPort, held)
             admin == FirstFreePort(AdminStart(api), held)
         IN  api # admin /\ {api, admin} \subseteq (1 .. LastPort) \ held
<1>. DEFINE api == FirstFreePort(ApiPort, held)
            start == AdminStart(api)
            admin == FirstFreePort(start, held)
<1>1. /\ a \in Nat /\ b \in Nat /\ a >= ApiPort /\ a >= AdminPort /\ b <= LastPort
      /\ b <= ApiPort + Scan - 1 /\ b <= AdminPort + Scan - 1
  BY PortAssumption DEF Reach
<1>2. ApiPort \in Nat /\ AdminPort \in Nat /\ Scan \in Nat /\ LastPort \in Nat /\ ApiPort > 0 /\ AdminPort > 0
  BY PortAssumption
<1>3. api \in Reach(ApiPort) \ held /\ api <= a
  BY <1>2, FirstFree
<1>4. api \in Nat /\ api >= ApiPort /\ api <= LastPort
  BY <1>2, <1>3 DEF Reach
<1>. HIDE DEF api
<1>5. start \in Nat /\ start > 0
  BY <1>2, <1>4 DEF AdminStart
<1>6. b \in Reach(start) \ held
  BY <1>1, <1>2, <1>3, <1>4 DEF AdminStart, Reach
<1>7. start > api
  BY <1>2, <1>4 DEF AdminStart
<1>. HIDE DEF start
<1>8. admin \in Reach(start) \ held
  BY <1>5, <1>6, FirstFree
<1>9. admin \in Nat /\ admin >= start /\ admin <= LastPort
  BY <1>2, <1>5, <1>8 DEF Reach
<1>. HIDE DEF admin
<1>. QED
  BY <1>2, <1>3, <1>4, <1>5, <1>7, <1>8, <1>9 DEF api, admin, start

-----------------------------------------------------------------------------
(* The container finds the ports that the probe found, unless one was      *)
(* taken in between.                                                       *)
Picked ==
  LET api == FirstFreePort(ApiPort, taken)
  IN  ports.api = api /\ ports.admin = FirstFreePort(AdminStart(api), taken)

PortInv ==
  /\ phase \in {"pull", "run"}
  /\ (phase = "run" /\ ~moved) => Picked
  /\ outcome = "not bound" => pc \in {"wait", "return"} /\ phase = "run" /\ (~moved => ~Bindable)

LEMMA PortInvExit ==
  ASSUME Exit
  PROVE  PortInv'
  BY DEF Exit, PortInv

LEMMA PortInvPick ==
  ASSUME PortInv, NEW held, PickPorts(held)
  PROVE  PortInv'
<1>1. pc = "ports" /\ outcome' = outcome /\ moved' = moved /\ phase' = "run"
  BY DEF PickPorts
<1>2. Picked'
  BY DEF PickPorts, Picked
<1>. QED
  BY <1>1, <1>2 DEF PortInv

(* A step that leaves the ports alone and finds none taken.                *)
LEMMA PortInvStill ==
  ASSUME PortInv, UNCHANGED <<phase, portVars>>,
         outcome' # "not bound" \/ (outcome' = outcome /\ (pc \in {"wait", "return"} => pc' \in {"wait", "return"}))
  PROVE  PortInv'
<1>1. Picked' = Picked /\ Bindable' = Bindable
  BY DEF Picked, Bindable, portVars
<1>. QED
  BY <1>1 DEF PortInv, portVars

LEMMA PortInvServe ==
  ASSUME ServeInv, PortInv, ServeNext
  PROVE  PortInv'
<1>. USE DEF runVars
<1>1. CASE Check
  BY <1>1, PortInvExit, PortInvStill DEF Check
<1>2. ASSUME NEW found \in BOOLEAN, NEW noPull \in BOOLEAN, LookPath(found, noPull)
      PROVE  PortInv'
  BY <1>2, PortInvExit, PortInvStill DEF LookPath
<1>3. ASSUME NEW held \in SUBSET (1 .. LastPort), PickPorts(held)
      PROVE  PortInv'
  BY <1>3, PortInvPick
<1>4. CASE Notify \/ Forward \/ Wait
  BY <1>4, PortInvStill DEF Notify, Forward, Wait
<1>5. ASSUME NEW starts \in BOOLEAN, Start(starts)
      PROVE  PortInv'
  BY <1>5, PortInvExit, PortInvStill DEF Start
<1>6. CASE StopNotify
  <2>1. CASE phase = "pull" /\ outcome = "pulled"
    <3>1. outcome' = "" /\ UNCHANGED <<phase, portVars>>
      BY <1>6, <2>1 DEF StopNotify
    <3>. QED
      BY <3>1, PortInvStill
  <2>2. CASE ~(phase = "pull" /\ outcome = "pulled")
    BY <1>6, <2>2, PortInvExit DEF StopNotify
  <2>. QED
    BY <2>1, <2>2
<1>7. CASE Signal
  BY <1>7, PortInvExit, PortInvStill DEF Signal, ServeInv, ChildInv
<1>8. ASSUME NEW ok \in BOOLEAN, PullEnds(ok)
      PROVE  PortInv'
  BY <1>8, PortInvStill DEF PullEnds
<1>9. CASE Bind
  <2>1. CASE Bindable
    BY <1>9, <2>1, PortInvStill DEF Bind
  <2>2. CASE ~Bindable
    <3>1. /\ UNCHANGED <<pc, phase, portVars>> /\ phase = "run" /\ pc \in {"wait", "return"}
      BY <1>9, <2>2 DEF Bind, ServeInv, ChildInv
    <3>2. Picked' = Picked /\ Bindable' = Bindable /\ moved' = moved
      BY <3>1 DEF Picked, Bindable, portVars
    <3>. QED
      BY <2>2, <3>1, <3>2 DEF PortInv
  <2>. QED
    BY <2>1, <2>2
<1>10. CASE Boot \/ ContainerEnds
  BY <1>10, PortInvStill DEF Boot, ContainerEnds
<1>11. ASSUME NEW p \in 1 .. LastPort, TakePort(p)
       PROVE  PortInv'
  BY <1>11 DEF TakePort, PortInv
<1>. QED
  BY <1>1, <1>2, <1>3, <1>4, <1>5, <1>6, <1>7, <1>8, <1>9, <1>10, <1>11 DEF ServeNext

LEMMA PortInvNext ==
  ASSUME ServeInv, PortInv, [Next]_vars
  PROVE  PortInv'
<1>1. CASE ServeNext
  BY <1>1, PortInvServe
<1>2. CASE UNCHANGED <<pc, runVars, portVars, outcome>>
  BY <1>2, PortInvStill DEF runVars
<1>. QED
  BY <1>1, <1>2 DEF Next, vars, serveVars

LEMMA PortInvariant == Spec => []PortInv
<1>1. Init => PortInv
  BY DEF Init, ServeInit, PortInv
<1>. QED
  BY <1>1, PortInvNext, ServeInvariant, PTL DEF Spec

(* If two ports are free within reach of both that were asked for, docker  *)
(* can bind the two that serve picked: the probe of the admin port starts  *)
(* above the API port it would otherwise meet.                             *)
THEOREM ProbedPortsBind == Spec => []BindsWhatItProbed
<1>1. PortInv => BindsWhatItProbed
  <2>. DEFINE free == (Reach(ApiPort) \cap Reach(AdminPort)) \ taken
  <2>. SUFFICES ASSUME PortInv, outcome = "not bound", ~moved, ~(Cardinality(free) < 2)
                PROVE  FALSE
    BY DEF BindsWhatItProbed, Reach
  <2>1. Picked /\ ~Bindable
    BY DEF PortInv
  <2>2. free \in SUBSET Nat /\ IsFiniteSet(free)
    <3>1. Reach(ApiPort) \subseteq Nat /\ IsFiniteSet(Reach(ApiPort))
      BY PortAssumption, ReachFinite
    <3>2. free \subseteq Reach(ApiPort)
      OBVIOUS
    <3>. HIDE DEF free
    <3>. QED
      BY <3>1, <3>2, FS_Subset
  <2>. HIDE DEF free
  <2>3. PICK a, b \in free : a < b
    BY <2>2, AtLeastTwo
  <2>4. ports.api # ports.admin /\ {ports.api, ports.admin} \subseteq (1 .. LastPort) \ taken
    <3>. DEFINE api == FirstFreePort(ApiPort, taken)
                admin == FirstFreePort(AdminStart(api), taken)
    <3>1. ports.api = api /\ ports.admin = admin
      BY <2>1 DEF Picked
    <3>2. a \in (Reach(ApiPort) \cap Reach(AdminPort)) \ taken /\ b \in (Reach(ApiPort) \cap Reach(AdminPort)) \ taken
      BY DEF free
    <3>3. api # admin /\ {api, admin} \subseteq (1 .. LastPort) \ taken
      BY <2>3, <3>2, PickedApart
    <3>. HIDE DEF api, admin
    <3>. QED
      BY <3>1, <3>3
  <2>. QED
    BY <2>1, <2>4 DEF Bindable
<1>. QED
  BY <1>1, PortInvariant, PTL

-----------------------------------------------------------------------------
(* The writing commands                                                    *)

Docs == {DatasetTemplate(TRUE), EndpointTemplate(TRUE), ProjectTemplate(TRUE),
         DatasetTemplate(FALSE), EndpointTemplate(FALSE), ProjectTemplate(FALSE), KeysTemplate}
StarterFile == [path : StarterPaths, doc : Docs]

CommandFields == {"name", "force", "files", "there", "alone", "result"}

(* What an unforced init still has to write was not there when it began.   *)
KeepInv ==
  /\ command = [f \in CommandFields |-> command[f]]
  /\ command.there \subseteq DOMAIN dir
  /\ command.name = "init" => command.files \in Seq(StarterFile)
  /\ (command.name = "init" /\ ~command.force)
       => \A i \in DOMAIN command.files : command.files[i].path \notin command.there

Unharmed ==
  (command.name = "init" /\ ~command.force /\ command'.files # command.files)
    => \A path \in command.there : dir'[path] = dir[path]

LEMMA IsStarterFile ==
  ASSUME NEW path \in StarterPaths, NEW doc \in Docs
  PROVE  [path |-> path, doc |-> doc] \in StarterFile
  BY DEF StarterFile

LEMMA StarterFiles ==
  ASSUME NEW public \in BOOLEAN
  PROVE  ScaffoldProject(public) \in Seq(StarterFile)
<1>0. /\ DatasetTemplate(public) \in Docs /\ EndpointTemplate(public) \in Docs
      /\ ProjectTemplate(public) \in Docs /\ KeysTemplate \in Docs
  <2>1. CASE public = TRUE
    BY <2>1 DEF Docs
  <2>2. CASE public = FALSE
    BY <2>2 DEF Docs
  <2>. QED
    BY <2>1, <2>2
<1>. DEFINE dataset == [path |-> "datasets/events.yml", doc |-> DatasetTemplate(public)]
            endpoint == [path |-> "endpoints/events_by_day.yml", doc |-> EndpointTemplate(public)]
            keys == [path |-> "keys/keys.yml", doc |-> KeysTemplate]
            project == [path |-> "offloader.yml", doc |-> ProjectTemplate(public)]
<1>1. /\ dataset \in StarterFile /\ endpoint \in StarterFile
      /\ keys \in StarterFile /\ project \in StarterFile
  <2>. /\ "datasets/events.yml" \in StarterPaths /\ "endpoints/events_by_day.yml" \in StarterPaths
       /\ "keys/keys.yml" \in StarterPaths /\ "offloader.yml" \in StarterPaths
    BY Zenon DEF StarterPaths
  <2>1. dataset \in StarterFile
    BY <1>0, IsStarterFile, Zenon
  <2>2. endpoint \in StarterFile
    BY <1>0, IsStarterFile, Zenon
  <2>3. keys \in StarterFile
    BY <1>0, IsStarterFile, Zenon
  <2>4. project \in StarterFile
    BY <1>0, IsStarterFile, Zenon
  <2>. QED
    BY <2>1, <2>2, <2>3, <2>4
<1>2. ScaffoldProject(public)
        = <<dataset, endpoint>> \o (IF public THEN <<>> ELSE <<keys>>) \o <<project>>
  BY DEF ScaffoldProject
<1>. HIDE DEF dataset, endpoint, keys, project
<1>. QED
  BY <1>1, <1>2

LEMMA IdleKeeps ==
  ASSUME command = Idle
  PROVE  KeepInv
<1>1. command = [f \in CommandFields |-> command[f]]
  BY DEF Idle, CommandFields
<1>2. command.there = {} /\ command.name = "none"
  BY DEF Idle
<1>. QED
  BY <1>1, <1>2 DEF KeepInv

(* Clobbers is the check that makes an init stop before it writes.         *)
LEMMA KeepInvInitCommand ==
  ASSUME KeepInv, NEW public \in BOOLEAN, NEW force \in BOOLEAN, InitCommand(public, force)
  PROVE  KeepInv'
<1>. DEFINE files == ScaffoldProject(public)
            left == IF ~force /\ Clobbers(files) # {} THEN <<>> ELSE files
<1>1. /\ command' = [name |-> "init", force |-> force, there |-> There, alone |-> TRUE,
                     files |-> left, result |-> IF ~force /\ Clobbers(files) # {} THEN "failed" ELSE ""]
      /\ dir' = dir
  BY DEF InitCommand
<1>2. left \in Seq(StarterFile)
  BY StarterFiles
<1>3. ~force => \A i \in DOMAIN left : left[i].path \notin There
  BY DEF Clobbers
<1>4. There \subseteq DOMAIN dir
  BY DEF There, Paths
<1>. HIDE DEF left
<1>5. command' = [f \in CommandFields |-> command'[f]]
  BY <1>1 DEF CommandFields
<1>6. command'.there = There /\ command'.files = left /\ command'.force = force
  BY <1>1
<1>. QED
  BY <1>1, <1>2, <1>3, <1>4, <1>5, <1>6 DEF KeepInv

LEMMA KeepInvScaffold ==
  ASSUME KeepInv, NEW id, NEW tenant, ScaffoldDataset(id, tenant)
  PROVE  KeepInv'
<1>1. There \subseteq DOMAIN dir
  BY DEF There, Paths
<1>. QED
  BY <1>1 DEF ScaffoldDataset, KeepInv, CommandFields

LEMMA RestOfFiles ==
  ASSUME NEW S, NEW files \in Seq(S), files # <<>>
  PROVE  /\ Tail(files) \in Seq(S)
         /\ Head(files) = files[1] /\ 1 \in DOMAIN files
         /\ \A i \in DOMAIN Tail(files) : i + 1 \in DOMAIN files /\ Tail(files)[i] = files[i + 1]
  OBVIOUS

LEMMA KeepInvWrite ==
  ASSUME KeepInv, WriteFile \/ WriteFails
  PROVE  KeepInv' /\ Unharmed
<1>1. /\ command.files # <<>>
      /\ \E doc : dir' = [dir EXCEPT ![Head(command.files).path] = doc]
      /\ command'.files \in {Tail(command.files), <<>>}
      /\ \A f \in CommandFields \ {"files", "result"} : command'[f] = command[f]
      /\ command' = [f \in CommandFields |-> command'[f]]
  BY DEF KeepInv, CommandFields, WriteFile, WriteFails
<1>2. DOMAIN dir' = DOMAIN dir
  BY <1>1
<1>3. CASE command.name = "init"
  <2>1. command.files \in Seq(StarterFile)
    BY <1>3 DEF KeepInv
  <2>a. /\ Tail(command.files) \in Seq(StarterFile)
        /\ Head(command.files) = command.files[1] /\ 1 \in DOMAIN command.files
        /\ \A i \in DOMAIN Tail(command.files) :
             i + 1 \in DOMAIN command.files /\ Tail(command.files)[i] = command.files[i + 1]
    BY <1>1, <2>1, RestOfFiles, Zenon
  <2>b. <<>> \in Seq(StarterFile)
    OBVIOUS
  <2>c. command'.files \in {Tail(command.files), <<>>}
    BY <1>1
  <2>2. command'.files \in Seq(StarterFile)
    BY <2>a, <2>b, <2>c, Zenon
  <2>d. ~command.force => \A i \in DOMAIN command.files : command.files[i].path \notin command.there
    BY <1>3 DEF KeepInv
  <2>3. ASSUME ~command.force, NEW i \in DOMAIN command'.files
        PROVE  command'.files[i].path \notin command.there
    <3>1. CASE command'.files = <<>>
      BY <3>1
    <3>2. CASE command'.files = Tail(command.files)
      <4>1. i \in DOMAIN Tail(command.files)
        BY <3>2
      <4>2. i + 1 \in DOMAIN command.files /\ command'.files[i] = command.files[i + 1]
        BY <2>a, <3>2, <4>1, Zenon
      <4>. QED
        BY <2>d, <2>3, <4>2, Zenon
    <3>. QED
      BY <2>c, <3>1, <3>2
  <2>4. Unharmed
    <3>. SUFFICES ASSUME ~command.force, NEW path \in command.there
                  PROVE  dir'[path] = dir[path]
      BY DEF Unharmed
    <3>1. Head(command.files).path \notin command.there
      BY <2>a, <2>d, Zenon
    <3>2. path \in DOMAIN dir
      BY DEF KeepInv
    <3>3. PICK doc : dir' = [dir EXCEPT ![Head(command.files).path] = doc]
      BY <1>1, Zenon
    <3>. HIDE DEF Unharmed
    <3>. QED
      BY <3>1, <3>2, <3>3
  <2>. QED
    BY <1>1, <1>2, <1>3, <2>2, <2>3, <2>4 DEF KeepInv, CommandFields
<1>4. CASE command.name # "init"
  BY <1>1, <1>2, <1>4 DEF KeepInv, Unharmed, CommandFields
<1>. QED
  BY <1>3, <1>4

LEMMA KeepInvEdit ==
  ASSUME KeepInv, NEW e, Edit(e)
  PROVE  KeepInv' /\ command'.files = command.files
<1>1. DOMAIN dir' = DOMAIN dir
  BY DEF Edit
<1>2. /\ command' = [f \in CommandFields |-> command'[f]]
      /\ \A f \in CommandFields \ {"alone"} : command'[f] = command[f]
  BY DEF Edit, KeepInv, CommandFields
<1>. QED
  BY <1>1, <1>2 DEF KeepInv, CommandFields

LEMMA KeepInvNext ==
  ASSUME KeepInv, [Next]_vars
  PROVE  KeepInv' /\ (Unharmed \/ UNCHANGED toolVars)
<1>1. CASE UNCHANGED toolVars
  BY <1>1 DEF KeepInv, toolVars
<1>2. CASE ToolNext
  <2>1. ASSUME NEW e \in Edits, Edit(e)
        PROVE  KeepInv' /\ Unharmed
    BY <2>1, KeepInvEdit DEF Unharmed
  <2>2. ASSUME NEW public \in BOOLEAN, NEW force \in BOOLEAN, InitCommand(public, force)
        PROVE  KeepInv' /\ Unharmed
    BY <2>2, KeepInvInitCommand DEF Unharmed, InitCommand
  <2>3. ASSUME NEW tenant \in {"", "tenant_id"}, ScaffoldDataset("scaffolded", tenant)
        PROVE  KeepInv' /\ Unharmed
    BY <2>3, KeepInvScaffold DEF Unharmed, ScaffoldDataset
  <2>4. CASE WriteFile \/ WriteFails
    BY <2>4, KeepInvWrite
  <2>5. CASE CommandEnds
    BY <2>5 DEF CommandEnds, KeepInv, Unharmed, Idle, CommandFields
  <2>. QED
    BY <1>2, <2>1, <2>2, <2>3, <2>4, <2>5 DEF ToolNext
<1>. QED
  BY <1>1, <1>2 DEF Next, vars

(* Without --force, init harms no file that was there when it began: for   *)
(* whatever is in the directory, and whichever of its writes fails.        *)
THEOREM InitNeverClobbers == Spec => InitKeeps
<1>1. Init => KeepInv
  BY IdleKeeps DEF Init, ToolInit
<1>2. KeepInv /\ [Next]_vars => KeepInv'
  BY KeepInvNext
<1>3. KeepInv /\ [Next]_vars => [Unharmed]_toolVars
  BY KeepInvNext
<1>4. Spec => [][Unharmed]_toolVars
  BY <1>1, <1>2, <1>3, PTL DEF Spec
<1>. QED
  BY <1>4 DEF InitKeeps, Unharmed

-----------------------------------------------------------------------------
(* Types *)

(* The empty string is kept to Flags and to Results: the SMT solver does   *)
(* not take it.                                                            *)
Results == {"", "done", "failed"}

CommandOK ==
  /\ command = [f \in CommandFields |-> command[f]]
  /\ command.name \in {"none", "init", "scaffold"}
  /\ command.result \in Results

Flags ==
  /\ notified \in BOOLEAN /\ pending \in BOOLEAN /\ told \in BOOLEAN /\ asked \in BOOLEAN
  /\ moved \in BOOLEAN /\ touched \in BOOLEAN
  /\ outcome \in {"", "pulled", "not pulled", "not bound", "refused", "ended"}

Kinds ==
  /\ pc \in {"idle", "lookup", "ports", "notify", "start", "wait", "return", "killed"}
  /\ phase \in {"pull", "run"}
  /\ child \in {"none", "up", "bound", "ready", "gone"}
  /\ ports.api \in Nat /\ ports.admin \in Nat
  /\ taken \subseteq 1 .. LastPort

Types == changes \in 0 .. MaxChanges /\ CommandOK /\ Flags /\ Kinds

LEMMA FlagsNext ==
  ASSUME Flags, ServeNext
  PROVE  Flags'
<1>. USE DEF Flags, runVars, portVars
<1>e. Exit => Flags'
  BY Zenon DEF Exit
<1>1. CASE Check
  BY <1>1, <1>e, Zenon DEF Check
<1>2. ASSUME NEW found \in BOOLEAN, NEW noPull \in BOOLEAN, LookPath(found, noPull)
      PROVE  Flags'
  BY <1>2, <1>e, Zenon DEF LookPath
<1>3. CASE Notify
  BY <1>3, Zenon DEF Notify
<1>4. ASSUME NEW starts \in BOOLEAN, Start(starts)
      PROVE  Flags'
  BY <1>4, <1>e, Zenon DEF Start
<1>5. CASE Forward
  BY <1>5, Zenon DEF Forward
<1>6. CASE Wait
  BY <1>6, Zenon DEF Wait
<1>7. CASE StopNotify
  BY <1>7, <1>e, Zenon DEF StopNotify
<1>8. CASE Signal
  BY <1>8, <1>e, Zenon DEF Signal
<1>9. ASSUME NEW ok \in BOOLEAN, PullEnds(ok)
      PROVE  Flags'
  BY <1>9, Zenon DEF PullEnds
<1>10. CASE Bind
  BY <1>10, Zenon DEF Bind
<1>11. CASE Boot
  BY <1>11, Zenon DEF Boot
<1>12. CASE ContainerEnds
  BY <1>12, Zenon DEF ContainerEnds
<1>13. ASSUME NEW p \in 1 .. LastPort, TakePort(p)
       PROVE  Flags'
  BY <1>13, Zenon DEF TakePort
<1>14. ASSUME NEW held \in SUBSET (1 .. LastPort), PickPorts(held)
       PROVE  Flags'
  BY <1>14, Zenon DEF PickPorts
<1>. QED
  BY <1>1, <1>2, <1>3, <1>4, <1>5, <1>6, <1>7, <1>8, <1>9, <1>10, <1>11, <1>12, <1>13, <1>14, Zenon DEF ServeNext

LEMMA KindsNext ==
  ASSUME Kinds, ServeNext
  PROVE  Kinds'
<1>. USE DEF Kinds, runVars, portVars
<1>e. ASSUME Exit
      PROVE  Kinds'
  <2>1. ports'.api = 0 /\ ports'.admin = 0
    BY <1>e DEF Exit, NoPorts
  <2>2. pc' = "idle" /\ phase' = "pull" /\ child' = "none" /\ taken' = {}
    BY <1>e DEF Exit
  <2>. QED
    BY <2>1, <2>2
<1>1. CASE Check
  BY <1>1, <1>e DEF Check
<1>2. ASSUME NEW found \in BOOLEAN, NEW noPull \in BOOLEAN, LookPath(found, noPull)
      PROVE  Kinds'
  BY <1>2, <1>e DEF LookPath
<1>3. CASE Notify
  BY <1>3 DEF Notify
<1>4. ASSUME NEW starts \in BOOLEAN, Start(starts)
      PROVE  Kinds'
  BY <1>4, <1>e DEF Start
<1>5. CASE Forward
  BY <1>5 DEF Forward
<1>6. CASE Wait
  BY <1>6 DEF Wait
<1>7. CASE StopNotify
  BY <1>7, <1>e DEF StopNotify
<1>8. CASE Signal
  BY <1>8, <1>e DEF Signal
<1>9. ASSUME NEW ok \in BOOLEAN, PullEnds(ok)
      PROVE  Kinds'
  BY <1>9 DEF PullEnds
<1>10. CASE Bind
  BY <1>10 DEF Bind
<1>11. CASE Boot
  BY <1>11 DEF Boot
<1>12. CASE ContainerEnds
  BY <1>12 DEF ContainerEnds
<1>13. ASSUME NEW p \in 1 .. LastPort, TakePort(p)
       PROVE  Kinds'
  BY <1>13 DEF TakePort
<1>14. ASSUME NEW held \in SUBSET (1 .. LastPort), PickPorts(held)
       PROVE  Kinds'
  <2>0. ApiPort \in Nat /\ AdminPort \in Nat
    BY PortAssumption
  <2>1. FirstFreePort(ApiPort, held) \in Nat
    BY <2>0, FirstFree
  <2>2. AdminStart(FirstFreePort(ApiPort, held)) \in Nat
    BY <2>0, <2>1 DEF AdminStart
  <2>3. FirstFreePort(AdminStart(FirstFreePort(ApiPort, held)), held) \in Nat
    BY <2>2, FirstFree
  <2>. QED
    BY <1>14, <2>1, <2>3 DEF PickPorts
<1>. QED
  BY <1>1, <1>2, <1>3, <1>4, <1>5, <1>6, <1>7, <1>8, <1>9, <1>10, <1>11, <1>12, <1>13, <1>14 DEF ServeNext

(* A step that sets every field of a command.                              *)
LEMMA NewCommandOK ==
  ASSUME NEW name \in {"none", "init", "scaffold"}, NEW force, NEW files, NEW there, NEW alone,
         NEW result \in Results,
         command' = [name |-> name, force |-> force, files |-> files, there |-> there,
                     alone |-> alone, result |-> result]
  PROVE  CommandOK'
  BY DEF CommandOK, CommandFields

LEMMA CommandNext ==
  ASSUME CommandOK, ToolNext
  PROVE  CommandOK'
<1>0. "" \in Results /\ "done" \in Results /\ "failed" \in Results
  BY Zenon DEF Results
<1>1. ASSUME NEW e, Edit(e)
      PROVE  CommandOK'
  <2>1. \E alone : command' = [command EXCEPT !.alone = alone]
    BY <1>1, Zenon DEF Edit
  <2>. QED
    BY <2>1 DEF CommandOK, CommandFields
<1>2. ASSUME NEW public, NEW force, InitCommand(public, force)
      PROVE  CommandOK'
  <2>. DEFINE refused == ~force /\ Clobbers(ScaffoldProject(public)) # {}
              left == IF refused THEN <<>> ELSE ScaffoldProject(public)
              result == IF refused THEN "failed" ELSE ""
  <2>1. command' = [name |-> "init", force |-> force, files |-> left, there |-> There,
                    alone |-> TRUE, result |-> result]
    BY <1>2 DEF InitCommand
  <2>2. result \in Results
    BY <1>0
  <2>. HIDE DEF left, result
  <2>. QED
    BY <2>1, <2>2, NewCommandOK
<1>3. ASSUME NEW id, NEW tenant, ScaffoldDataset(id, tenant)
      PROVE  CommandOK'
  <2>. DEFINE cols == ReadSchema(dir[Source])
              refused == cols = <<>> \/ id \notin SafeIdents \/ (tenant # "" /\ ~HasColumn(cols, tenant))
              left == IF refused THEN <<>> ELSE <<[path |-> Target, doc |-> RenderDataset(id, cols, tenant)]>>
              result == IF refused THEN "failed" ELSE ""
  <2>1. command' = [name |-> "scaffold", force |-> TRUE, files |-> left, there |-> There,
                    alone |-> TRUE, result |-> result]
    BY <1>3 DEF ScaffoldDataset
  <2>2. result \in Results
    BY <1>0
  <2>. HIDE DEF left, result
  <2>. QED
    BY <2>1, <2>2, NewCommandOK
<1>4. CASE WriteFile
  <2>. DEFINE left == Tail(command.files)
              result == IF left = <<>> THEN "done" ELSE ""
  <2>1. command' = [command EXCEPT !.files = left, !.result = result]
    BY <1>4 DEF WriteFile
  <2>2. result \in Results
    BY <1>0
  <2>. HIDE DEF left, result
  <2>. QED
    BY <2>1, <2>2 DEF CommandOK, CommandFields
<1>5. CASE WriteFails
  <2>1. command' = [command EXCEPT !.files = <<>>, !.result = "failed"]
    BY <1>5, Zenon DEF WriteFails
  <2>. QED
    BY <1>0, <2>1 DEF CommandOK, CommandFields
<1>6. CASE CommandEnds
  <2>1. command' = [name |-> "none", force |-> FALSE, files |-> <<>>, there |-> {},
                    alone |-> TRUE, result |-> ""]
    BY <1>6, Zenon DEF CommandEnds, Idle
  <2>. QED
    BY <1>0, <2>1, NewCommandOK, Zenon
<1>. QED
  BY <1>1, <1>2, <1>3, <1>4, <1>5, <1>6, Zenon DEF ToolNext

LEMMA TypesNext ==
  ASSUME Types, [Next]_vars
  PROVE  Types'
<1>1. CASE ServeNext /\ UNCHANGED toolVars
  <2>1. changes' = changes /\ command' = command
    BY <1>1, Zenon DEF toolVars
  <2>2. CommandOK'
    BY <2>1 DEF Types, CommandOK
  <2>. QED
    BY <1>1, <2>1, <2>2, FlagsNext, KindsNext DEF Types
<1>2. CASE /\ ToolNext
           /\ touched' = (touched \/ (pc # "idle" /\ dir' # dir))
           /\ UNCHANGED <<pc, runVars, portVars, outcome>>
  <2>1. Flags'
    BY <1>2, Zenon DEF Types, Flags, runVars, portVars
  <2>2. Kinds'
    BY <1>2 DEF Types, Kinds, runVars, portVars
  <2>3. changes' = changes \/ (changes < MaxChanges /\ changes' = changes + 1)
    BY <1>2, Zenon DEF ToolNext, Edit, InitCommand, ScaffoldDataset, WriteFile, WriteFails, CommandEnds
  <2>4. changes' \in 0 .. MaxChanges
    BY <2>3, ChangesAssumption DEF Types
  <2>. QED
    BY <1>2, <2>1, <2>2, <2>4, CommandNext DEF Types
<1>3. CASE UNCHANGED vars
  <2>1. UNCHANGED <<changes, command>> /\ UNCHANGED <<pc, runVars, portVars, outcome, touched>>
    BY <1>3, Zenon DEF vars, toolVars, serveVars
  <2>2. Flags'
    BY <2>1, Zenon DEF Types, Flags, runVars, portVars
  <2>3. Kinds' /\ CommandOK'
    BY <2>1 DEF Types, Kinds, CommandOK, runVars, portVars
  <2>. QED
    BY <2>1, <2>2, <2>3 DEF Types
<1>. QED
  BY <1>1, <1>2, <1>3 DEF Next

(* Every variable of the commands and of serve holds a value of its kind.  *)
THEOREM ServeTypeCorrect == Spec => []TypeOK
<1>1. Init => Types
  <2>. SUFFICES ASSUME Init
                PROVE  Types
    OBVIOUS
  <2>1. Flags
    BY Zenon DEF Init, ServeInit, Flags
  <2>2. pc = "idle" /\ phase = "pull" /\ child = "none" /\ ports = NoPorts /\ taken = {}
    BY Zenon DEF Init, ServeInit
  <2>3. Kinds
    BY <2>2 DEF Kinds, NoPorts
  <2>4. changes = 0 /\ command = [name |-> "none", force |-> FALSE, files |-> <<>>, there |-> {},
                                  alone |-> TRUE, result |-> ""]
    BY Zenon DEF Init, ToolInit, Idle
  <2>5. CommandOK
    <3>1. "" \in Results
      BY Zenon DEF Results
    <3>2. PICK result \in Results : command = [name |-> "none", force |-> FALSE, files |-> <<>>,
                                               there |-> {}, alone |-> TRUE, result |-> result]
      BY <2>4, <3>1, Zenon
    <3>. QED
      BY <3>2 DEF CommandOK, CommandFields
  <2>6. changes \in 0 .. MaxChanges
    <3>1. changes = 0
      BY <2>4, Zenon
    <3>. QED
      BY <3>1, ChangesAssumption
  <2>. QED
    BY <2>1, <2>3, <2>5, <2>6 DEF Types
<1>2. Types => TypeOK
  <2>. SUFFICES ASSUME Types
                PROVE  TypeOK
    OBVIOUS
  <2>1. Kinds /\ CommandOK /\ changes \in 0 .. MaxChanges
    BY DEF Types
  <2>2. {ports.api, ports.admin} \subseteq Nat
    BY <2>1 DEF Kinds
  <2>. QED
    BY <2>1, <2>2, Zenon DEF Types, Flags, Kinds, CommandOK, Results, TypeOK
<1>. QED
  BY <1>1, <1>2, TypesNext, PTL DEF Spec
=============================================================================
