------------------------------- MODULE Translator -------------------------------
(***************************************************************************)
(* The translator in detail: the snapshots it gets, the choice of a mesh   *)
(* for each fault while meshes come and go, the reconciliation of routing  *)
(* rules one API call at a time, the calls that fail, the restarts of the  *)
(* server after each failure, and rules that somebody else has written.    *)
(*                                                                         *)
(* The starter and the failure checker, which run before and after it in   *)
(* the same pass, and the watch before the emitter do not show here: an    *)
(* experiment is running or concluded, and a snapshot may be taken at any  *)
(* moment and synced at any later one.                                     *)
(***************************************************************************)
EXTENDS Integers, Sequences

CONSTANTS
  Names,          \* the experiments
  MaxFaults,      \* bound on the faults of an experiment
  Faults,         \* contents of a fault, services included
  BadFault,       \* a content that cannot be translated
  Meshes,         \* the meshes there may be in the namespace of the option
  NoMesh,         \* a nil target mesh
  NoExperiment,
  NoRule,
  Nothing,        \* no fault (see RuleSync)
  UserSpecs,      \* the specs users write
  Foreign,        \* names of rules that others may have written
  MaxChanges,     \* bound on the changes to experiments
  MaxMeshChanges, \* bound on the changes to meshes
  MaxFailures,    \* bound on the calls of the API that fail
  MaxCrashes      \* bound on the crashes that no error causes

\* A rule is named after its experiment and the index of its fault.
Keys == Names \X (1 .. MaxFaults)

ExperimentSpec == [mesh : Meshes \cup {NoMesh}, faults : Seq(Faults \cup {BadFault})]

Experiment == [spec : UserSpecs, concluded : BOOLEAN]

Rule == [mesh : Meshes, fault : Faults]

ASSUME SpecsAssumption ==
  \A s \in UserSpecs : s \in ExperimentSpec /\ Len(s.faults) <= MaxFaults

ASSUME ForeignAssumption == Foreign \subseteq Keys

ASSUME SentinelsAssumption ==
  /\ NoExperiment \notin Experiment
  /\ NoRule \notin Rule
  /\ Nothing \notin Faults
  /\ BadFault \notin Faults
  /\ NoMesh \notin Meshes

ASSUME BoundsAssumption ==
  /\ MaxFaults \in Nat /\ MaxChanges \in Nat /\ MaxMeshChanges \in Nat
  /\ MaxFailures \in Nat /\ MaxCrashes \in Nat

VARIABLES
  \* what the Kubernetes API keeps
  store,     \* the experiments
  meshes,    \* the meshes
  rules,     \* the routing rules labelled created_by: glooshot
  others,    \* names of the routing rules without that label
  \* the environment
  changes, meshChanges, failures, crashes,
  \* the emitter
  original,  \* the last snapshot emitted
  snapshots, \* the snapshot it waits for the event loop to take, if any
  \* the pass
  loop,      \* the step of the pass
  snap,      \* the snapshot it syncs
  desired,   \* the rules translated so far
  listed,    \* the rules that were there when the reconciler listed them
  todo,      \* faults left to translate, rules left to write or to delete
  \* the main goroutine
  main

api     == <<store, meshes, rules, others>>
counts  == <<changes, meshChanges, failures, crashes>>
emitter == <<original, snapshots>>
pass    == <<loop, snap, desired, listed, todo>>
vars    == <<api, counts, emitter, pass, main>>

Snapshots == [Names -> Experiment \cup {NoExperiment}]

EmptySnapshot == [n \in Names |-> NoExperiment]

NoRules == [k \in Keys |-> NoRule]

TypeOK ==
  /\ store \in Snapshots
  /\ meshes \subseteq Meshes
  /\ rules \in [Keys -> Rule \cup {NoRule}]
  /\ others \subseteq Keys
  /\ changes \in Nat /\ meshChanges \in Nat /\ failures \in Nat /\ crashes \in Nat
  /\ original \in Snapshots
  /\ snapshots \in Seq(Snapshots) /\ Len(snapshots) <= 1
  /\ loop \in {"idle", "translating", "writing", "deleting"}
  /\ snap \in Snapshots
  /\ desired \in [Keys -> Rule \cup {NoRule}]
  /\ listed \subseteq Keys /\ todo \subseteq Keys
  /\ main \in {"ranging", "failed"}

ProcessInit ==
  /\ original = EmptySnapshot /\ snapshots = <<>>
  /\ loop = "idle" /\ snap = EmptySnapshot
  /\ desired = NoRules /\ listed = {} /\ todo = {}
  /\ main = "ranging"

Init ==
  /\ store = EmptySnapshot
  /\ meshes \in SUBSET Meshes
  /\ rules = NoRules
  /\ others \in SUBSET Foreign
  /\ changes = 0 /\ meshChanges = 0 /\ failures = 0 /\ crashes = 0
  /\ ProcessInit

-----------------------------------------------------------------------------
(* Users, the rest of the server, and the mesh.                            *)

Becomes(n, e) ==
  /\ changes < MaxChanges
  /\ changes' = changes + 1
  /\ store' = [store EXCEPT ![n] = e]
  /\ UNCHANGED <<meshes, rules, others, meshChanges, failures, crashes, emitter, pass, main>>

\* A user creates an experiment or edits its spec.
Submit(n, spec) ==
  /\ store[n] # NoExperiment => ~store[n].concluded
  /\ Becomes(n, [spec |-> spec, concluded |-> FALSE])

Conclude(n) ==
  /\ store[n] # NoExperiment /\ ~store[n].concluded
  /\ Becomes(n, [store[n] EXCEPT !.concluded = TRUE])

Delete(n) == store[n] # NoExperiment /\ Becomes(n, NoExperiment)

\* SuperGloo registers a mesh or drops one.
ChangeMesh(m) ==
  /\ meshChanges < MaxMeshChanges
  /\ meshChanges' = meshChanges + 1
  /\ meshes' = IF m \in meshes THEN meshes \ {m} ELSE meshes \cup {m}
  /\ UNCHANGED <<store, rules, others, changes, failures, crashes, emitter, pass, main>>

Environment ==
  \/ \E n \in Names : (\E spec \in UserSpecs : Submit(n, spec)) \/ Conclude(n) \/ Delete(n)
  \/ \E m \in Meshes : ChangeMesh(m)

-----------------------------------------------------------------------------
(* The emitter and the event loop.                                         *)

Emit ==
  /\ snapshots = <<>>
  /\ original # store
  /\ original' = store
  /\ snapshots' = <<store>>
  /\ UNCHANGED <<api, counts, pass, main>>

\* The faults that translateToRoutingRule makes a rule of: those of the experiments
\* that are not concluded.
FaultKeys(s) ==
  {k \in Keys : /\ s[k[1]] # NoExperiment /\ ~s[k[1]].concluded
                /\ k[2] \in DOMAIN s[k[1]].spec.faults}

Receive ==
  /\ loop = "idle" /\ snapshots # <<>>
  /\ snapshots' = <<>>
  /\ snap' = Head(snapshots)
  /\ loop' = "translating"
  /\ todo' = FaultKeys(Head(snapshots))
  /\ UNCHANGED <<api, counts, original, desired, listed, main>>

\* Slip: the rules translated stay for the next pass.
EndPassKeepingRules ==
  /\ loop' = "idle"
  /\ listed' = {} /\ todo' = {}
  /\ UNCHANGED <<emitter, snap, desired>>

EndPass ==
  /\ loop' = "idle"
  /\ desired' = NoRules /\ listed' = {} /\ todo' = {}
  /\ UNCHANGED <<emitter, snap>>

\* Slip: the error is lost.
FailPassSilently == EndPass /\ UNCHANGED main

\* Sync returns an error: the loop hands it to the main goroutine.
FailPass == EndPass /\ main' = "failed"

-----------------------------------------------------------------------------
(* Translation.                                                            *)

\* Slip: the mesh is taken as the experiment has it.
TargetMeshesUnread(e) == {e.spec.mesh}

\* The mesh the experiment names, if there is one of this name; the only one there
\* is, if the experiment names none.
TargetMeshes(e) ==
  {m \in meshes : m = e.spec.mesh \/ (e.spec.mesh = NoMesh /\ meshes = {m})}

Fault(k) == snap[k[1]].spec.faults[k[2]]

TranslateFault(k) ==
  /\ loop = "translating" /\ k \in todo
  /\ Fault(k) # BadFault
  /\ \E m \in TargetMeshes(snap[k[1]]) :
       desired' = [desired EXCEPT ![k] = [mesh |-> m, fault |-> Fault(k)]]
  /\ todo' = todo \ {k}
  /\ UNCHANGED <<api, counts, emitter, loop, snap, listed, main>>

\* No mesh, no single one to default to, or a fault that cannot be translated.
TranslationFails(k) ==
  /\ loop = "translating" /\ k \in todo
  /\ Fault(k) = BadFault \/ TargetMeshes(snap[k[1]]) = {}
  /\ FailPass
  /\ UNCHANGED <<api, counts>>

-----------------------------------------------------------------------------
(* Reconciliation.                                                         *)

Ours == {k \in Keys : rules[k] # NoRule}

Desired == {k \in Keys : desired[k] # NoRule}

\* The reconciler lists the rules with our label.
List ==
  /\ loop = "translating" /\ todo = {}
  /\ listed' = Ours
  /\ loop' = "writing"
  /\ todo' = Desired
  /\ UNCHANGED <<api, counts, emitter, snap, desired, main>>

\* Slip: a rule of somebody else's is overwritten.
WriteRuleOverOthers(k) ==
  /\ loop = "writing" /\ k \in todo
  /\ rules' = [rules EXCEPT ![k] = desired[k]]
  /\ others' = others \ {k}
  /\ todo' = todo \ {k}
  /\ UNCHANGED <<store, meshes, counts, emitter, loop, snap, desired, listed, main>>

\* A rule that was listed is updated, another one is created.
WriteRule(k) ==
  /\ loop = "writing" /\ k \in todo
  /\ k \in listed \/ k \notin others
  /\ rules' = [rules EXCEPT ![k] = desired[k]]
  /\ todo' = todo \ {k}
  /\ UNCHANGED <<store, meshes, others, counts, emitter, loop, snap, desired, listed, main>>

\* There is a rule of this name that the list did not show.
NameTaken(k) ==
  /\ loop = "writing" /\ k \in todo
  /\ k \notin listed /\ k \in others
  /\ FailPass
  /\ UNCHANGED <<api, counts>>

\* Slip: only the rules of experiments that are gone are looked at.
StaleOfDeleted == {k \in listed : snap[k[1]] = NoExperiment}

Stale == listed \ Desired

BeginDeleting ==
  /\ loop = "writing" /\ todo = {}
  /\ loop' = "deleting"
  /\ todo' = Stale
  /\ UNCHANGED <<api, counts, emitter, snap, desired, listed, main>>

DeleteRule(k) ==
  /\ loop = "deleting" /\ k \in todo
  /\ rules' = [rules EXCEPT ![k] = NoRule]
  /\ todo' = todo \ {k}
  /\ UNCHANGED <<store, meshes, others, counts, emitter, loop, snap, desired, listed, main>>

SyncReturns ==
  /\ loop = "deleting" /\ todo = {}
  /\ EndPass
  /\ UNCHANGED <<api, counts, main>>

\* A call of the API fails: the lookup of a mesh, the list, a write or a deletion.
CallFails ==
  /\ loop # "idle"
  /\ failures < MaxFailures
  /\ failures' = failures + 1
  /\ FailPass
  /\ UNCHANGED <<api, changes, meshChanges, crashes>>

-----------------------------------------------------------------------------
(* The process.                                                            *)

Restart ==
  /\ original' = EmptySnapshot /\ snapshots' = <<>>
  /\ loop' = "idle" /\ snap' = EmptySnapshot
  /\ desired' = NoRules /\ listed' = {} /\ todo' = {}
  /\ main' = "ranging"
  /\ UNCHANGED <<api, changes, meshChanges, failures>>

Exit == main = "failed" /\ Restart /\ UNCHANGED crashes

Crash == crashes < MaxCrashes /\ crashes' = crashes + 1 /\ Restart

Sync ==
  \/ \E k \in Keys : \/ TranslateFault(k) \/ TranslationFails(k)
                     \/ WriteRule(k) \/ NameTaken(k) \/ DeleteRule(k)
  \/ List \/ BeginDeleting \/ SyncReturns

Next == Environment \/ Emit \/ Receive \/ Sync \/ CallFails \/ Exit \/ Crash

Spec == Init /\ [][Next]_vars

\* The goroutines of the emitter, the loop and main run when they can, and the
\* kubelet restarts the container.
Fairness == WF_vars(Emit) /\ WF_vars(Receive \/ Sync) /\ WF_vars(Exit)

FairSpec == Spec /\ Fairness

-----------------------------------------------------------------------------
(* Properties.                                                             *)

\* What a snapshot asks for, fault by fault.
AskedBy(s) ==
  [k \in Keys |-> IF k \in FaultKeys(s) THEN s[k[1]].spec.faults[k[2]] ELSE Nothing]

Injected == [k \in Keys |-> IF rules[k] = NoRule THEN Nothing ELSE rules[k].fault]

\* Whatever a failed pass, a crash or an earlier process left half done, a pass that
\* returns no error leaves exactly the rules its snapshot asks for, each of them in the
\* mesh its experiment names (Sync, Reconcile).
PassesReconcile ==
  [][SyncReturns =>
       /\ Injected = AskedBy(snap)
       /\ \A k \in Ours : snap[k[1]].spec.mesh \in {NoMesh, rules[k].mesh}]_vars

\* The rules of others are neither changed nor deleted, though the reconciler lists and
\* writes in the namespaces they are in (the selector created_by: glooshot).
OthersKeepTheirRules == [][others' = others /\ \A k \in others : rules[k] = NoRule]_vars

\* At every moment, in the middle of a pass that fails as well, every fault in the mesh
\* is one that a snapshot asked for, and it changes only towards the snapshot of the pass
\* under way: a fault that stays wanted is not interrupted (Reconcile).
Promise ==
  INSTANCE RuleSync WITH
    asked    <- AskedBy(store),
    offered  <- AskedBy(IF snapshots = <<>> THEN snap ELSE Head(snapshots)),
    aim      <- AskedBy(snap),
    injected <- Injected

MovesTowardsSnapshot == Promise!Spec

\* Nothing is under way, no error is pending, and the emitter has nothing to emit.
AtRest == main = "ranging" /\ loop = "idle" /\ snapshots = <<>> /\ original = store

\* Where the server comes to rest the faults in the mesh are those of the experiments in
\* the API, if there are any, whatever passes failed before and wherever it crashed:
\* no error is lost on its way to the main goroutine (Sync, Run, setup.Run).
RestIsReconciled == AtRest /\ store # EmptySnapshot => Injected = AskedBy(store)

\* Every experiment can be translated and no name is taken.
CanReconcile ==
  \A k \in FaultKeys(store) :
    /\ store[k[1]].spec.faults[k[2]] # BadFault
    /\ TargetMeshes(store[k[1]]) # {}
    /\ k \notin others

\* Once users, meshes and the API are quiet the faults in the mesh are those of the
\* experiments in the API, if these can be translated and there are any: after a
\* restart with none left the empty list equals the empty snapshot, and nothing is
\* emitted (setup.Run, apiSimpleEmitter.Snapshots).
EventuallyReconciled ==
  <>[](CanReconcile /\ store # EmptySnapshot => Injected = AskedBy(store))
=============================================================================
