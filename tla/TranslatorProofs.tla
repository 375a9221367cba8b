---------------------------- MODULE TranslatorProofs ----------------------------
(***************************************************************************)
(* The reconciliation of routing rules, whatever fails on the way: types,  *)
(* the rules a pass leaves and those at rest, the rules of others, and     *)
(* that the translator implements RuleSync.                                *)
(***************************************************************************)
EXTENDS Translator, SequenceTheorems, TLAPS

-----------------------------------------------------------------------------
(* Types.                                                                  *)

\* The faults of a snapshot are contents of faults.
LEMMA FaultType ==
  ASSUME NEW s \in Snapshots, NEW k \in FaultKeys(s)
  PROVE  s[k[1]].spec.faults[k[2]] \in Faults \cup {BadFault}
<1>1. k \in Keys /\ k[1] \in Names /\ s[k[1]] \in Experiment
  BY DEF FaultKeys, Keys, Snapshots
<1>2. s[k[1]].spec.faults \in Seq(Faults \cup {BadFault})
  BY <1>1, SpecsAssumption DEF Experiment, ExperimentSpec
<1>3. k[2] \in DOMAIN s[k[1]].spec.faults
  BY DEF FaultKeys
<1>4. QED BY <1>2, <1>3, LenProperties

\* Where a pass is decides what it has yet to do, and the translated rules are those of
\* faults of its snapshot.
PassInv ==
  /\ loop = "idle" => desired = NoRules /\ listed = {} /\ todo = {}
  /\ loop = "translating" => /\ todo \subseteq FaultKeys(snap)
                             /\ FaultKeys(snap) \ todo \subseteq Desired
  /\ loop \in {"writing", "deleting"} => FaultKeys(snap) \subseteq Desired
  /\ \A k \in Desired : /\ k \in FaultKeys(snap)
                        /\ desired[k].fault = Fault(k)
                        /\ snap[k[1]].spec.mesh \in {NoMesh, desired[k].mesh}

TypeInv == TypeOK /\ PassInv

\* A snapshot may be empty, and so may the rules.
LEMMA EmptyType == EmptySnapshot \in Snapshots /\ NoRules \in [Keys -> Rule \cup {NoRule}]
BY DEF EmptySnapshot, Snapshots, NoRules

\* A pass that ends, well or not, has nothing left to do.
LEMMA EndPassType ==
  ASSUME TypeInv, EndPass, UNCHANGED <<api, changes, meshChanges, crashes>>,
         failures' \in Nat, main' \in {"ranging", "failed"}
  PROVE  TypeInv'
<1>1. TypeOK'
  BY EmptyType DEF TypeInv, TypeOK, EndPass, api, emitter
<1>2. PassInv'
  BY DEF EndPass, PassInv, Desired, NoRules
<1>3. QED BY <1>1, <1>2 DEF TypeInv

\* A process that starts again is well typed, whatever the API holds.
LEMMA RestartType == ASSUME TypeInv, Restart, crashes' \in Nat PROVE TypeInv'
<1>1. snapshots' \in Seq(Snapshots) /\ Len(snapshots') <= 1
  BY EmptySeq DEF Restart
<1>2. TypeOK'
  BY <1>1, EmptyType DEF Restart, TypeInv, TypeOK, api
<1>3. PassInv'
  BY DEF Restart, PassInv, Desired, NoRules
<1>4. QED BY <1>2, <1>3 DEF TypeInv

\* The changes to experiments and meshes keep the types.
LEMMA EnvironmentType == TypeInv /\ Environment => TypeInv'
<1> SUFFICES ASSUME TypeInv, Environment PROVE TypeInv'
  OBVIOUS
<1> USE DEF TypeInv, PassInv, Desired, FaultKeys, Fault, emitter, pass
<1>1. ASSUME NEW n \in Names, NEW e \in Experiment \cup {NoExperiment}, Becomes(n, e)
      PROVE  TypeInv'
  <2>1. store' \in Snapshots
    BY <1>1 DEF Becomes, TypeOK, Snapshots
  <2>2. QED BY <1>1, <2>1 DEF Becomes, TypeOK
<1>2. ASSUME NEW n \in Names, NEW spec \in UserSpecs, Submit(n, spec) PROVE TypeInv'
  <2> DEFINE e == [spec |-> spec, concluded |-> FALSE]
  <2>1. e \in Experiment /\ Becomes(n, e)
    BY <1>2 DEF Submit, Experiment
  <2> HIDE DEF e
  <2>2. QED BY <1>1, <2>1
<1>3. ASSUME NEW n \in Names, Conclude(n) PROVE TypeInv'
  <2> DEFINE e == [store[n] EXCEPT !.concluded = TRUE]
  <2>1. store[n] \in Experiment
    BY <1>3 DEF Conclude, TypeOK, Snapshots
  <2>2. e \in Experiment
    BY <2>1 DEF Experiment
  <2>3. Becomes(n, e)
    BY <1>3 DEF Conclude
  <2> HIDE DEF e
  <2>4. QED BY <1>1, <2>2, <2>3
<1>4. ASSUME NEW n \in Names, Delete(n) PROVE TypeInv'
  BY <1>1, <1>4 DEF Delete
<1>5. ASSUME NEW m \in Meshes, ChangeMesh(m) PROVE TypeInv'
  BY <1>5 DEF ChangeMesh, TypeOK
<1>6. QED BY <1>2, <1>3, <1>4, <1>5 DEF Environment

\* What is emitted and received are snapshots.
LEMMA SnapshotType == TypeInv /\ (Emit \/ Receive) => TypeInv'
<1> SUFFICES ASSUME TypeInv, Emit \/ Receive PROVE TypeInv'
  OBVIOUS
<1>1. CASE Emit
  <2>1. snapshots' \in Seq(Snapshots) /\ Len(snapshots') <= 1
    BY <1>1 DEF Emit, TypeInv, TypeOK
  <2>2. TypeOK'
    BY <1>1, <2>1 DEF Emit, TypeInv, TypeOK, api, counts, pass
  <2>3. PassInv'
    BY <1>1 DEF Emit, TypeInv, PassInv, Desired, FaultKeys, Fault, pass
  <2>4. QED BY <2>2, <2>3 DEF TypeInv
<1>2. CASE Receive
  <2>1. Head(snapshots) \in Snapshots
    BY <1>2, HeadTailProperties DEF Receive, TypeInv, TypeOK
  <2>2. snapshots' \in Seq(Snapshots) /\ Len(snapshots') <= 1
    BY <1>2, EmptySeq DEF Receive
  <2>3. todo' \subseteq Keys /\ todo' = FaultKeys(snap') /\ desired' = NoRules
    BY <1>2 DEF Receive, TypeInv, PassInv, FaultKeys
  <2>4. TypeOK'
    BY <1>2, <2>1, <2>2, <2>3, EmptyType DEF Receive, TypeInv, TypeOK, api, counts
  <2>5. PassInv'
    BY <1>2, <2>3 DEF Receive, PassInv, Desired, NoRules
  <2>6. QED BY <2>4, <2>5 DEF TypeInv
<1>3. QED BY <1>1, <1>2

\* The translation of a fault is the rule of a fault of the snapshot, in a mesh that
\* the experiment names or that is the only one.
LEMMA TranslateFaultType == ASSUME TypeInv, NEW k \in Keys, TranslateFault(k) PROVE TypeInv'
<1>1. k \in FaultKeys(snap) /\ snap \in Snapshots /\ meshes \subseteq Meshes
  BY DEF TranslateFault, TypeInv, TypeOK, PassInv
<1>2. Fault(k) \in Faults
  BY <1>1, FaultType DEF TranslateFault, Fault
<1>3. PICK m \in TargetMeshes(snap[k[1]]) : desired' = [desired EXCEPT ![k] = [mesh |-> m, fault |-> Fault(k)]]
  BY DEF TranslateFault
<1>4. m \in Meshes /\ snap[k[1]].spec.mesh \in {NoMesh, m}
  BY <1>1 DEF TargetMeshes
<1> DEFINE r == [mesh |-> m, fault |-> Fault(k)]
<1>5. r \in Rule /\ r # NoRule /\ r.mesh = m /\ r.fault = Fault(k)
  BY <1>2, <1>4, SentinelsAssumption DEF Rule
<1>6. desired' = [desired EXCEPT ![k] = r]
  BY <1>3
<1> HIDE DEF r
<1>7. desired \in [Keys -> Rule \cup {NoRule}]
  BY DEF TypeInv, TypeOK
<1>8. TypeOK'
  BY <1>5, <1>6 DEF TranslateFault, TypeInv, TypeOK, api, counts, emitter
<1>9. Desired' = Desired \cup {k} /\ \A j \in Desired' : j # k => desired'[j] = desired[j]
  BY <1>5, <1>6, <1>7 DEF Desired
<1>10. desired'[k] = r
  BY <1>6, <1>7
<1>11. PassInv'
  <2>1. UNCHANGED <<snap, loop>> /\ loop = "translating" /\ todo' = todo \ {k}
    BY DEF TranslateFault
  <2>2. /\ todo' \subseteq FaultKeys(snap)
        /\ FaultKeys(snap) \ todo' \subseteq Desired'
    BY <1>1, <1>9, <2>1 DEF TypeInv, PassInv
  <2>3. ASSUME NEW j \in Desired'
        PROVE  /\ j \in FaultKeys(snap) /\ desired'[j].fault = Fault(j)
               /\ snap[j[1]].spec.mesh \in {NoMesh, desired'[j].mesh}
    BY <1>1, <1>4, <1>5, <1>9, <1>10 DEF TypeInv, PassInv
  <2>4. FaultKeys(snap)' = FaultKeys(snap) /\ \A j : Fault(j)' = Fault(j)
    BY <2>1 DEF FaultKeys, Fault
  <2>5. QED BY <2>1, <2>2, <2>3, <2>4 DEF PassInv
<1>12. QED BY <1>8, <1>11 DEF TypeInv

\* Reconciling keeps the types.
LEMMA ReconcileType ==
  ASSUME TypeInv, List \/ BeginDeleting \/ \E k \in Keys : WriteRule(k) \/ DeleteRule(k)
  PROVE  TypeInv'
<1>1. TypeOK'
  BY DEF List, BeginDeleting, WriteRule, DeleteRule, TypeInv, TypeOK, Ours, Desired, Stale,
         api, counts, emitter
<1>2. PassInv'
  <2>1. UNCHANGED <<snap, desired>> /\ loop' \in {"writing", "deleting"}
    BY DEF List, BeginDeleting, WriteRule, DeleteRule
  <2>2. FaultKeys(snap) \subseteq Desired
    BY DEF List, BeginDeleting, WriteRule, DeleteRule, TypeInv, PassInv
  <2>3. FaultKeys(snap)' = FaultKeys(snap) /\ Desired' = Desired /\ \A j : Fault(j)' = Fault(j)
    BY <2>1 DEF FaultKeys, Fault, Desired
  <2>4. QED BY <2>1, <2>2, <2>3 DEF TypeInv, PassInv
<1>3. QED BY <1>1, <1>2 DEF TypeInv

\* Every step keeps the types.
LEMMA NextType == TypeInv /\ [Next]_vars => TypeInv'
<1> SUFFICES ASSUME TypeInv, [Next]_vars PROVE TypeInv'
  OBVIOUS
<1>0. failures \in Nat /\ crashes \in Nat /\ main \in {"ranging", "failed"}
  BY DEF TypeInv, TypeOK
<1>1. CASE Environment
  BY <1>1, EnvironmentType
<1>2. CASE Emit \/ Receive
  BY <1>2, SnapshotType
<1>3. CASE Sync
  <2>1. ASSUME NEW k \in Keys, TranslationFails(k) \/ NameTaken(k) PROVE TypeInv'
    BY <1>0, <2>1, EndPassType DEF TranslationFails, NameTaken, FailPass, counts
  <2>2. CASE SyncReturns
    BY <1>0, <2>2, EndPassType DEF SyncReturns, counts
  <2>3. QED BY <1>3, <2>1, <2>2, TranslateFaultType, ReconcileType DEF Sync
<1>4. CASE CallFails
  BY <1>0, <1>4, EndPassType DEF CallFails, FailPass
<1>5. CASE Exit \/ Crash
  BY <1>0, <1>5, RestartType DEF Exit, Crash
<1>6. CASE UNCHANGED vars
  BY <1>6 DEF vars, TypeInv, TypeOK, PassInv, Desired, FaultKeys, Fault, api, counts, emitter, pass
<1>7. QED BY <1>1, <1>2, <1>3, <1>4, <1>5, <1>6 DEF Next

\* At first nothing is wanted.
LEMMA InitType == Init => TypeInv
<1> SUFFICES ASSUME Init PROVE TypeInv
  OBVIOUS
<1>1. snapshots \in Seq(Snapshots) /\ Len(snapshots) <= 1
  BY EmptySeq DEF Init, ProcessInit
<1>2. TypeOK
  BY <1>1, EmptyType, ForeignAssumption DEF Init, ProcessInit, TypeOK
<1>3. QED BY <1>2 DEF Init, ProcessInit, TypeInv, PassInv, Desired, NoRules

\* Every variable keeps its type: a rule is never made of a fault that cannot be
\* translated or of a mesh that is not there, at whatever moment meshes come and go.
THEOREM TranslatorTypeCorrect == Spec => []TypeOK
<1>1. TypeInv => TypeOK
  BY DEF TypeInv
<1>2. QED BY <1>1, InitType, NextType, PTL DEF Spec

-----------------------------------------------------------------------------
(* Reconciliation.                                                         *)

\* What is there of rules was listed or is wanted; what has been written is as wanted,
\* what has been deleted is gone; and no name is both a rule of ours and of others.
ReconcileInv ==
  /\ loop \in {"writing", "deleting"} => Ours \subseteq listed \cup Desired
  /\ loop = "writing" => \A k \in Desired : k \in todo \/ rules[k] = desired[k]
  /\ loop = "deleting" => /\ todo \subseteq Stale
                          /\ \A k \in Desired : rules[k] = desired[k]
                          /\ \A k \in Stale : k \in todo \/ rules[k] = NoRule
  /\ \A k \in others : rules[k] = NoRule /\ k \notin listed

SyncInv == TypeInv /\ ReconcileInv

\* Outside a pass there is nothing to keep but the rules of others.
LEMMA NoPass ==
  ASSUME SyncInv, UNCHANGED <<rules, others>>, loop' = "idle", listed' = {}
  PROVE  ReconcileInv'
BY DEF SyncInv, ReconcileInv

\* Every step keeps the invariant on rules.
LEMMA SyncNext == SyncInv /\ [Next]_vars => SyncInv'
<1> SUFFICES ASSUME SyncInv, [Next]_vars PROVE ReconcileInv'
  BY NextType DEF SyncInv
<1> USE DEF Ours, Desired, Stale
<1>0. /\ rules \in [Keys -> Rule \cup {NoRule}] /\ desired \in [Keys -> Rule \cup {NoRule}]
      /\ others \subseteq Keys /\ todo \subseteq Keys /\ listed \subseteq Keys
  BY DEF SyncInv, TypeInv, TypeOK
<1>1. CASE Environment \/ Emit \/ UNCHANGED vars
  <2>1. UNCHANGED <<rules, others, pass>>
    BY <1>1 DEF Environment, Submit, Conclude, Delete, Becomes, ChangeMesh, Emit, vars, api
  <2>2. QED BY <2>1 DEF SyncInv, ReconcileInv, pass
<1>2. CASE Receive
  BY <1>2 DEF Receive, SyncInv, ReconcileInv, TypeInv, PassInv, api
<1>3. ASSUME NEW k \in Keys, TranslateFault(k) PROVE ReconcileInv'
  BY <1>3 DEF TranslateFault, SyncInv, ReconcileInv, api
<1>4. CASE List
  BY <1>0, <1>4 DEF List, SyncInv, ReconcileInv, api
<1>5. ASSUME NEW k \in Keys, WriteRule(k) PROVE ReconcileInv'
  <2>1. /\ loop = "writing" /\ UNCHANGED <<loop, others, listed, desired>> /\ k \in todo
        /\ todo' = todo \ {k} /\ rules' = [rules EXCEPT ![k] = desired[k]]
        /\ k \in listed \/ k \notin others
    BY <1>5 DEF WriteRule
  <2>2. k \notin others
    BY <2>1 DEF SyncInv, ReconcileInv
  <2>3. \A j \in Keys : rules'[j] = IF j = k THEN desired[k] ELSE rules[j]
    BY <1>0, <2>1
  <2>4. QED BY <1>0, <2>1, <2>2, <2>3 DEF SyncInv, ReconcileInv
<1>6. CASE BeginDeleting
  BY <1>0, <1>6 DEF BeginDeleting, SyncInv, ReconcileInv, api
<1>7. ASSUME NEW k \in Keys, DeleteRule(k) PROVE ReconcileInv'
  <2>1. /\ loop = "deleting" /\ UNCHANGED <<loop, others, listed, desired>> /\ k \in todo
        /\ todo' = todo \ {k} /\ rules' = [rules EXCEPT ![k] = NoRule]
    BY <1>7 DEF DeleteRule
  <2>2. k \in Stale
    BY <2>1 DEF SyncInv, ReconcileInv
  <2>3. \A j \in Keys : rules'[j] = IF j = k THEN NoRule ELSE rules[j]
    BY <1>0, <2>1
  <2>4. QED BY <1>0, <2>1, <2>2, <2>3 DEF SyncInv, ReconcileInv
<1>8. CASE SyncReturns \/ CallFails \/ \E k \in Keys : TranslationFails(k) \/ NameTaken(k)
  BY <1>8, NoPass DEF SyncReturns, CallFails, TranslationFails, NameTaken, FailPass, EndPass, api
<1>9. CASE Exit \/ Crash
  BY <1>9, NoPass DEF Exit, Crash, Restart, api
<1>10. QED BY <1>1, <1>2, <1>3, <1>4, <1>5, <1>6, <1>7, <1>8, <1>9 DEF Next, Sync

\* At first there are no rules of ours.
LEMMA SyncInit == Init => SyncInv
BY InitType, ForeignAssumption
   DEF Init, ProcessInit, SyncInv, ReconcileInv, NoRules, Ours

\* So it is one.
LEMMA SyncInvariant == Spec => []SyncInv
BY SyncInit, SyncNext, PTL DEF Spec

\* The rule of a fault that is asked for does what the fault says, and only those do.
LEMMA DesiredIsAsked ==
  ASSUME SyncInv, loop \in {"writing", "deleting"}, NEW k \in Keys
  PROVE  AskedBy(snap)[k] = IF desired[k] = NoRule THEN Nothing ELSE desired[k].fault
<1>1. k \in Desired <=> k \in FaultKeys(snap)
  BY DEF SyncInv, TypeInv, PassInv
<1>2. k \in Desired => desired[k].fault = Fault(k)
  BY DEF SyncInv, TypeInv, PassInv
<1>3. QED BY <1>1, <1>2 DEF AskedBy, Desired, Fault

\* A pass that returns no error has done all that its snapshot asks for.
LEMMA ReturnReconciles ==
  ASSUME SyncInv, SyncReturns
  PROVE  /\ Injected = AskedBy(snap)
         /\ \A k \in Ours : snap[k[1]].spec.mesh \in {NoMesh, rules[k].mesh}
<1>1. loop = "deleting" /\ todo = {}
  BY DEF SyncReturns
<1>2. \A k \in Keys : rules[k] = desired[k]
  BY <1>1 DEF SyncInv, ReconcileInv, Ours, Desired, Stale
<1>3. \A k \in Keys : Injected[k] = AskedBy(snap)[k]
  BY <1>1, <1>2, DesiredIsAsked DEF Injected
<1>4. Injected = AskedBy(snap)
  BY <1>3 DEF Injected, AskedBy
<1>5. \A k \in Ours : snap[k[1]].spec.mesh \in {NoMesh, rules[k].mesh}
  BY <1>2 DEF SyncInv, TypeInv, PassInv, Ours, Desired
<1>6. QED BY <1>4, <1>5

\* Whatever earlier passes left half done, a pass that returns no error leaves exactly
\* the rules its snapshot asks for, in the meshes the experiments name.
THEOREM PassReconciles == Spec => PassesReconcile
<1>1. SyncInv /\ [Next]_vars =>
        [SyncReturns => /\ Injected = AskedBy(snap)
                        /\ \A k \in Ours : snap[k[1]].spec.mesh \in {NoMesh, rules[k].mesh}]_vars
  BY ReturnReconciles
<1>2. QED BY <1>1, SyncInvariant, PTL DEF Spec, PassesReconcile

\* The last snapshot emitted waits, is under way, or is what the faults in the mesh are of,
\* unless an error is about to end the process.
FollowInv ==
  /\ SyncInv
  /\ snapshots # <<>> => Head(snapshots) = original
  /\ snapshots = <<>> /\ loop # "idle" => snap = original
  /\ snapshots = <<>> /\ loop = "idle" /\ main = "ranging" =>
       original = EmptySnapshot \/ Injected = AskedBy(original)

\* Every step follows the last snapshot.
LEMMA FollowNext == FollowInv /\ [Next]_vars => FollowInv'
<1> SUFFICES ASSUME FollowInv, [Next]_vars PROVE FollowInv'
  OBVIOUS
<1>0. SyncInv /\ SyncInv'
  BY SyncNext DEF FollowInv
<1>1. CASE Environment \/ UNCHANGED vars
  <2>1. UNCHANGED <<rules, emitter, pass, main>>
    BY <1>1 DEF Environment, Submit, Conclude, Delete, Becomes, ChangeMesh, vars, api
  <2>2. UNCHANGED Injected
    BY <2>1 DEF Injected
  <2>3. QED BY <1>0, <2>1, <2>2 DEF FollowInv, emitter, pass
<1>2. CASE Emit
  BY <1>0, <1>2 DEF Emit, FollowInv
<1>3. CASE Receive
  BY <1>0, <1>3 DEF Receive, FollowInv
<1>4. CASE \/ List \/ BeginDeleting
           \/ \E k \in Keys : TranslateFault(k) \/ WriteRule(k) \/ DeleteRule(k)
  <2>1. loop # "idle" /\ loop' # "idle" /\ UNCHANGED <<emitter, snap>>
    BY <1>4 DEF List, BeginDeleting, TranslateFault, WriteRule, DeleteRule
  <2>2. QED BY <1>0, <2>1 DEF FollowInv, emitter
<1>5. CASE SyncReturns
  <2>1. Injected = AskedBy(snap) /\ UNCHANGED Injected
    BY <1>0, <1>5, ReturnReconciles DEF SyncReturns, Injected, api
  <2>2. loop # "idle" /\ loop' = "idle" /\ UNCHANGED <<emitter, snap>>
    BY <1>5 DEF SyncReturns, EndPass
  <2>3. QED BY <1>0, <2>1, <2>2 DEF FollowInv, emitter
<1>6. CASE CallFails \/ \E k \in Keys : TranslationFails(k) \/ NameTaken(k)
  <2>1. main' = "failed" /\ loop' = "idle" /\ UNCHANGED emitter
    BY <1>6 DEF CallFails, TranslationFails, NameTaken, FailPass, EndPass
  <2>2. QED BY <1>0, <2>1 DEF FollowInv, emitter
<1>7. CASE Exit \/ Crash
  BY <1>0, <1>7 DEF Exit, Crash, Restart, FollowInv
<1>8. QED BY <1>1, <1>2, <1>3, <1>4, <1>5, <1>6, <1>7 DEF Next, Sync

\* Where the server comes to rest the faults in the mesh are those of the experiments in
\* the API, whatever calls have failed and wherever it has crashed.
THEOREM QuiescenceReconciles == Spec => []RestIsReconciled
<1>1. Init => FollowInv
  BY SyncInit DEF Init, ProcessInit, FollowInv
<1>2. FollowInv => RestIsReconciled
  BY DEF FollowInv, RestIsReconciled, AtRest
<1>3. QED BY <1>1, <1>2, FollowNext, PTL DEF Spec

\* The rules of others are never changed, deleted or written beside.
THEOREM OthersKeepRules == Spec => OthersKeepTheirRules
<1>1. SyncInv /\ [Next]_vars => [others' = others /\ \A k \in others : rules[k] = NoRule]_vars
  <2> SUFFICES ASSUME SyncInv, Next PROVE others' = others /\ \A k \in others : rules[k] = NoRule
    BY DEF vars
  <2>1. others' = others
    BY DEF Next, Environment, Submit, Conclude, Delete, Becomes, ChangeMesh, Emit, Receive, Sync,
           TranslateFault, TranslationFails, WriteRule, NameTaken, DeleteRule, List, BeginDeleting,
           SyncReturns, CallFails, Exit, Crash, Restart, api
  <2>2. QED BY <2>1 DEF SyncInv, ReconcileInv
<1>2. QED BY <1>1, SyncInvariant, PTL DEF Spec, OthersKeepTheirRules

-----------------------------------------------------------------------------
(* Refinement.                                                             *)

Offered == AskedBy(IF snapshots = <<>> THEN snap ELSE Head(snapshots))

AbstractVars == <<AskedBy(store), Offered, AskedBy(snap), Injected>>

\* An empty snapshot asks for nothing.
LEMMA EmptyAsksNothing == AskedBy(EmptySnapshot) = [k \in Keys |-> Nothing]
<1>1. FaultKeys(EmptySnapshot) = {}
  BY DEF FaultKeys, EmptySnapshot, Keys
<1>2. QED BY <1>1 DEF AskedBy

\* The API asks for nothing at first, and nothing is injected.
LEMMA RefinesInit == Init => Promise!Init
<1> SUFFICES ASSUME Init PROVE Promise!Init
  OBVIOUS
<1>1. Injected = [k \in Keys |-> Nothing]
  BY DEF Init, NoRules, Injected
<1>2. QED BY <1>1, EmptyAsksNothing DEF Init, ProcessInit, Promise!Init

\* What a snapshot asks for depends on the snapshot alone.
LEMMA AskedUnchanged ==
  /\ UNCHANGED store => UNCHANGED AskedBy(store)
  /\ UNCHANGED <<snap, snapshots>> => UNCHANGED <<Offered, AskedBy(snap)>>
  /\ UNCHANGED rules => UNCHANGED Injected
BY DEF AskedBy, FaultKeys, Offered, Injected

\* Writing or deleting a rule moves one fault to what the pass aims at.
LEMMA RuleMoves ==
  ASSUME SyncInv, NEW k \in Keys, WriteRule(k) \/ DeleteRule(k)
  PROVE  Promise!Move(k)
<1>1. /\ loop \in {"writing", "deleting"}
      /\ UNCHANGED <<store, snap, snapshots>> /\ rules \in [Keys -> Rule \cup {NoRule}]
  BY DEF WriteRule, DeleteRule, emitter, SyncInv, TypeInv, TypeOK
<1>2. rules' = [rules EXCEPT ![k] = desired[k]]
  <2>1. CASE WriteRule(k)
    BY <2>1 DEF WriteRule
  <2>2. CASE DeleteRule(k)
    <3>1. rules' = [rules EXCEPT ![k] = NoRule] /\ k \in Stale
      BY <2>2 DEF DeleteRule, SyncInv, ReconcileInv
    <3>2. QED BY <3>1 DEF Stale, Desired
  <2>3. QED BY <2>1, <2>2
<1>3. \A j \in Keys : rules'[j] = IF j = k THEN desired[k] ELSE rules[j]
  BY <1>1, <1>2
<1>4. AskedBy(snap)[k] = IF desired[k] = NoRule THEN Nothing ELSE desired[k].fault
  BY <1>1, DesiredIsAsked
<1>5. Injected' = [Injected EXCEPT ![k] = AskedBy(snap)[k]]
  BY <1>3, <1>4 DEF Injected
<1>6. UNCHANGED <<AskedBy(store), Offered, AskedBy(snap)>>
  BY <1>1, AskedUnchanged
<1>7. QED BY <1>5, <1>6 DEF Promise!Move, Offered

\* Every step is a step of RuleSync, or changes nothing that it speaks of.
LEMMA RefinesNext == SyncInv /\ [Next]_vars => [Promise!Next]_(Promise!vars)
<1> DEFINE Goal == Promise!Next \/ UNCHANGED AbstractVars
<1> SUFFICES ASSUME SyncInv, [Next]_vars PROVE Goal
  BY DEF Promise!vars, AbstractVars, Offered
<1> USE DEF AbstractVars
<1>1. CASE Environment
  <2>1. UNCHANGED <<rules, snap, snapshots>>
    BY <1>1 DEF Environment, Submit, Conclude, Delete, Becomes, ChangeMesh, emitter, pass
  <2>2. Promise!Ask
    BY <2>1, AskedUnchanged DEF Promise!Ask, Offered
  <2>3. QED BY <2>2 DEF Promise!Next
<1>2. CASE Emit
  <2>1. UNCHANGED <<store, snap, rules>> /\ snapshots' = <<store>>
    BY <1>2 DEF Emit, api, pass
  <2>2. Offered' = AskedBy(store) /\ UNCHANGED AskedBy(snap)
    BY <2>1 DEF Offered, AskedBy, FaultKeys
  <2>3. Promise!Offer
    BY <2>1, <2>2, AskedUnchanged DEF Promise!Offer, Offered
  <2>4. QED BY <2>3 DEF Promise!Next
<1>3. CASE Receive
  <2>1. UNCHANGED <<store, rules>> /\ snapshots # <<>> /\ snapshots' = <<>> /\ snap' = Head(snapshots)
    BY <1>3 DEF Receive, api
  <2>2. Offered = AskedBy(Head(snapshots)) /\ Offered' = Offered /\ AskedBy(snap)' = Offered
    BY <2>1 DEF Offered, AskedBy, FaultKeys
  <2>3. Promise!Aim
    BY <2>1, <2>2, AskedUnchanged DEF Promise!Aim, Offered
  <2>4. QED BY <2>3 DEF Promise!Next
<1>4. ASSUME NEW k \in Keys, WriteRule(k) \/ DeleteRule(k) PROVE Goal
  BY <1>4, RuleMoves DEF Promise!Next
<1>5. CASE \/ List \/ BeginDeleting \/ SyncReturns \/ CallFails
           \/ \E k \in Keys : TranslateFault(k) \/ TranslationFails(k) \/ NameTaken(k)
  <2>1. UNCHANGED <<store, rules, snap, snapshots>>
    BY <1>5 DEF List, BeginDeleting, SyncReturns, CallFails, TranslateFault, TranslationFails,
                NameTaken, FailPass, EndPass, api, emitter
  <2>2. QED BY <2>1, AskedUnchanged
<1>6. CASE Exit \/ Crash
  <2>1. UNCHANGED <<store, rules>> /\ snapshots' = <<>> /\ snap' = EmptySnapshot
    BY <1>6 DEF Exit, Crash, Restart, api
  <2>2. Offered' = [k \in Keys |-> Nothing] /\ AskedBy(snap)' = [k \in Keys |-> Nothing]
    BY <2>1, EmptyAsksNothing DEF Offered, AskedBy, FaultKeys
  <2>3. Promise!Forget
    BY <2>1, <2>2, AskedUnchanged DEF Promise!Forget, Offered
  <2>4. QED BY <2>3 DEF Promise!Next
<1>7. CASE UNCHANGED vars
  BY <1>7, AskedUnchanged DEF vars, api, emitter, pass
<1>8. QED BY <1>1, <1>2, <1>3, <1>4, <1>5, <1>6, <1>7 DEF Next, Sync

\* The translator implements RuleSync, failed passes and restarts included: every fault
\* in the mesh is one that a snapshot asked for, and moves only towards the snapshot of
\* the pass under way.
THEOREM ImplementsRuleSync == Spec => MovesTowardsSnapshot
BY RefinesInit, RefinesNext, SyncInvariant, PTL DEF Spec, MovesTowardsSnapshot, Promise!Spec
=============================================================================
