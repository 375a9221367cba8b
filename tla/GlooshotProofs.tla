---------------------------- MODULE GlooshotProofs ----------------------------
(***************************************************************************)
(* Type correctness of the server, and that its writes, all of them of     *)
(* whole objects read earlier, neither start a concluded experiment again  *)
(* nor undo what a user did.                                               *)
(***************************************************************************)
EXTENDS Glooshot, SequenceTheorems, TLAPS

-----------------------------------------------------------------------------
(* What the operators return.                                              *)

\* Starting an experiment, with the names generated, leaves an experiment.
LEMMA MarkStartedType ==
  ASSUME NEW e \in Experiment, NEW now \in Nat
  PROVE  MarkStarted(e, now) \in Experiment
<1>1. GenerateNames(e.spec, now) \in ExperimentSpec \cup {NoSpec}
  BY DEF GenerateNames, Experiment, ExperimentSpec
<1>2. QED BY <1>1 DEF MarkStarted, Experiment, States

\* So does recording a result.
LEMMA WithResultType ==
  ASSUME NEW e \in Experiment, NEW outcome \in {"Failed", "Succeeded"}
  PROVE  WithResult(e, outcome) \in Experiment
BY DEF WithResult, Experiment, States

\* The hash of a snapshot, here what it keeps of it, is a snapshot.
LEMMA HashType ==
  ASSUME NEW s \in Snapshots
  PROVE  Hash(s) \in Snapshots /\ Remembered(s) \in Snapshots
<1>1. \A c \in Snapshots : Hash(c) \in Snapshots
  <2> SUFFICES ASSUME NEW c \in Snapshots, NEW n \in Names
               PROVE  Hash(c)[n] \in Experiment \cup {NoExperiment}
    BY DEF Hash, Snapshots
  <2>1. CASE c[n] = NoExperiment
    BY <2>1 DEF Hash
  <2>2. CASE c[n] # NoExperiment
    <3>1. c[n] \in Experiment
      BY <2>2 DEF Snapshots
    <3>2. QED BY <2>2, <3>1 DEF Hash, Experiment
  <2>3. QED BY <2>1, <2>2
<1>2. [n \in Names |-> IF n \in StartedExperiments(s) THEN s[n] ELSE NoExperiment]
        \in Snapshots
  BY DEF Snapshots
<1>3. QED BY <1>1, <1>2 DEF Remembered

\* The rules of a snapshot are fault lists.
LEMMA RoutingRulesType ==
  ASSUME NEW s \in Snapshots
  PROVE  RoutingRules(s) \in [Names -> Faults]
<1> SUFFICES ASSUME NEW n \in Names
             PROVE  (IF WantsFaults(s[n]) THEN s[n].spec.faults ELSE NoFaults) \in Faults
  BY DEF RoutingRules
<1>1. CASE ~WantsFaults(s[n])
  BY <1>1, FaultsAssumption
<1>2. CASE WantsFaults(s[n])
  BY <1>2 DEF WantsFaults, Snapshots, Experiment, ExperimentSpec
<1>3. QED BY <1>1, <1>2

\* An update leaves a store of experiments.
LEMMA WriteType ==
  ASSUME store \in Snapshots, NEW n \in Names, NEW e \in Experiment, Write(n, e)
  PROVE  store' \in Snapshots
<1>1. [e EXCEPT !.ver = @ + 1] \in Experiment
  BY DEF Experiment
<1>2. QED BY <1>1 DEF Write, Snapshots

\* A function on an initial segment of the positive numbers is a sequence.
LEMMA FunctionIsSeq ==
  ASSUME NEW S, NEW n \in Nat, NEW f \in [1 .. n -> S]
  PROVE  f \in Seq(S)
BY SMT

\* Time keeps the ages in range.
LEMMA TickType ==
  ASSUME age \in Seq(0 .. MaxAge), Tick
  PROVE  age' \in Seq(0 .. MaxAge)
<1>1. age \in [1 .. Len(age) -> 0 .. MaxAge] /\ Len(age) \in Nat
  BY LenProperties
<1>2. age' \in [1 .. Len(age) -> 0 .. MaxAge]
  BY <1>1, AgesAssumption DEF Tick
<1>3. QED BY <1>1, <1>2, FunctionIsSeq

-----------------------------------------------------------------------------
(* Type correctness.                                                       *)

\* The experiments the starter has yet to write are pending in its snapshot.
PendingInSnapshot ==
  /\ loop # "starting" => pending = {}
  /\ \A n \in pending : snap[n] # NoExperiment /\ snap[n].state = "Pending"

\* A monitor that has decided knows its outcome, and one that has read the
\* experiment has what it read.
MonitorsDecided ==
  \A m \in monitors :
    /\ m.pc \in {"reading", "writing", "reporting"} => m.outcome \in {"Failed", "Succeeded"}
    /\ m.pc \in {"writing", "reporting"} => m.got # NoExperiment

TypeInv == TypeOK /\ PendingInSnapshot /\ MonitorsDecided

\* A snapshot may be empty.
LEMMA EmptySnapshotType == EmptySnapshot \in Snapshots
BY DEF EmptySnapshot, Snapshots

\* The initial state is well typed.
LEMMA InitType == Init => TypeInv
<1> SUFFICES ASSUME Init PROVE TypeInv
  OBVIOUS
<1>1. rules \in [Names -> Faults] /\ reports \in [Names -> Nat]
  BY FaultsAssumption DEF Init
<1>2. age \in Seq(0 .. MaxAge) /\ snapshots \in Seq(Snapshots) /\ Len(snapshots) <= 1
  BY EmptySeq DEF Init, ProcessInit
<1>3. TypeOK
  BY <1>1, <1>2, EmptySnapshotType DEF Init, ProcessInit, TypeOK, NoSnapshot
<1>4. QED BY <1>3 DEF Init, ProcessInit, TypeInv, PendingInSnapshot, MonitorsDecided

\* Users create and edit experiments into experiments.
LEMMA UserType == TypeInv /\ User => TypeInv'
<1> SUFFICES ASSUME TypeInv, User PROVE TypeInv'
  OBVIOUS
<1> USE DEF TypeInv, PendingInSnapshot, MonitorsDecided, emitter, looping
<1>1. ASSUME NEW n \in Names, NEW spec \in UserSpecs, Create(n, spec) PROVE TypeInv'
  <2>1. [uid |-> created + 1, ver |-> 1, spec |-> spec, state |-> "Pending",
         started |-> NoTime, failure |-> FALSE] \in Experiment
    BY BoundsAssumption DEF TypeOK, Experiment, States, NoTime
  <2>2. store' \in Snapshots
    BY <1>1, <2>1 DEF Create, TypeOK, Snapshots
  <2>3. QED BY <1>1, <2>2 DEF Create, TypeOK
<1>2. ASSUME NEW n \in Names, store[n] # NoExperiment,
             NEW spec \in UserSpecs \cup {store[n].spec}, Edit(n, spec)
      PROVE  TypeInv'
  <2>1. store[n] \in Experiment
    BY <1>2 DEF TypeOK, Snapshots
  <2>2. [store[n] EXCEPT !.spec = spec] \in Experiment
    BY <2>1, BoundsAssumption DEF Experiment
  <2>3. store' \in Snapshots
    BY <1>2, <2>2, WriteType DEF Edit, TypeOK
  <2>4. QED BY <1>2, <2>3 DEF Edit, TypeOK
<1>3. ASSUME NEW n \in Names, Delete(n) PROVE TypeInv'
  <2>1. store' \in Snapshots
    BY <1>3 DEF Delete, TypeOK, Snapshots
  <2>2. QED BY <1>3, <2>1 DEF Delete, TypeOK
<1>4. QED BY <1>1, <1>2, <1>3 DEF User

\* What the emitter receives and emits are snapshots.
LEMMA EmitterType == TypeInv /\ EmitterStep => TypeInv'
<1> SUFFICES ASSUME TypeInv, EmitterStep PROVE TypeInv'
  OBVIOUS
<1> USE DEF TypeInv, PendingInSnapshot, MonitorsDecided, api, env, looping
<1>1. CASE Watch
  BY <1>1 DEF Watch, TypeOK
<1>2. CASE Emit
  <2>1. snapshots' \in Seq(Snapshots) /\ Len(snapshots') <= 1
    BY <1>2 DEF Emit, TypeOK
  <2>2. QED BY <1>2, <2>1, HashType DEF Emit, TypeOK
<1>3. QED BY <1>1, <1>2 DEF EmitterStep

\* A process that starts again is well typed, whatever the API holds.
LEMMA RestartType == TypeInv /\ Restart /\ crashes' \in Nat => TypeInv'
<1> SUFFICES ASSUME TypeInv, Restart, crashes' \in Nat PROVE TypeInv'
  OBVIOUS
<1>1. snapshots' \in Seq(Snapshots) /\ Len(snapshots') <= 1
  BY EmptySeq DEF Restart
<1>2. TypeOK'
  BY <1>1, EmptySnapshotType DEF Restart, TypeInv, TypeOK, NoSnapshot, api
<1>3. QED BY <1>2 DEF Restart, TypeInv, PendingInSnapshot, MonitorsDecided

\* The event loop, its syncers included, keeps the types.
LEMMA LoopType == TypeInv /\ LoopStep => TypeInv'
<1> SUFFICES ASSUME TypeInv, LoopStep PROVE TypeInv'
  OBVIOUS
<1> USE DEF TypeInv, PendingInSnapshot, MonitorsDecided, api, env, emitter
<1>1. CASE Receive
  <2>1. Head(snapshots) \in Snapshots
    BY <1>1, HeadTailProperties DEF Receive, TypeOK
  <2>2. snapshots' \in Seq(Snapshots) /\ Len(snapshots') <= 1
    BY <1>1, EmptySeq DEF Receive
  <2>3. 0 \in 0 .. MaxAge /\ Append(age, 0) \in Seq(0 .. MaxAge)
    BY AgesAssumption, AppendProperties DEF TypeOK
  <2>4. age' \in Seq(0 .. MaxAge) /\ loop' \in {"starting", "translating"}
    BY <1>1, <2>3 DEF Receive, TypeOK
  <2>5. pending' \subseteq Names /\ PendingInSnapshot'
    BY <1>1 DEF Receive, TypeOK, ExperimentsWithState
  <2>6. QED BY <1>1, <2>1, <2>2, <2>4, <2>5 DEF Receive, TypeOK
<1>2. ASSUME NEW n \in Names, WriteAsStarted(n) PROVE TypeInv'
  <2>1. snap[n] \in Experiment
    BY <1>2 DEF WriteAsStarted, TypeOK, Snapshots
  <2>2. MarkStarted(snap[n], Len(age)) \in Experiment
    BY <2>1, MarkStartedType, LenProperties DEF TypeOK
  <2>3. snap' \in Snapshots
    BY <1>2, <2>2 DEF WriteAsStarted, TypeOK, Snapshots
  <2>4. store' \in Snapshots
    BY <1>2, <2>2, WriteType DEF WriteAsStarted, TypeOK
  <2>5. PendingInSnapshot'
    BY <1>2 DEF WriteAsStarted, TypeOK, Snapshots
  <2>6. QED BY <1>2, <2>3, <2>4, <2>5 DEF WriteAsStarted, TypeOK
<1>3. CASE StarterReturns
  BY <1>3 DEF StarterReturns, Propagate, TypeOK
<1>4. CASE Translate
  <2>1. rules' \in [Names -> Faults]
    BY <1>4, RoutingRulesType DEF Translate, TypeOK
  <2>2. QED BY <1>4, <2>1 DEF Translate, Propagate, TypeOK
<1>5. CASE SkipChecker
  BY <1>5, HashType, EmptySnapshotType DEF SkipChecker, EndOfPass, TypeOK
<1>6. CASE SyncChecker
  <2>1. ASSUME NEW m \in NewMonitors
        PROVE  m \in Monitor /\ m.pc = "starting"
    <3>1. PICK n \in StartedExperiments(snap) :
            m = [name |-> n, generation |-> generation + 1, pc |-> "starting",
                 spec |-> snap[n].spec, started |-> snap[n].started,
                 outcome |-> "None", got |-> NoExperiment]
      BY <2>1 DEF NewMonitors
    <3>2. n \in Names /\ snap[n] \in Experiment
      BY DEF StartedExperiments, ExperimentsWithState, TypeOK, Snapshots
    <3>3. QED BY <3>1, <3>2 DEF Monitor, Experiment, TypeOK
  <2>2. monitors' \subseteq Monitor /\ MonitorsDecided'
    BY <1>6, <2>1 DEF SyncChecker, Survivors, TypeOK
  <2>3. TypeOK'
    BY <1>6, <2>2, HashType, EmptySnapshotType DEF SyncChecker, EndOfPass, TypeOK
  <2>4. PendingInSnapshot'
    BY <1>6 DEF SyncChecker, EndOfPass
  <2>5. QED BY <2>2, <2>3, <2>4
<1>7. CASE Panic
  BY <1>7, RestartType DEF Panic, TypeOK
<1>8. QED BY <1>1, <1>2, <1>3, <1>4, <1>5, <1>6, <1>7 DEF LoopStep

\* A monitor that moves on is a monitor still, and nothing else has changed.
LEMMA BecomesType ==
  ASSUME TypeInv, NEW m \in monitors, NEW next \in Monitor, Becomes(m, next), UNCHANGED Others,
         next.pc \in {"reading", "writing", "reporting"} =>
           next.outcome \in {"Failed", "Succeeded"},
         next.pc \in {"writing", "reporting"} => next.got # NoExperiment,
         store' \in Snapshots, reports' \in [Names -> Nat], UNCHANGED rules
  PROVE  TypeInv'
BY DEF Becomes, Others, TypeInv, TypeOK, PendingInSnapshot, MonitorsDecided,
       env, emitter, looping

\* A monitor that returns leaves the others as they are.
LEMMA ReturnsType ==
  ASSUME TypeInv, NEW m \in monitors, Returns(m), UNCHANGED Others,
         store' \in Snapshots, reports' \in [Names -> Nat], UNCHANGED rules
  PROVE  TypeInv'
BY DEF Returns, Others, TypeInv, TypeOK, PendingInSnapshot, MonitorsDecided,
       env, emitter, looping

\* A monitor that has decided is a monitor still.
LEMMA DecidesType ==
  ASSUME TypeInv, NEW m \in monitors, NEW outcome \in {"Failed", "Succeeded"},
         Decides(m, outcome), UNCHANGED <<api, Others>>
  PROVE  TypeInv'
<1> DEFINE next == [m EXCEPT !.pc = "reading", !.outcome = outcome,
                             !.spec = NoSpec, !.started = NoTime]
<1>1. m \in Monitor
  BY DEF TypeInv, TypeOK
<1>2. next \in Monitor /\ next.pc = "reading" /\ next.outcome = outcome
  BY <1>1 DEF Monitor, NoTime
<1>3. QED BY <1>2, BecomesType DEF Decides, api, TypeInv, TypeOK

\* What a monitor does, its writes included, keeps the types.
LEMMA MonitorType == TypeInv /\ MonitorStep => TypeInv'
<1> SUFFICES ASSUME TypeInv, NEW m \in monitors,
                    \/ BeginWithoutSpec(m) \/ BeginInvalid(m) \/ BeginSelect(m)
                    \/ BeginCancelled(m) \/ DurationElapses(m) \/ ReadExperiment(m)
                    \/ WriteResult(m) \/ ProduceReport(m) \/ FailureConditionMet(m)
             PROVE  TypeInv'
  BY DEF MonitorStep, MonitorProgress
<1>0. m \in Monitor /\ store \in Snapshots /\ reports \in [Names -> Nat]
  BY DEF TypeInv, TypeOK
<1>1. CASE BeginWithoutSpec(m)
  BY <1>1, DecidesType DEF BeginWithoutSpec
<1>2. CASE BeginInvalid(m)
  BY <1>0, <1>2, ReturnsType DEF BeginInvalid, api
<1>3. CASE BeginSelect(m)
  <2>1. [m EXCEPT !.pc = "selecting"] \in Monitor /\ [m EXCEPT !.pc = "selecting"].pc = "selecting"
    BY <1>0 DEF Monitor
  <2>2. QED BY <1>0, <1>3, <2>1, BecomesType DEF BeginSelect, api
<1>4. CASE BeginCancelled(m)
  BY <1>0, <1>4, ReturnsType, DecidesType DEF BeginCancelled, api
<1>5. CASE DurationElapses(m)
  BY <1>5, DecidesType DEF DurationElapses
<1>6. CASE FailureConditionMet(m)
  BY <1>6, DecidesType DEF FailureConditionMet
<1>7. CASE ReadExperiment(m)
  <2>1. CASE store[m.name] = NoExperiment
    BY <1>0, <1>7, <2>1, ReturnsType DEF ReadExperiment, api
  <2>2. CASE store[m.name] # NoExperiment
    <3> DEFINE next == [m EXCEPT !.pc = "writing", !.got = store[m.name]]
    <3>1. next \in Monitor /\ next.pc = "writing" /\ next.got # NoExperiment
          /\ next.outcome = m.outcome
      BY <1>0, <2>2 DEF Monitor, Snapshots
    <3>2. m.outcome \in {"Failed", "Succeeded"}
      BY <1>7 DEF ReadExperiment, TypeInv, MonitorsDecided
    <3>3. QED BY <1>0, <1>7, <2>2, <3>1, <3>2, BecomesType DEF ReadExperiment, api
  <2>3. QED BY <2>1, <2>2
<1>8. CASE WriteResult(m)
  <2>1. m.outcome \in {"Failed", "Succeeded"} /\ m.got # NoExperiment
    BY <1>8 DEF WriteResult, TypeInv, MonitorsDecided
  <2>2. m.got \in Experiment /\ m.name \in Names
    BY <1>0, <2>1 DEF Monitor
  <2>3. CASE Accepts(m.name, m.got)
    <3> DEFINE next == [m EXCEPT !.pc = "reporting"]
    <3>1. next \in Monitor /\ next.got = m.got /\ next.outcome = m.outcome
      BY <1>0 DEF Monitor
    <3>2. store' \in Snapshots
      BY <1>0, <1>8, <2>1, <2>2, <2>3, WithResultType, WriteType DEF WriteResult
    <3>3. QED BY <1>0, <1>8, <2>1, <2>3, <3>1, <3>2, BecomesType DEF WriteResult
  <2>4. CASE ~Accepts(m.name, m.got)
    BY <1>0, <1>8, <2>4, ReturnsType DEF WriteResult
  <2>5. QED BY <2>3, <2>4
<1>9. CASE ProduceReport(m)
  <2>1. m.got \in Experiment /\ m.name \in Names
    BY <1>0, <1>9 DEF ProduceReport, TypeInv, MonitorsDecided, Monitor
  <2>2. reports' \in [Names -> Nat]
    BY <1>0, <1>9, <2>1 DEF ProduceReport, Experiment
  <2>3. QED BY <1>0, <1>9, <2>2, ReturnsType DEF ProduceReport
<1>10. QED BY <1>1, <1>2, <1>3, <1>4, <1>5, <1>6, <1>7, <1>8, <1>9

\* Every step keeps the invariant.
LEMMA NextType == TypeInv /\ [Next]_vars => TypeInv'
<1> SUFFICES ASSUME TypeInv, [Next]_vars PROVE TypeInv'
  OBVIOUS
<1>1. CASE User
  BY <1>1, UserType
<1>2. CASE Tick
  <2>1. age' \in Seq(0 .. MaxAge)
    BY <1>2, TickType DEF TypeInv, TypeOK
  <2>2. QED BY <1>2, <2>1 DEF Tick, TypeInv, TypeOK, PendingInSnapshot, MonitorsDecided,
                              api, env, emitter, looping
<1>3. CASE EmitterStep
  BY <1>3, EmitterType
<1>4. CASE LoopStep
  BY <1>4, LoopType
<1>5. CASE MonitorStep
  BY <1>5, MonitorType
<1>6. CASE Exit
  BY <1>6, RestartType DEF Exit, TypeInv, TypeOK
<1>7. CASE Crash
  BY <1>7, RestartType DEF Crash, TypeInv, TypeOK
<1>8. CASE UNCHANGED vars
  BY <1>8 DEF vars, TypeInv, TypeOK, PendingInSnapshot, MonitorsDecided,
              api, env, emitter, looping
<1>9. QED BY <1>1, <1>2, <1>3, <1>4, <1>5, <1>6, <1>7, <1>8 DEF Next, Server

\* In every reachable state the variables have their types: in particular a snapshot
\* or a monitor never holds a half-made experiment, whatever fails in a pass.
THEOREM TypeCorrect == Spec => []TypeOK
<1>1. TypeInv => TypeOK
  BY DEF TypeInv
<1>2. QED BY <1>1, InitType, NextType, PTL DEF Spec

-----------------------------------------------------------------------------
(* The writes.                                                             *)

\* e is the experiment n as it is or as it once was: an older incarnation, an older
\* version of this one, or what the store holds.
PastOf(e, n) ==
  e # NoExperiment =>
    /\ e.uid <= created
    /\ Exists(n) /\ e.uid = store[n].uid => e.ver < store[n].ver \/ e = store[n]

\* Every copy the server may write back is of the past: those of the snapshots on
\* their way to the starter, and those the monitors read.
CopiesArePast ==
  /\ \A n \in Names :
       /\ PastOf(store[n], n)
       /\ PastOf(current[n], n)
       /\ snapshots # <<>> => PastOf(Head(snapshots)[n], n)
       /\ n \in pending => PastOf(snap[n], n)
  /\ \A m \in monitors : m.pc = "writing" => PastOf(m.got, m.name)

WriteInv == TypeInv /\ CopiesArePast

\* What a write of the server does to the experiment n.
ServerWrites(n) ==
  /\ Exists(n) /\ store'[n] # NoExperiment
  /\ store'[n].uid = store[n].uid /\ store'[n].ver = store[n].ver + 1
  /\ UserPart(store'[n].spec) = UserPart(store[n].spec)
  /\ Concluded(store[n]) => Concluded(store'[n])

\* Generating the names leaves what the user wrote.
LEMMA UserPartKept ==
  ASSUME NEW spec \in ExperimentSpec \cup {NoSpec}, NEW now \in Nat
  PROVE  UserPart(GenerateNames(spec, now)) = UserPart(spec)
<1>1. CASE spec = NoSpec
  BY <1>1 DEF UserPart, GenerateNames
<1>2. CASE spec \in ExperimentSpec /\ GenerateNames(spec, now) = spec
  BY <1>2
<1>3. CASE spec \in ExperimentSpec /\ GenerateNames(spec, now) = [spec EXCEPT !.names = now]
  <2>1. [spec EXCEPT !.names = now] # NoSpec /\ spec # NoSpec
    BY <1>3, SentinelsAssumption DEF ExperimentSpec
  <2>2. [[spec EXCEPT !.names = now] EXCEPT !.names = NoTime] = [spec EXCEPT !.names = NoTime]
    BY <1>3 DEF ExperimentSpec
  <2>3. QED BY <1>3, <2>1, <2>2 DEF UserPart
<1>4. QED BY <1>1, <1>2, <1>3 DEF GenerateNames

\* The starter writes only over the very experiment it read, and that was pending.
LEMMA StarterWrites ==
  ASSUME WriteInv, NEW n \in Names, WriteAsStarted(n)
  PROVE  \A k \in Names : store'[k] = store[k] \/ ServerWrites(k)
<1>1. snap[n] \in Experiment /\ snap[n].state = "Pending" /\ PastOf(snap[n], n)
  BY DEF WriteInv, TypeInv, TypeOK, PendingInSnapshot, CopiesArePast, WriteAsStarted, Snapshots
<1>2. Len(age) \in Nat
  BY LenProperties DEF WriteInv, TypeInv, TypeOK
<1>3. CASE Accepts(n, snap[n]) /\ Write(n, MarkStarted(snap[n], Len(age)))
  <2>1. store[n] = snap[n] /\ Exists(n)
    BY <1>1, <1>3, SentinelsAssumption DEF Accepts, PastOf, Exists, Experiment
  <2>2. ~Concluded(store[n])
    BY <1>1, <2>1 DEF Concluded
  <2> DEFINE e == [MarkStarted(snap[n], Len(age)) EXCEPT !.ver = @ + 1]
  <2>3. store' = [store EXCEPT ![n] = e]
    BY <1>3 DEF Write
  <2>4. e \in Experiment /\ e.uid = snap[n].uid /\ e.ver = snap[n].ver + 1
        /\ e.spec = GenerateNames(snap[n].spec, Len(age))
    <3>1. MarkStarted(snap[n], Len(age)) \in Experiment
      BY <1>1, <1>2, MarkStartedType
    <3>2. /\ MarkStarted(snap[n], Len(age)).uid = snap[n].uid
          /\ MarkStarted(snap[n], Len(age)).ver = snap[n].ver
          /\ MarkStarted(snap[n], Len(age)).spec = GenerateNames(snap[n].spec, Len(age))
      BY <1>1 DEF MarkStarted, Experiment
    <3>3. QED BY <3>1, <3>2 DEF Experiment
  <2>5. UserPart(e.spec) = UserPart(snap[n].spec)
    BY <1>1, <1>2, <2>4, UserPartKept DEF Experiment
  <2>6. e # NoExperiment /\ n \in DOMAIN store
    BY <2>4, SentinelsAssumption DEF WriteInv, TypeInv, TypeOK, Snapshots
  <2> HIDE DEF e
  <2>7. QED BY <2>1, <2>2, <2>3, <2>4, <2>5, <2>6
            DEF ServerWrites, WriteInv, TypeInv, TypeOK, Snapshots
<1>4. CASE UNCHANGED store
  BY <1>4
<1>5. QED BY <1>3, <1>4 DEF WriteAsStarted

\* A monitor writes only over the very experiment it read, and concludes it.
LEMMA MonitorWrites ==
  ASSUME WriteInv, NEW m \in monitors, WriteResult(m)
  PROVE  \A k \in Names : store'[k] = store[k] \/ ServerWrites(k)
<1>1. m \in Monitor /\ m.got # NoExperiment /\ m.outcome \in {"Failed", "Succeeded"}
  BY DEF WriteInv, TypeInv, TypeOK, MonitorsDecided, WriteResult
<1>2. m.name \in Names /\ m.got \in Experiment /\ PastOf(m.got, m.name)
  BY <1>1 DEF WriteInv, CopiesArePast, WriteResult, Monitor
<1>3. CASE Accepts(m.name, m.got) /\ Write(m.name, WithResult(m.got, m.outcome))
  <2>1. store[m.name] = m.got /\ Exists(m.name)
    BY <1>1, <1>2, <1>3 DEF Accepts, PastOf, Exists, Experiment
  <2> DEFINE e == [WithResult(m.got, m.outcome) EXCEPT !.ver = @ + 1]
  <2>2. store' = [store EXCEPT ![m.name] = e]
    BY <1>3 DEF Write
  <2>3. e \in Experiment /\ e.uid = m.got.uid /\ e.ver = m.got.ver + 1 /\ e.spec = m.got.spec
        /\ e.state = m.outcome
    <3>1. WithResult(m.got, m.outcome) \in Experiment
      BY <1>1, <1>2, WithResultType
    <3>2. /\ WithResult(m.got, m.outcome).uid = m.got.uid
          /\ WithResult(m.got, m.outcome).ver = m.got.ver
          /\ WithResult(m.got, m.outcome).spec = m.got.spec
          /\ WithResult(m.got, m.outcome).state = m.outcome
      BY <1>2 DEF WithResult, Experiment
    <3>3. QED BY <3>1, <3>2 DEF Experiment
  <2>4. e # NoExperiment
    BY <2>3, SentinelsAssumption
  <2> HIDE DEF e
  <2>5. QED BY <1>1, <1>2, <2>1, <2>2, <2>3, <2>4
            DEF ServerWrites, Concluded, WriteInv, TypeInv, TypeOK, Snapshots
<1>4. CASE UNCHANGED store
  BY <1>4
<1>5. QED BY <1>3, <1>4 DEF WriteResult

\* No other step of the server writes to an experiment.
LEMMA StepWrites ==
  ASSUME WriteInv, Tick \/ Server \/ Crash
  PROVE  /\ UNCHANGED <<created, edits, deletes>>
         /\ \A k \in Names : store'[k] = store[k] \/ ServerWrites(k)
<1> USE DEF api, env
<1>1. CASE Tick
  BY <1>1 DEF Tick
<1>2. CASE EmitterStep
  BY <1>2 DEF EmitterStep, Watch, Emit
<1>3. CASE LoopStep
  <2>1. CASE Receive \/ StarterReturns \/ Translate \/ SkipChecker \/ SyncChecker
    BY <2>1 DEF Receive, StarterReturns, Translate, SkipChecker, SyncChecker
  <2>2. ASSUME NEW n \in Names, WriteAsStarted(n)
        PROVE  /\ UNCHANGED <<created, edits, deletes>>
               /\ \A k \in Names : store'[k] = store[k] \/ ServerWrites(k)
    BY <2>2, StarterWrites DEF WriteAsStarted
  <2>3. CASE Panic
    BY <2>3 DEF Panic, Restart
  <2>4. QED BY <1>3, <2>1, <2>2, <2>3 DEF LoopStep
<1>4. ASSUME NEW m \in monitors,
             \/ BeginWithoutSpec(m) \/ BeginInvalid(m) \/ BeginSelect(m)
             \/ BeginCancelled(m) \/ DurationElapses(m) \/ ReadExperiment(m)
             \/ WriteResult(m) \/ ProduceReport(m) \/ FailureConditionMet(m)
      PROVE  /\ UNCHANGED <<created, edits, deletes>>
             /\ \A k \in Names : store'[k] = store[k] \/ ServerWrites(k)
  <2>1. CASE WriteResult(m)
    BY <2>1, MonitorWrites DEF WriteResult, Others
  <2>2. CASE ~WriteResult(m)
    BY <1>4, <2>2 DEF BeginWithoutSpec, BeginInvalid, BeginSelect, BeginCancelled,
       DurationElapses, ReadExperiment, ProduceReport, FailureConditionMet, Others
  <2>3. QED BY <2>1, <2>2
<1>5. CASE Exit \/ Crash
  BY <1>5 DEF Exit, Crash, Restart
<1>6. QED BY <1>1, <1>2, <1>3, <1>4, <1>5 DEF Server, MonitorStep, MonitorProgress

\* What a user does to the experiment n.
UserWrites(n) ==
  \/ store'[n] = NoExperiment
  \/ /\ Exists(n) /\ store'[n] # NoExperiment
     /\ store'[n].uid = store[n].uid /\ store'[n].ver = store[n].ver + 1
     /\ store'[n].state = store[n].state
  \/ /\ ~Exists(n) /\ store'[n] # NoExperiment
     /\ store'[n].uid = created + 1 /\ created' = created + 1

\* What a user does to the store, and how it is counted.
LEMMA UserStep ==
  ASSUME WriteInv, User
  PROVE  /\ created' \in {created, created + 1}
         /\ ~UNCHANGED <<created, edits, deletes>>
         /\ \A k \in Names : store'[k] = store[k] \/ UserWrites(k)
<1>1. /\ created \in Nat /\ edits \in Nat /\ deletes \in Nat
      /\ store \in [Names -> Experiment \cup {NoExperiment}]
  BY DEF WriteInv, TypeInv, TypeOK, Snapshots
<1>2. ASSUME NEW n \in Names, NEW spec \in UserSpecs, Create(n, spec)
      PROVE  /\ created' \in {created, created + 1}
             /\ ~UNCHANGED <<created, edits, deletes>>
             /\ \A k \in Names : store'[k] = store[k] \/ UserWrites(k)
  <2> DEFINE e == [uid |-> created + 1, ver |-> 1, spec |-> spec, state |-> "Pending",
                   started |-> NoTime, failure |-> FALSE]
  <2>1. e \in Experiment /\ e.uid = created + 1
    BY <1>1, BoundsAssumption DEF Experiment, States, NoTime
  <2>2. e # NoExperiment
    BY <2>1, SentinelsAssumption
  <2>3. store' = [store EXCEPT ![n] = e] /\ ~Exists(n) /\ created' = created + 1
    BY <1>2 DEF Create, Exists
  <2> HIDE DEF e
  <2>4. QED BY <1>1, <2>1, <2>2, <2>3 DEF UserWrites
<1>3. ASSUME NEW n \in Names, store[n] # NoExperiment,
             NEW spec \in UserSpecs \cup {store[n].spec}, Edit(n, spec)
      PROVE  /\ created' \in {created, created + 1}
             /\ ~UNCHANGED <<created, edits, deletes>>
             /\ \A k \in Names : store'[k] = store[k] \/ UserWrites(k)
  <2> DEFINE e == [[store[n] EXCEPT !.spec = spec] EXCEPT !.ver = @ + 1]
  <2>1. store[n] \in Experiment
    BY <1>1, <1>3
  <2>2. e \in Experiment /\ e.uid = store[n].uid /\ e.ver = store[n].ver + 1
        /\ e.state = store[n].state
    <3> DEFINE f == [store[n] EXCEPT !.spec = spec]
    <3>1. f \in Experiment
      BY <2>1, BoundsAssumption DEF Experiment
    <3>2. f.uid = store[n].uid /\ f.ver = store[n].ver /\ f.state = store[n].state
      BY <2>1 DEF Experiment
    <3>3. e = [f EXCEPT !.ver = @ + 1]
      OBVIOUS
    <3> HIDE DEF e, f
    <3>4. QED BY <3>1, <3>2, <3>3 DEF Experiment
  <2>3. e # NoExperiment
    BY <2>2, SentinelsAssumption
  <2>4. store' = [store EXCEPT ![n] = e] /\ Exists(n) /\ UNCHANGED created /\ edits' = edits + 1
    BY <1>3 DEF Edit, Write, Exists
  <2> HIDE DEF e
  <2>5. QED BY <1>1, <2>2, <2>3, <2>4 DEF UserWrites
<1>4. ASSUME NEW n \in Names, Delete(n)
      PROVE  /\ created' \in {created, created + 1}
             /\ ~UNCHANGED <<created, edits, deletes>>
             /\ \A k \in Names : store'[k] = store[k] \/ UserWrites(k)
  BY <1>1, <1>4 DEF Delete, UserWrites
<1>5. QED BY <1>2, <1>3, <1>4 DEF User

\* PastOf in the state a step leads to, of a copy made before it.
StillPastOf(e, n) ==
  e # NoExperiment =>
    /\ e.uid <= created'
    /\ store'[n] # NoExperiment /\ e.uid = store'[n].uid =>
         e.ver < store'[n].ver \/ e = store'[n]

\* What is of the past stays of the past, whoever writes.
LEMMA PastKept ==
  ASSUME WriteInv, [Next]_vars, NEW n \in Names
  PROVE  /\ StillPastOf(store'[n], n)
         /\ \A e \in Experiment \cup {NoExperiment} : PastOf(e, n) => StillPastOf(e, n)
<1>1. /\ created \in Nat /\ store[n] \in Experiment \cup {NoExperiment}
      /\ PastOf(store[n], n)
  BY DEF WriteInv, TypeInv, TypeOK, Snapshots, CopiesArePast
<1>2. /\ created' \in {created, created + 1}
      /\ store'[n] = store[n] \/ UserWrites(n) \/ ServerWrites(n)
  BY StepWrites, UserStep DEF Next, vars, api, env
<1>3. StillPastOf(store'[n], n)
  BY <1>1, <1>2 DEF PastOf, StillPastOf, UserWrites, ServerWrites, Exists, Experiment
<1>4. ASSUME NEW e \in Experiment \cup {NoExperiment}, PastOf(e, n), e # NoExperiment
      PROVE  StillPastOf(e, n)
  <2>1. e.uid \in Nat /\ e.ver \in Nat /\ e.uid <= created /\ e.uid <= created'
    BY <1>1, <1>2, <1>4 DEF PastOf, Experiment
  <2>2. CASE store'[n] = store[n]
    BY <1>4, <2>1, <2>2 DEF PastOf, StillPastOf, Exists
  <2>3. CASE Exists(n) /\ store'[n].uid = store[n].uid /\ store'[n].ver = store[n].ver + 1
    BY <1>1, <1>4, <2>1, <2>3 DEF PastOf, StillPastOf, Exists, Experiment
  <2>4. CASE store'[n] = NoExperiment \/ store'[n].uid = created + 1
    BY <1>1, <2>1, <2>4 DEF StillPastOf
  <2>5. QED BY <1>2, <2>2, <2>3, <2>4 DEF UserWrites, ServerWrites
<1>5. QED BY <1>3, <1>4 DEF StillPastOf

\* At first there are no copies.
LEMMA WriteInit == Init => WriteInv
BY InitType DEF Init, ProcessInit, WriteInv, CopiesArePast, PastOf, EmptySnapshot

\* No step makes a copy of anything but the store, or of a copy there was.
LEMMA CopiesKept ==
  ASSUME WriteInv, [Next]_vars
  PROVE  /\ \A n \in Names : current'[n] \in {current[n], store'[n], NoExperiment}
         /\ snapshots' # <<>> => snapshots' = snapshots \/ Head(snapshots') = current
         /\ \A n \in pending' :
              \/ n \in pending /\ snap'[n] = snap[n]
              \/ snapshots # <<>> /\ snap'[n] = Head(snapshots)[n]
         /\ \A m \in monitors' : m.pc = "writing" => m \in monitors \/ m.got = store'[m.name]
<1> DEFINE Goal ==
         /\ \A n \in Names : current'[n] \in {current[n], store'[n], NoExperiment}
         /\ snapshots' # <<>> => snapshots' = snapshots \/ Head(snapshots') = current
         /\ \A n \in pending' :
              \/ n \in pending /\ snap'[n] = snap[n]
              \/ snapshots # <<>> /\ snap'[n] = Head(snapshots)[n]
         /\ \A m \in monitors' : m.pc = "writing" => m \in monitors \/ m.got = store'[m.name]
<1> SUFFICES Goal
  OBVIOUS
<1> USE DEF api, env, emitter, looping
<1>0. /\ loop # "starting" => pending = {}
      /\ snap \in Snapshots /\ pending \subseteq Names /\ monitors \subseteq Monitor
  BY DEF WriteInv, TypeInv, TypeOK, PendingInSnapshot
<1>1. CASE User
  BY <1>1 DEF User, Create, Edit, Delete
<1>2. CASE Tick
  BY <1>2 DEF Tick
<1>3. CASE EmitterStep
  <2>1. CASE Watch
    BY <2>1 DEF Watch
  <2>2. CASE Emit
    <3>1. Head(snapshots') = current
      BY <2>2 DEF Emit
    <3>2. QED BY <2>2, <3>1 DEF Emit
  <2>3. QED BY <1>3, <2>1, <2>2 DEF EmitterStep
<1>4. CASE LoopStep
  <2>1. CASE Receive
    BY <1>0, <2>1 DEF Receive
  <2>2. ASSUME NEW n \in Names, WriteAsStarted(n) PROVE Goal
    BY <1>0, <2>2 DEF WriteAsStarted, Snapshots
  <2>3. CASE StarterReturns \/ Translate
    BY <2>3 DEF StarterReturns, Translate
  <2>4. CASE SkipChecker
    BY <1>0, <2>4 DEF SkipChecker, EndOfPass
  <2>5. CASE SyncChecker
    <3>1. \A m \in NewMonitors : m.pc = "starting"
      BY DEF NewMonitors
    <3>2. QED BY <1>0, <2>5, <3>1 DEF SyncChecker, EndOfPass, Survivors
  <2>6. CASE Panic
    BY <2>6 DEF Panic, Restart, EmptySnapshot
  <2>7. QED BY <1>4, <2>1, <2>2, <2>3, <2>4, <2>5, <2>6 DEF LoopStep
<1>5. ASSUME NEW m \in monitors,
             \/ BeginWithoutSpec(m) \/ BeginInvalid(m) \/ BeginSelect(m)
             \/ BeginCancelled(m) \/ DurationElapses(m) \/ ReadExperiment(m)
             \/ WriteResult(m) \/ ProduceReport(m) \/ FailureConditionMet(m)
      PROVE  Goal
  <2>1. m \in Monitor
    BY <1>0, <1>5
  <2>2. UNCHANGED Others
    BY <1>5 DEF BeginWithoutSpec, BeginInvalid, BeginSelect, BeginCancelled,
       DurationElapses, ReadExperiment, WriteResult, ProduceReport, FailureConditionMet
  <2>3. \A k \in monitors' : k.pc = "writing" => k \in monitors \/ k.got = store'[k.name]
    <3>1. CASE ReadExperiment(m)
      <4> DEFINE next == [m EXCEPT !.pc = "writing", !.got = store[m.name]]
      <4>1. next.got = store[m.name] /\ next.name = m.name /\ UNCHANGED store
        BY <2>1, <3>1 DEF ReadExperiment, Monitor
      <4>2. monitors' \subseteq monitors \cup {next}
        BY <3>1 DEF ReadExperiment, Becomes, Returns
      <4> HIDE DEF next
      <4>3. QED BY <4>1, <4>2
    <3>2. CASE WriteResult(m)
      BY <2>1, <3>2 DEF WriteResult, Becomes, Returns, Monitor
    <3>3. CASE BeginSelect(m)
      BY <2>1, <3>3 DEF BeginSelect, Becomes, Monitor
    <3>4. CASE \/ BeginWithoutSpec(m) \/ BeginInvalid(m) \/ BeginCancelled(m)
               \/ DurationElapses(m) \/ ProduceReport(m) \/ FailureConditionMet(m)
      <4>1. \A outcome : [m EXCEPT !.pc = "reading", !.outcome = outcome,
                                   !.spec = NoSpec, !.started = NoTime].pc = "reading"
        BY <2>1 DEF Monitor
      <4>2. QED
        BY <3>4, <4>1 DEF BeginWithoutSpec, BeginInvalid, BeginCancelled, DurationElapses,
           ProduceReport, FailureConditionMet, Decides, Becomes, Returns
    <3>5. QED BY <1>5, <3>1, <3>2, <3>3, <3>4
  <2>4. QED BY <2>2, <2>3 DEF Others
<1>6. CASE Exit \/ Crash
  BY <1>6 DEF Exit, Crash, Restart, EmptySnapshot
<1>7. CASE UNCHANGED vars
  BY <1>7 DEF vars
<1>8. QED BY <1>1, <1>2, <1>3, <1>4, <1>5, <1>6, <1>7
          DEF Next, Server, MonitorStep, MonitorProgress

\* Every step keeps the invariant on writes.
LEMMA WriteNext == WriteInv /\ [Next]_vars => WriteInv'
<1> SUFFICES ASSUME WriteInv, [Next]_vars PROVE CopiesArePast'
  BY NextType DEF WriteInv
<1>1. /\ store \in Snapshots /\ current \in Snapshots /\ snap \in Snapshots
      /\ snapshots # <<>> => Head(snapshots) \in Snapshots
      /\ pending \subseteq Names /\ pending' \subseteq Names
      /\ monitors \subseteq Monitor /\ monitors' \subseteq Monitor
  BY NextType, HeadTailProperties DEF WriteInv, TypeInv, TypeOK
<1>2. ASSUME NEW n \in Names
      PROVE  /\ PastOf(store[n], n)'
             /\ PastOf(current[n], n)'
             /\ (snapshots # <<>> => PastOf(Head(snapshots)[n], n))'
             /\ (n \in pending => PastOf(snap[n], n))'
  <2>1. /\ PastOf(store[n], n) /\ PastOf(current[n], n)
        /\ snapshots # <<>> => PastOf(Head(snapshots)[n], n)
        /\ n \in pending => PastOf(snap[n], n)
    BY DEF WriteInv, CopiesArePast
  <2>2. /\ StillPastOf(store'[n], n) /\ StillPastOf(current[n], n)
        /\ snapshots # <<>> => StillPastOf(Head(snapshots)[n], n)
        /\ n \in pending => StillPastOf(snap[n], n)
    BY <1>1, <2>1, PastKept DEF Snapshots
  <2>3. StillPastOf(current'[n], n)
    BY <2>2, CopiesKept DEF StillPastOf
  <2>4. snapshots' # <<>> => StillPastOf(Head(snapshots')[n], n)
    BY <2>2, CopiesKept
  <2>5. n \in pending' => StillPastOf(snap'[n], n)
    BY <2>2, CopiesKept
  <2>6. QED BY <2>2, <2>3, <2>4, <2>5 DEF PastOf, StillPastOf, Exists
<1>3. ASSUME NEW m \in monitors', m.pc = "writing"
      PROVE  StillPastOf(m.got, m.name)
  <2>1. m \in Monitor /\ m.name \in Names /\ m.got \in Experiment \cup {NoExperiment}
    BY <1>1, <1>3 DEF Monitor
  <2>2. CASE m \in monitors
    BY <1>3, <2>1, <2>2, PastKept DEF WriteInv, CopiesArePast
  <2>3. CASE m.got = store'[m.name]
    BY <2>1, <2>3, PastKept
  <2>4. QED BY <1>3, <2>2, <2>3, CopiesKept
<1>4. QED BY <1>2, <1>3 DEF CopiesArePast, PastOf, StillPastOf, Exists

\* So it is one.
LEMMA WriteInvariant == Spec => []WriteInv
BY WriteInit, WriteNext, PTL DEF Spec

\* No write of the server takes an experiment out of Failed or Succeeded, whatever
\* copies of it the starter and the monitors still hold.
THEOREM ConcludedIsFinal == Spec => ConcludedStaysConcluded
<1>1. ASSUME WriteInv, [Next]_vars
      PROVE  [\A n \in Names : Exists(n) /\ Concluded(store[n])
                => store'[n] = NoExperiment \/ Concluded(store'[n])]_vars
  <2> SUFFICES ASSUME NEW n \in Names, Exists(n), Concluded(store[n])
               PROVE  store'[n] = NoExperiment \/ Concluded(store'[n])
    OBVIOUS
  <2>1. store'[n] = store[n] \/ UserWrites(n) \/ ServerWrites(n)
    BY <1>1, StepWrites, UserStep DEF Next, vars, api, env
  <2>2. QED BY <2>1 DEF UserWrites, ServerWrites, Concluded
<1>2. QED BY <1>1, WriteInvariant, PTL DEF Spec, ConcludedStaysConcluded

\* Only users create, delete and edit: no write of the server undoes an edit or brings
\* a deleted experiment back.
THEOREM ServerKeepsEdits == Spec => OnlyUsersEdit
<1>1. ASSUME WriteInv, [Next]_vars
      PROVE  [UNCHANGED <<created, edits, deletes>> =>
                \A n \in Names :
                  /\ Exists(n) <=> store'[n] # NoExperiment
                  /\ Exists(n) => /\ store'[n].uid = store[n].uid
                                  /\ UserPart(store'[n].spec) = UserPart(store[n].spec)]_vars
  <2> SUFFICES ASSUME UNCHANGED <<created, edits, deletes>>, NEW n \in Names
               PROVE  /\ Exists(n) <=> store'[n] # NoExperiment
                      /\ Exists(n) => /\ store'[n].uid = store[n].uid
                                      /\ UserPart(store'[n].spec) = UserPart(store[n].spec)
    OBVIOUS
  <2>1. store'[n] = store[n] \/ ServerWrites(n)
    BY <1>1, StepWrites, UserStep DEF Next, vars, api, env
  <2>2. QED BY <2>1 DEF ServerWrites, Exists
<1>2. QED BY <1>1, WriteInvariant, PTL DEF Spec, OnlyUsersEdit
=============================================================================
