---------------------------- MODULE LifecycleProofs ----------------------------
(***************************************************************************)
(* What the server makes of the experiments: where it comes to rest it has *)
(* missed nothing, and as long as nobody disturbs them each experiment is  *)
(* attended, runs for its whole duration, and goes through the life that   *)
(* ExperimentLifecycle promises.                                           *)
(***************************************************************************)
EXTENDS MonitorProofs

-----------------------------------------------------------------------------
(* What the operators keep of an experiment.                               *)

\* The hash keeps what there is, with its state and its spec.
LEMMA HashKeeps ==
  ASSUME NEW s \in Snapshots, NEW n \in Names
  PROVE  /\ s[n] = NoExperiment => Hash(s)[n] = NoExperiment
         /\ s[n] # NoExperiment => /\ Hash(s)[n] # NoExperiment
                                   /\ Hash(s)[n].state = s[n].state
                                   /\ Hash(s)[n].spec = s[n].spec
<1>1. CASE s[n] = NoExperiment
  BY <1>1 DEF Hash
<1>2. CASE s[n] # NoExperiment
  <2> DEFINE e == [s[n] EXCEPT !.uid = 0, !.ver = 0]
  <2>1. s[n] \in Experiment
    BY <1>2 DEF Snapshots
  <2>2. e \in Experiment /\ e.state = s[n].state /\ e.spec = s[n].spec
    BY <2>1 DEF Experiment
  <2>3. Hash(s)[n] = e
    BY <1>2 DEF Hash
  <2> HIDE DEF e
  <2>4. QED BY <1>2, <2>2, <2>3, SentinelsAssumption
<1>3. QED BY <1>1, <1>2

\* A snapshot and its hash are treated alike by the syncers.
LEMMA HashAlike ==
  ASSUME NEW s \in Snapshots
  PROVE  /\ RoutingRules(Hash(s)) = RoutingRules(s)
         /\ \A state : ExperimentsWithState(Hash(s), state) = ExperimentsWithState(s, state)
<1>1. \A n \in Names : /\ WantsFaults(Hash(s)[n]) <=> WantsFaults(s[n])
                       /\ WantsFaults(s[n]) => Hash(s)[n].spec = s[n].spec
  BY HashKeeps DEF WantsFaults, Concluded
<1>2. RoutingRules(Hash(s)) = RoutingRules(s)
  BY <1>1 DEF RoutingRules
<1>3. QED BY <1>2, HashKeeps DEF ExperimentsWithState

\* What is remembered of a snapshot is its started experiments and nothing else.
LEMMA RememberedStarted ==
  ASSUME NEW s \in Snapshots
  PROVE  /\ StartedExperiments(Remembered(s)) = StartedExperiments(s)
         /\ \A n \in Names : Remembered(s)[n] # NoExperiment => n \in StartedExperiments(s)
<1> DEFINE started == [k \in Names |-> IF k \in StartedExperiments(s) THEN s[k] ELSE NoExperiment]
<1>1. started \in Snapshots /\ Remembered(s) = Hash(started)
  BY DEF Snapshots, Remembered
<1>2. \A n \in Names : started[n] # NoExperiment => n \in StartedExperiments(s)
  OBVIOUS
<1> HIDE DEF started
<1>3. \A n \in Names : Remembered(s)[n] # NoExperiment => n \in StartedExperiments(s)
  BY <1>1, <1>2, HashKeeps
<1>4. QED BY <1>3, RememberedSpecs DEF StartedExperiments, ExperimentsWithState

\* Starting an experiment changes its state, its time and nothing a user wrote of it.
LEMMA MarkStartedKeeps ==
  ASSUME NEW e \in Experiment, NEW now \in Nat
  PROVE  /\ MarkStarted(e, now) \in Experiment
         /\ MarkStarted(e, now) # NoExperiment
         /\ MarkStarted(e, now).state = "Started"
         /\ MarkStarted(e, now).started = now
         /\ MarkStarted(e, now).uid = e.uid /\ MarkStarted(e, now).ver = e.ver
         /\ UserPart(MarkStarted(e, now).spec) = UserPart(e.spec)
<1>1. MarkStarted(e, now) \in Experiment
  BY MarkStartedType
<1>2. /\ MarkStarted(e, now).spec = GenerateNames(e.spec, now)
      /\ MarkStarted(e, now).state = "Started" /\ MarkStarted(e, now).started = now
      /\ MarkStarted(e, now).uid = e.uid /\ MarkStarted(e, now).ver = e.ver
  BY DEF MarkStarted, Experiment
<1>3. UserPart(GenerateNames(e.spec, now)) = UserPart(e.spec)
  BY UserPartKept DEF Experiment
<1>4. QED BY <1>1, <1>2, <1>3, SentinelsAssumption

\* What can be told from the part of a spec that the user wrote.
LEMMA SameUserPart ==
  ASSUME NEW s1 \in ExperimentSpec \cup {NoSpec}, NEW s2 \in ExperimentSpec \cup {NoSpec},
         UserPart(s1) = UserPart(s2)
  PROVE  /\ s1 = NoSpec <=> s2 = NoSpec
         /\ s1 # NoSpec => /\ s1.conditions = s2.conditions /\ s1.duration = s2.duration
                           /\ s1.faults = s2.faults
<1>1. \A s \in ExperimentSpec : /\ [s EXCEPT !.names = NoTime] \in ExperimentSpec
                                /\ [s EXCEPT !.names = NoTime].conditions = s.conditions
                                /\ [s EXCEPT !.names = NoTime].duration = s.duration
                                /\ [s EXCEPT !.names = NoTime].faults = s.faults
  BY DEF ExperimentSpec, NoTime
<1>2. QED BY <1>1, SentinelsAssumption DEF UserPart

\* An experiment wants its faults before it is started as it does after.
LEMMA StartingKeepsRules ==
  ASSUME NEW s \in Snapshots, NEW n \in Names, s[n] # NoExperiment, s[n].state = "Pending",
         NEW now \in Nat
  PROVE  RoutingRules([s EXCEPT ![n] = MarkStarted(s[n], now)]) = RoutingRules(s)
<1> DEFINE e == MarkStarted(s[n], now)
           t == [s EXCEPT ![n] = e]
<1>1. s[n] \in Experiment
  BY DEF Snapshots
<1>2. /\ e \in Experiment /\ e # NoExperiment /\ e.state = "Started"
      /\ UserPart(e.spec) = UserPart(s[n].spec)
  BY <1>1, MarkStartedKeeps
<1>3. /\ e.spec = NoSpec <=> s[n].spec = NoSpec
      /\ s[n].spec # NoSpec => e.spec.faults = s[n].spec.faults
  BY <1>1, <1>2, SameUserPart DEF Experiment
<1> HIDE DEF e
<1>4. (WantsFaults(e) <=> WantsFaults(s[n])) /\ (WantsFaults(e) => e.spec.faults = s[n].spec.faults)
  BY <1>2, <1>3 DEF WantsFaults, Concluded
<1>5. \A k \in Names : t[k] = IF k = n THEN e ELSE s[k]
  BY DEF Snapshots
<1> HIDE DEF t
<1>6. RoutingRules(t) = RoutingRules(s)
  BY <1>4, <1>5 DEF RoutingRules
<1>7. QED BY <1>6 DEF e, t

-----------------------------------------------------------------------------
(* What becomes of an experiment.                                          *)

\* The experiment n was started, and is not deleted.
Begun(n) == Exists(n) /\ store[n].state # "Pending"

\* A user submits the experiment n.
Submitted(n) == ~Exists(n) /\ store'[n] # NoExperiment /\ store'[n].state = "Pending"

\* A user edits the experiment n.
Edited(n) ==
  /\ Exists(n) /\ store'[n] # NoExperiment /\ store'[n].state = store[n].state
  /\ edits' > 0

\* The starter starts the experiment n.
Starts(n) ==
  /\ Exists(n) /\ store'[n] # NoExperiment
  /\ loop = "starting" /\ store[n].state = "Pending"
  /\ store'[n].state = "Started" /\ store'[n].started = Len(age)
  /\ UserPart(store'[n].spec) = UserPart(store[n].spec)

\* A monitor writes its outcome over the experiment n, which it has just read.
Concludes(n) ==
  /\ Exists(n) /\ store'[n] # NoExperiment
  /\ \E m \in monitors : /\ m.name = n /\ m.outcome \in {"Failed", "Succeeded"}
                         /\ store'[n].state = m.outcome
  /\ store'[n].started = store[n].started
  /\ store'[n].spec = store[n].spec

\* A write of the starter that is accepted starts the experiment.
LEMMA StarterMoves ==
  ASSUME WriteInv, NEW n \in Names, WriteAsStarted(n)
  PROVE  /\ UNCHANGED age
         /\ \A k \in Names : store'[k] = store[k] \/ Starts(k)
         /\ failed' \/ (Starts(n) /\ UNCHANGED failed)
         /\ snap[n] = store[n] /\ ~HasDuplicateNames(snap[n].spec) => Starts(n)
<1>1. snap[n] \in Experiment /\ snap[n].state = "Pending" /\ PastOf(snap[n], n)
  BY DEF WriteInv, TypeInv, TypeOK, PendingInSnapshot, CopiesArePast, WriteAsStarted, Snapshots
<1>2. Len(age) \in Nat
  BY LenProperties DEF WriteInv, TypeInv, TypeOK
<1>3. CASE Accepts(n, snap[n]) /\ Write(n, MarkStarted(snap[n], Len(age))) /\ UNCHANGED failed
  <2>1. store[n] = snap[n] /\ Exists(n)
    BY <1>1, <1>3, SentinelsAssumption DEF Accepts, PastOf, Exists, Experiment
  <2> DEFINE e == MarkStarted(snap[n], Len(age))
             f == [e EXCEPT !.ver = @ + 1]
  <2>2. /\ e \in Experiment /\ e.state = "Started" /\ e.started = Len(age)
        /\ UserPart(e.spec) = UserPart(snap[n].spec)
    BY <1>1, <1>2, MarkStartedKeeps
  <2>3. store' = [store EXCEPT ![n] = f]
    BY <1>3 DEF Write
  <2> HIDE DEF e
  <2>4. f \in Experiment /\ f.state = e.state /\ f.started = e.started /\ f.spec = e.spec
    BY <2>2 DEF Experiment
  <2> HIDE DEF f
  <2>5. f # NoExperiment /\ store \in [Names -> Experiment \cup {NoExperiment}]
    BY <2>4, SentinelsAssumption DEF WriteInv, TypeInv, TypeOK, Snapshots
  <2>6. Starts(n) /\ \A k \in Names \ {n} : store'[k] = store[k]
    BY <1>1, <2>1, <2>2, <2>3, <2>4, <2>5 DEF Starts, WriteAsStarted
  <2>7. QED BY <1>3, <2>6 DEF WriteAsStarted
<1>4. CASE /\ UNCHANGED store /\ failed'
           /\ ~(~HasDuplicateNames(snap[n].spec) /\ Accepts(n, snap[n]))
  <2>1. snap[n] = store[n] => Accepts(n, snap[n])
    BY <1>1, SentinelsAssumption DEF Accepts
  <2>2. QED BY <1>4, <2>1 DEF WriteAsStarted
<1>5. QED BY <1>3, <1>4 DEF WriteAsStarted

\* A write of a monitor that is accepted concludes the experiment.
LEMMA MonitorMoves ==
  ASSUME WriteInv, NEW m \in monitors, WriteResult(m)
  PROVE  /\ \A k \in Names : store'[k] = store[k] \/ Concludes(k)
         /\ Accepts(m.name, m.got) => Concludes(m.name) /\ store'[m.name].state = m.outcome
<1>1. m \in Monitor /\ m.got # NoExperiment /\ m.outcome \in {"Failed", "Succeeded"}
  BY DEF WriteInv, TypeInv, TypeOK, MonitorsDecided, WriteResult
<1>2. m.name \in Names /\ m.got \in Experiment /\ PastOf(m.got, m.name)
  BY <1>1 DEF WriteInv, CopiesArePast, WriteResult, Monitor
<1>3. CASE Accepts(m.name, m.got) /\ Write(m.name, WithResult(m.got, m.outcome))
  <2>1. store[m.name] = m.got /\ Exists(m.name)
    BY <1>1, <1>2, <1>3 DEF Accepts, PastOf, Exists, Experiment
  <2> DEFINE e == WithResult(m.got, m.outcome)
             f == [e EXCEPT !.ver = @ + 1]
  <2>2. store' = [store EXCEPT ![m.name] = f]
    BY <1>3 DEF Write
  <2>3. /\ e \in Experiment /\ e.spec = m.got.spec /\ e.state = m.outcome
        /\ e.started = m.got.started
    BY <1>1, <1>2, WithResultType DEF WithResult, Experiment
  <2> HIDE DEF e
  <2>4. f \in Experiment /\ f.state = e.state /\ f.started = e.started /\ f.spec = e.spec
    BY <2>3 DEF Experiment
  <2> HIDE DEF f
  <2>5. f # NoExperiment /\ store \in [Names -> Experiment \cup {NoExperiment}]
    BY <2>4, SentinelsAssumption DEF WriteInv, TypeInv, TypeOK, Snapshots
  <2>6. /\ Concludes(m.name) /\ store'[m.name].state = m.outcome
        /\ \A k \in Names \ {m.name} : store'[k] = store[k]
    BY <1>1, <1>2, <2>1, <2>2, <2>3, <2>4, <2>5 DEF Concludes
  <2>7. QED BY <2>6
<1>4. CASE ~Accepts(m.name, m.got) /\ UNCHANGED store
  BY <1>4
<1>5. QED BY <1>3, <1>4 DEF WriteResult

\* The server does nothing else to an experiment.
LEMMA ServerMoves ==
  ASSUME WriteInv, Tick \/ Server \/ Crash
  PROVE  /\ UNCHANGED <<edits, deletes>>
         /\ \A k \in Names : store'[k] = store[k] \/ Starts(k) \/ Concludes(k)
<1> USE DEF api, env
<1>1. UNCHANGED <<edits, deletes>>
  BY StepWrites
<1>2. CASE Tick \/ EmitterStep \/ Exit \/ Crash
  BY <1>1, <1>2 DEF Tick, EmitterStep, Watch, Emit, Exit, Crash, Restart
<1>3. CASE LoopStep
  <2>1. CASE Receive \/ StarterReturns \/ Translate \/ SkipChecker \/ SyncChecker \/ Panic
    BY <1>1, <2>1 DEF Receive, StarterReturns, Translate, SkipChecker, SyncChecker, Panic, Restart
  <2>2. ASSUME NEW n \in Names, WriteAsStarted(n)
        PROVE  \A k \in Names : store'[k] = store[k] \/ Starts(k)
    BY <2>2, StarterMoves
  <2>3. QED BY <1>1, <1>3, <2>1, <2>2 DEF LoopStep
<1>4. ASSUME NEW m \in monitors,
             \/ BeginWithoutSpec(m) \/ BeginInvalid(m) \/ BeginSelect(m)
             \/ BeginCancelled(m) \/ DurationElapses(m) \/ ReadExperiment(m)
             \/ WriteResult(m) \/ ProduceReport(m) \/ FailureConditionMet(m)
      PROVE  \A k \in Names : store'[k] = store[k] \/ Concludes(k)
  <2>1. CASE WriteResult(m)
    BY <2>1, MonitorMoves
  <2>2. CASE ~WriteResult(m)
    BY <1>4, <2>2 DEF BeginWithoutSpec, BeginInvalid, BeginSelect, BeginCancelled,
       DurationElapses, ReadExperiment, ProduceReport, FailureConditionMet
  <2>3. QED BY <2>1, <2>2
<1>5. QED BY <1>1, <1>2, <1>3, <1>4 DEF Server, MonitorStep, MonitorProgress

\* A user submits, edits or deletes, and that is counted.
LEMMA UserMoves ==
  ASSUME WriteInv, User
  PROVE  /\ edits' >= edits /\ deletes' >= deletes
         /\ UNCHANGED <<rules, reports, age, emitter, looping, main, monitors>>
         /\ \A k \in Names : \/ store'[k] = store[k] \/ Submitted(k) \/ Edited(k)
                             \/ deletes' > 0
<1> DEFINE Goal ==
         /\ edits' >= edits /\ deletes' >= deletes
         /\ UNCHANGED <<rules, reports, age, emitter, looping, main, monitors>>
         /\ \A k \in Names : \/ store'[k] = store[k] \/ Submitted(k) \/ Edited(k)
                             \/ deletes' > 0
<1>0. /\ created \in Nat /\ edits \in Nat /\ deletes \in Nat
      /\ store \in [Names -> Experiment \cup {NoExperiment}]
  BY DEF WriteInv, TypeInv, TypeOK, Snapshots
<1>1. ASSUME NEW n \in Names, NEW spec \in UserSpecs, Create(n, spec) PROVE Goal
  <2> DEFINE e == [uid |-> created + 1, ver |-> 1, spec |-> spec, state |-> "Pending",
                   started |-> NoTime, failure |-> FALSE]
  <2>1. e \in Experiment /\ e.state = "Pending"
    BY <1>0, BoundsAssumption DEF Experiment, States, NoTime
  <2>2. e # NoExperiment
    BY <2>1, SentinelsAssumption
  <2>3. store' = [store EXCEPT ![n] = e] /\ ~Exists(n)
    BY <1>1 DEF Create, Exists
  <2> HIDE DEF e
  <2>4. \A k \in Names : store'[k] = store[k] \/ Submitted(k)
    BY <1>0, <2>1, <2>2, <2>3 DEF Submitted
  <2>5. QED BY <1>0, <1>1, <2>4 DEF Create
<1>2. ASSUME NEW n \in Names, store[n] # NoExperiment,
             NEW spec \in UserSpecs \cup {store[n].spec}, Edit(n, spec)
      PROVE  Goal
  <2>1. \A k \in Names \ {n} : store'[k] = store[k]
    BY <1>0, <1>2 DEF Edit, Write
  <2>2. store'[n] # NoExperiment /\ store'[n].state = store[n].state
    <3> DEFINE f == [store[n] EXCEPT !.spec = spec]
               e == [f EXCEPT !.ver = @ + 1]
    <3>1. f \in Experiment /\ f.state = store[n].state
      BY <1>0, <1>2, BoundsAssumption DEF Experiment
    <3> HIDE DEF f
    <3>2. e \in Experiment /\ e.state = f.state
      BY <3>1 DEF Experiment
    <3>3. store' = [store EXCEPT ![n] = e]
      BY <1>2 DEF Edit, Write, f
    <3> HIDE DEF e
    <3>4. QED BY <1>0, <3>1, <3>2, <3>3, SentinelsAssumption
  <2>3. edits' = edits + 1 /\ UNCHANGED deletes
    BY <1>2 DEF Edit
  <2>4. Edited(n)
    BY <1>0, <1>2, <2>2, <2>3 DEF Edited, Exists
  <2>5. QED BY <1>0, <1>2, <2>1, <2>3, <2>4 DEF Edit
<1>3. ASSUME NEW n \in Names, Delete(n) PROVE Goal
  BY <1>0, <1>3 DEF Delete
<1>4. QED BY <1>1, <1>2, <1>3 DEF User

\* Where nothing is deleted an experiment that was started stays so.
LEMMA BegunStays ==
  ASSUME WriteInv, [Next]_vars, deletes' = 0
  PROVE  deletes = 0 /\ \A n \in Names : Begun(n) => Begun(n)'
<1>1. deletes \in Nat
  BY DEF WriteInv, TypeInv, TypeOK
<1>2. CASE User
  BY <1>1, <1>2, UserMoves DEF Begun, Exists, Submitted, Edited
<1>3. CASE Tick \/ Server \/ Crash
  BY <1>3, ServerMoves DEF Begun, Exists, Starts, Concludes
<1>4. CASE UNCHANGED vars
  BY <1>4 DEF vars, api, env, Begun, Exists
<1>5. QED BY <1>2, <1>3, <1>4 DEF Next

\* Where nothing is edited either, an experiment is submitted, started and concluded,
\* and nothing else happens to it.
LEMMA QuietMoves ==
  ASSUME WriteInv, [Next]_vars, edits' = 0, deletes' = 0
  PROVE  /\ edits = 0 /\ deletes = 0
         /\ \A n \in Names : store'[n] = store[n] \/ Submitted(n) \/ Starts(n) \/ Concludes(n)
<1>1. edits \in Nat /\ deletes \in Nat
  BY DEF WriteInv, TypeInv, TypeOK
<1>2. CASE User
  BY <1>1, <1>2, UserMoves DEF Edited
<1>3. CASE Tick \/ Server \/ Crash
  BY <1>3, ServerMoves
<1>4. CASE UNCHANGED vars
  BY <1>4 DEF vars, api, env
<1>5. QED BY <1>2, <1>3, <1>4 DEF Next

-----------------------------------------------------------------------------
(* The server at rest.                                                     *)

\* The experiments that are started when a snapshot has been synced.
Active(s) == ExperimentsWithState(s, "Pending") \cup StartedExperiments(s)

\* The experiments that are pending in the snapshot are those the starter has to write.
PendingAreKnown ==
  \A n \in Names : snap[n] # NoExperiment /\ snap[n].state = "Pending" => n \in pending

\* Unless a snapshot waits, the last one emitted is the one under way or synced last:
\* the failure checker knows, and the mesh has, what it asks for, and the starter has
\* written what was pending in it or is going to end the process.
EmittedIsSynced ==
  /\ loop # "idle" => Active(snap) = Active(original)
  /\ loop = "idle" => StartedExperiments(previous) = Active(original)
  /\ loop \in {"starting", "translating"} => RoutingRules(snap) = RoutingRules(original)
  /\ loop \in {"checking", "idle"} /\ main = "ranging" =>
       original = EmptySnapshot \/ rules = RoutingRules(original)
  /\ deletes = 0 /\ main = "ranging" =>
       \A n \in ExperimentsWithState(original, "Pending") : n \in pending \/ failed \/ Begun(n)

RestInv ==
  /\ WriteInv
  /\ PendingAreKnown
  /\ loop # "starting" => failed = FALSE
  /\ snapshots # <<>> => original = Hash(Head(snapshots))
  /\ snapshots = <<>> => EmittedIsSynced

\* What the actions outside the event loop and the emitter leave alone.
LEMMA RestUndisturbed ==
  ASSUME RestInv, [Next]_vars, UNCHANGED <<original, snapshots, looping, main>>, UNCHANGED rules
  PROVE  RestInv'
<1>1. WriteInv'
  BY WriteNext DEF RestInv
<1>2. \A n \in Names : deletes' = 0 => deletes = 0 /\ (Begun(n) => Begun(n)')
  BY BegunStays DEF RestInv
<1>3. snapshots' = <<>> => EmittedIsSynced'
  <2>1. ASSUME snapshots = <<>>, deletes' = 0, main = "ranging",
               NEW n \in ExperimentsWithState(original, "Pending")
        PROVE  n \in pending \/ failed \/ Begun(n)'
    BY <1>2, <2>1 DEF RestInv, EmittedIsSynced, ExperimentsWithState
  <2>2. QED BY <2>1 DEF RestInv, EmittedIsSynced, looping, Active, StartedExperiments,
                        ExperimentsWithState, RoutingRules
<1>4. QED BY <1>1, <1>3 DEF RestInv, PendingAreKnown, looping

\* A process that starts again has emitted nothing and synced nothing.
LEMMA RestRestarts ==
  ASSUME RestInv, [Next]_vars, Restart
  PROVE  RestInv'
<1>1. WriteInv'
  BY WriteNext DEF RestInv
<1>2. \A n \in Names : EmptySnapshot[n] = NoExperiment
  BY DEF EmptySnapshot
<1>3. Active(EmptySnapshot) = {} /\ StartedExperiments(EmptySnapshot) = {}
      /\ ExperimentsWithState(EmptySnapshot, "Pending") = {}
  BY <1>2 DEF Active, StartedExperiments, ExperimentsWithState
<1>4. EmittedIsSynced'
  BY <1>3 DEF Restart, EmittedIsSynced, NoSnapshot, Active, StartedExperiments, ExperimentsWithState
<1>5. QED BY <1>1, <1>2, <1>4 DEF RestInv, PendingAreKnown, Restart

\* Every step keeps the invariant of the server at rest.
LEMMA RestNext == RestInv /\ [Next]_vars => RestInv'
<1> SUFFICES ASSUME RestInv, [Next]_vars PROVE RestInv'
  OBVIOUS
<1>0. /\ WriteInv /\ WriteInv'
      /\ store \in Snapshots /\ snap \in Snapshots /\ current \in Snapshots /\ Len(age) \in Nat
      /\ original \in Snapshots /\ pending \subseteq Names
      /\ PendingInSnapshot
  BY WriteNext, LenProperties DEF RestInv, WriteInv, TypeInv, TypeOK
<1>1. CASE User \/ Tick \/ Watch \/ MonitorStep
  <2>1. UNCHANGED <<original, snapshots, looping, main, rules>>
    <3>1. CASE User
      BY <1>0, <3>1, UserMoves DEF emitter
    <3>2. CASE Tick \/ Watch
      BY <3>2 DEF Tick, Watch, api, emitter
    <3>3. CASE MonitorStep
      BY <3>3 DEF MonitorStep, MonitorProgress, BeginWithoutSpec, BeginInvalid, BeginSelect,
         BeginCancelled, DurationElapses, ReadExperiment, WriteResult, ProduceReport,
         FailureConditionMet, Others, api, emitter
    <3>4. QED BY <1>1, <3>1, <3>2, <3>3
  <2>2. QED BY <2>1, RestUndisturbed
<1>2. CASE Emit
  BY <1>0, <1>2 DEF Emit, RestInv, PendingAreKnown, looping
<1>3. CASE Receive
  <2> DEFINE s == Head(snapshots)
  <2>1. /\ s \in Snapshots /\ snap' = s /\ original = Hash(s) /\ original' = original
        /\ loop = "idle" /\ snapshots' = <<>> /\ UNCHANGED <<failed, main, deletes>>
    BY <1>0, <1>3, HeadTailProperties DEF Receive, RestInv, WriteInv, TypeInv, TypeOK, env
  <2>2. /\ RoutingRules(s) = RoutingRules(original) /\ Active(s) = Active(original)
        /\ ExperimentsWithState(s, "Pending") = ExperimentsWithState(original, "Pending")
    BY <2>1, HashAlike DEF Active, StartedExperiments
  <2>3. pending' = ExperimentsWithState(s, "Pending") /\ loop' \in {"starting", "translating"}
    BY <1>0, <1>3, <2>1 DEF Receive, StarterShouldSync, PendingInSnapshot
  <2>4. failed' = FALSE
    BY <2>1 DEF RestInv
  <2> HIDE DEF s
  <2>5. EmittedIsSynced'
    BY <2>1, <2>2, <2>3 DEF EmittedIsSynced, Active, StartedExperiments, ExperimentsWithState, RoutingRules
  <2>6. PendingAreKnown'
    BY <2>1, <2>3 DEF PendingAreKnown, ExperimentsWithState
  <2>7. QED BY <1>0, <2>1, <2>4, <2>5, <2>6 DEF RestInv
<1>4. ASSUME NEW n \in Names, WriteAsStarted(n) PROVE RestInv'
  <2> DEFINE e == MarkStarted(snap[n], Len(age))
  <2>1. /\ n \in pending /\ snap[n] # NoExperiment /\ snap[n].state = "Pending"
        /\ snap[n] \in Experiment /\ loop = "starting" /\ loop' = "starting"
        /\ snap' = [snap EXCEPT ![n] = e] /\ pending' = pending \ {n}
        /\ UNCHANGED <<original, snapshots, previous, deletes, main, rules>>
    BY <1>0, <1>4 DEF WriteAsStarted, PendingInSnapshot, emitter, env, Snapshots
  <2>2. e # NoExperiment /\ e.state = "Started"
    BY <1>0, <2>1, MarkStartedKeeps
  <2>3. RoutingRules(snap') = RoutingRules(snap)
    BY <1>0, <2>1, StartingKeepsRules
  <2> HIDE DEF e
  <2>4. \A k \in Names : snap'[k] = IF k = n THEN e ELSE snap[k]
    BY <1>0, <2>1 DEF Snapshots
  <2>5. Active(snap') = Active(snap)
    BY <2>1, <2>2, <2>4 DEF Active, StartedExperiments, ExperimentsWithState
  <2>6. PendingAreKnown'
    BY <2>1, <2>2, <2>4 DEF RestInv, PendingAreKnown
  <2>7. deletes = 0 => /\ \A k \in Names : Begun(k) => Begun(k)'
                       /\ failed' \/ (Begun(n)' /\ UNCHANGED failed)
    BY <1>0, <1>4, <2>1, BegunStays, StarterMoves DEF Starts, Begun, Exists
  <2>8. snapshots = <<>> => EmittedIsSynced'
    <3> SUFFICES ASSUME snapshots = <<>> PROVE EmittedIsSynced'
      OBVIOUS
    <3>1. EmittedIsSynced
      BY DEF RestInv
    <3>2. ASSUME deletes = 0, main = "ranging", NEW k \in ExperimentsWithState(original, "Pending")
          PROVE  k \in pending' \/ failed' \/ Begun(k)'
      <4>1. k \in Names /\ (k \in pending \/ failed \/ Begun(k))
        BY <3>1, <3>2 DEF EmittedIsSynced, ExperimentsWithState
      <4>2. QED BY <2>1, <2>7, <3>2, <4>1
    <3>3. Active(original)' = Active(original) /\ Active(snap)' = Active(snap)
          /\ RoutingRules(snap)' = RoutingRules(snap) /\ RoutingRules(original)' = RoutingRules(original)
      BY <2>1, <2>3, <2>5 DEF Active, StartedExperiments, ExperimentsWithState, RoutingRules
    <3>4. QED BY <2>1, <3>1, <3>2, <3>3 DEF EmittedIsSynced, ExperimentsWithState
  <2>9. QED BY <1>0, <2>1, <2>6, <2>8 DEF RestInv
<1>5. CASE StarterReturns
  <2>1. /\ loop = "starting" /\ loop' = "translating" /\ failed' = FALSE /\ pending = {}
        /\ main' = (IF failed /\ main = "ranging" THEN "failed" ELSE main)
        /\ UNCHANGED <<original, snapshots, snap, pending, deletes, store>>
    BY <1>5 DEF StarterReturns, Propagate, env, emitter, api
  <2>2. snapshots = <<>> => EmittedIsSynced'
    BY <2>1 DEF RestInv, EmittedIsSynced, Begun, Exists, Active, StartedExperiments,
       ExperimentsWithState, RoutingRules
  <2>3. QED BY <1>0, <2>1, <2>2 DEF RestInv, PendingAreKnown
<1>6. CASE Translate
  <2>1. /\ loop = "translating" /\ loop' = "checking"
        /\ rules' = RoutingRules(snap) \/ main' # "ranging"
        /\ main' = "ranging" => main = "ranging"
        /\ UNCHANGED <<original, snapshots, snap, pending, failed, deletes, store>>
    BY <1>0, <1>6 DEF Translate, Propagate, env, emitter, WriteInv, TypeInv, TypeOK
  <2>2. snapshots = <<>> => EmittedIsSynced'
    BY <2>1 DEF RestInv, EmittedIsSynced, Begun, Exists, Active, StartedExperiments,
       ExperimentsWithState, RoutingRules
  <2>3. QED BY <1>0, <2>1, <2>2 DEF RestInv, PendingAreKnown
<1>7. CASE SkipChecker \/ SyncChecker
  <2>1. /\ loop = "checking" /\ loop' = "idle" /\ previous' = Remembered(snap)
        /\ snap' = EmptySnapshot
        /\ UNCHANGED <<original, snapshots, pending, failed, deletes, store, main, rules>>
    BY <1>7 DEF SkipChecker, SyncChecker, EndOfPass, env, emitter, api
  <2>2. ExperimentsWithState(snap, "Pending") = {}
    BY <1>0, <2>1 DEF RestInv, PendingAreKnown, PendingInSnapshot, ExperimentsWithState
  <2>3. StartedExperiments(previous') = Active(snap)
    BY <1>0, <2>1, <2>2, RememberedStarted DEF Active
  <2>4. snapshots = <<>> => EmittedIsSynced'
    BY <2>1, <2>3 DEF RestInv, EmittedIsSynced, Begun, Exists, Active, StartedExperiments,
       ExperimentsWithState, RoutingRules
  <2>5. PendingAreKnown'
    BY <2>1 DEF PendingAreKnown, EmptySnapshot
  <2>6. QED BY <1>0, <2>1, <2>4, <2>5 DEF RestInv
<1>8. CASE Panic \/ Exit \/ Crash
  BY <1>8, RestRestarts DEF Panic, Exit, Crash
<1>9. CASE UNCHANGED vars
  BY <1>9, RestUndisturbed DEF vars, emitter, api
<1>10. QED BY <1>1, <1>2, <1>3, <1>4, <1>5, <1>6, <1>7, <1>8, <1>9
           DEF Next, Server, EmitterStep, LoopStep

\* At first it has done nothing.
LEMMA RestInit == Init => RestInv
<1>1. \A n \in Names : EmptySnapshot[n] = NoExperiment
  BY DEF EmptySnapshot
<1>2. Init => PendingAreKnown /\ EmittedIsSynced
  BY <1>1 DEF Init, ProcessInit, PendingAreKnown, EmittedIsSynced, NoSnapshot, Active,
     StartedExperiments, ExperimentsWithState
<1>3. QED BY <1>2, WriteInit DEF Init, ProcessInit, RestInv

\* So it is an invariant.
LEMMA RestInvariant == Spec => []RestInv
BY RestInit, RestNext, PTL DEF Spec

\* A server at rest has put in the mesh the faults of the experiments in the API, and no
\* others, after whatever edits, deletions, failed passes and crashes.
THEOREM MeshIsRight == Spec => []RestIsRouted
<1>1. ASSUME RestInv, AtRest, store # EmptySnapshot
      PROVE  \A n \in Names :
               rules[n] = IF WantsFaults(store[n]) THEN store[n].spec.faults ELSE NoFaults
  <2>1. store \in Snapshots
    BY <1>1 DEF RestInv, WriteInv, TypeInv, TypeOK
  <2>2. PICK n \in Names : store[n] # NoExperiment
    BY <1>1, <2>1 DEF Snapshots, EmptySnapshot
  <2>3. original # EmptySnapshot
    BY <1>1, <2>1, <2>2, HashKeeps DEF AtRest, EmptySnapshot
  <2>4. rules = RoutingRules(store)
    BY <1>1, <2>1, <2>3, HashAlike DEF AtRest, RestInv, EmittedIsSynced
  <2>5. QED BY <2>4 DEF RoutingRules
<1>2. RestInv => RestIsRouted
  BY <1>1 DEF RestIsRouted
<1>3. QED BY <1>2, RestInvariant, PTL

\* A server at rest has started every experiment, and its failure checker knows all that
\* are started, unless something was deleted.
THEOREM NothingIsMissed == Spec => []RestMissesNothing
<1>1. ASSUME RestInv, AtRest, deletes = 0
      PROVE  /\ ExperimentsWithState(store, "Pending") = {}
             /\ StartedExperiments(previous) = StartedExperiments(store)
  <2>1. store \in Snapshots /\ PendingInSnapshot
    BY <1>1 DEF RestInv, WriteInv, TypeInv, TypeOK
  <2>2. /\ Active(original) = Active(store)
        /\ ExperimentsWithState(original, "Pending") = ExperimentsWithState(store, "Pending")
    BY <1>1, <2>1, HashAlike DEF AtRest, Active, StartedExperiments
  <2>3. pending = {} /\ failed = FALSE /\ EmittedIsSynced
    BY <1>1, <2>1 DEF AtRest, RestInv, PendingInSnapshot
  <2>4. ExperimentsWithState(store, "Pending") = {}
    BY <1>1, <2>2, <2>3 DEF AtRest, EmittedIsSynced, Begun, ExperimentsWithState
  <2>5. QED BY <1>1, <2>2, <2>3, <2>4 DEF AtRest, EmittedIsSynced, Active
<1>2. RestInv => RestMissesNothing
  BY <1>1 DEF RestMissesNothing
<1>3. QED BY <1>2, RestInvariant, PTL

-----------------------------------------------------------------------------
(* What becomes of the copies of an experiment.                            *)

\* The copy of the experiment n in the snapshot under way is taken from the emitter,
\* started, or dropped.
SnapMoves(n) ==
  \/ snap'[n] \in {snap[n], NoExperiment}
  \/ snapshots # <<>> /\ snap'[n] = Head(snapshots)[n]
  \/ /\ loop = "starting" /\ n \in pending /\ UNCHANGED age
     /\ snap'[n] = MarkStarted(snap[n], Len(age))
     /\ snap[n] = store[n] /\ ~HasDuplicateNames(snap[n].spec) => Starts(n)

\* What is remembered of n is kept, dropped, or taken from the snapshot synced.
PreviousMoves(n) ==
  \/ previous'[n] \in {previous[n], NoExperiment}
  \/ n \in StartedExperiments(snap) /\ previous'[n].spec = snap[n].spec

\* The copies of the event loop come from those there were.
LEMMA CopiesMove ==
  ASSUME WriteInv, [Next]_vars
  PROVE  \A n \in Names : SnapMoves(n) /\ PreviousMoves(n)
<1> DEFINE Goal == \A n \in Names : SnapMoves(n) /\ PreviousMoves(n)
<1> SUFFICES Goal
  OBVIOUS
<1>0. snap \in Snapshots /\ PendingInSnapshot
  BY DEF WriteInv, TypeInv, TypeOK
<1>1. CASE UNCHANGED <<snap, previous>>
  BY <1>1 DEF SnapMoves, PreviousMoves
<1>2. CASE Receive
  BY <1>2 DEF Receive, SnapMoves, PreviousMoves
<1>3. ASSUME NEW n \in Names, WriteAsStarted(n) PROVE Goal
  <2>1. /\ snap' = [snap EXCEPT ![n] = MarkStarted(snap[n], Len(age))]
        /\ loop = "starting" /\ n \in pending /\ UNCHANGED <<age, previous>>
    BY <1>3 DEF WriteAsStarted
  <2>2. snap[n] = store[n] /\ ~HasDuplicateNames(snap[n].spec) => Starts(n)
    BY <1>3, StarterMoves
  <2>3. QED BY <1>0, <2>1, <2>2 DEF SnapMoves, PreviousMoves, Snapshots
<1>4. CASE SkipChecker \/ SyncChecker
  <2>1. snap' = EmptySnapshot /\ previous' = Remembered(snap)
    BY <1>4 DEF SkipChecker, SyncChecker, EndOfPass
  <2>2. QED BY <1>0, <2>1, RememberedStarted, RememberedSpecs
            DEF SnapMoves, PreviousMoves, EmptySnapshot
<1>5. CASE Restart
  BY <1>5 DEF Restart, SnapMoves, PreviousMoves, EmptySnapshot, NoSnapshot
<1>6. CASE User
  BY <1>1, <1>6, UserMoves DEF looping
<1>7. CASE Tick \/ EmitterStep \/ StarterReturns \/ Translate \/ UNCHANGED vars
  BY <1>1, <1>7 DEF Tick, EmitterStep, Watch, Emit, StarterReturns, Translate, vars, looping
<1>8. CASE MonitorStep
  BY <1>1, <1>8 DEF MonitorStep, MonitorProgress, BeginWithoutSpec, BeginInvalid, BeginSelect,
     BeginCancelled, DurationElapses, ReadExperiment, WriteResult, ProduceReport,
     FailureConditionMet, Others, looping
<1>9. QED BY <1>2, <1>3, <1>4, <1>5, <1>6, <1>7, <1>8 DEF Next, Server, LoopStep, Panic, Exit, Crash

\* The monitor has the spec and the time it was given.
Waits(m) == m.pc \in {"starting", "selecting"}

\* m goes on where the monitor k was.
Continues(m, k) ==
  /\ m.name = k.name
  /\ \/ /\ m.outcome = k.outcome
        /\ Waits(m) => Waits(k) /\ m.spec = k.spec /\ m.started = k.started
     \/ /\ Waits(k) /\ ~Waits(m)
        /\ m.outcome = "Succeeded" => Elapsed(k)

\* m is a monitor of an experiment that is started in the snapshot.
Spawned(m) ==
  /\ m.name \in StartedExperiments(snap) /\ m.outcome = "None"
  /\ m.spec = snap[m.name].spec /\ m.started = snap[m.name].started

\* A monitor there is was there, or is new.
LEMMA MonitorsMove ==
  ASSUME WriteInv, [Next]_vars
  PROVE  \A m \in monitors' : Spawned(m) \/ \E k \in monitors : Continues(m, k)
<1> DEFINE Goal == \A m \in monitors' : Spawned(m) \/ \E k \in monitors : Continues(m, k)
<1> SUFFICES Goal
  OBVIOUS
<1>0. monitors \subseteq Monitor /\ \A m \in monitors : Continues(m, m)
  BY DEF WriteInv, TypeInv, TypeOK, Continues
<1>1. CASE monitors' \subseteq monitors
  BY <1>0, <1>1
<1>2. CASE SyncChecker
  <2>1. \A m \in NewMonitors : Spawned(m)
    BY DEF NewMonitors, Spawned
  <2>2. QED BY <1>0, <1>2, <2>1 DEF SyncChecker, Survivors
<1>3. ASSUME NEW m \in monitors, NEW next, Continues(next, m), monitors' \subseteq monitors \cup {next}
      PROVE  Goal
  BY <1>0, <1>3
<1>4. ASSUME NEW m \in monitors, NEW outcome, Decides(m, outcome), Waits(m),
             outcome = "Succeeded" => Elapsed(m)
      PROVE  Goal
  <2> DEFINE next == [m EXCEPT !.pc = "reading", !.outcome = outcome,
                               !.spec = NoSpec, !.started = NoTime]
  <2>1. next.name = m.name /\ next.pc = "reading" /\ next.outcome = outcome
    BY <1>0 DEF Monitor
  <2>2. monitors' \subseteq monitors \cup {next}
    BY <1>4 DEF Decides, Becomes
  <2> HIDE DEF next
  <2>3. QED BY <1>3, <1>4, <2>1, <2>2 DEF Continues, Waits
<1>5. ASSUME NEW m \in monitors,
             \/ BeginWithoutSpec(m) \/ BeginInvalid(m) \/ BeginSelect(m)
             \/ BeginCancelled(m) \/ DurationElapses(m) \/ ReadExperiment(m)
             \/ WriteResult(m) \/ ProduceReport(m) \/ FailureConditionMet(m)
      PROVE  Goal
  <2>1. CASE BeginWithoutSpec(m) \/ FailureConditionMet(m)
    BY <1>4, <2>1 DEF BeginWithoutSpec, FailureConditionMet, Waits
  <2>2. CASE BeginCancelled(m)
    <3>1. CASE Returns(m)
      BY <1>1, <3>1 DEF Returns
    <3>2. CASE Decides(m, "Failed") \/ (Elapsed(m) /\ Decides(m, "Succeeded"))
      BY <1>4, <2>2, <3>2 DEF BeginCancelled, Waits
    <3>3. QED BY <2>2, <3>1, <3>2 DEF BeginCancelled
  <2>3. CASE DurationElapses(m)
    BY <1>4, <2>3 DEF DurationElapses, Waits
  <2>4. CASE BeginInvalid(m) \/ ProduceReport(m)
    BY <1>1, <2>4 DEF BeginInvalid, ProduceReport, Returns
  <2>5. CASE BeginSelect(m)
    <3> DEFINE next == [m EXCEPT !.pc = "selecting"]
    <3>1. /\ next.name = m.name /\ next.outcome = m.outcome /\ next.spec = m.spec
          /\ next.started = m.started
      BY <1>0 DEF Monitor
    <3>2. monitors' \subseteq monitors \cup {next} /\ Waits(m)
      BY <2>5 DEF BeginSelect, Becomes, Waits
    <3> HIDE DEF next
    <3>3. QED BY <1>3, <3>1, <3>2 DEF Continues
  <2>6. CASE ReadExperiment(m) \/ WriteResult(m)
    <3> DEFINE read  == [m EXCEPT !.pc = "writing", !.got = store[m.name]]
               wrote == [m EXCEPT !.pc = "reporting"]
    <3>1. /\ read.name = m.name /\ read.outcome = m.outcome /\ read.pc = "writing"
          /\ wrote.name = m.name /\ wrote.outcome = m.outcome /\ wrote.pc = "reporting"
      BY <1>0 DEF Monitor
    <3>2. \/ monitors' \subseteq monitors
          \/ monitors' \subseteq monitors \cup {read} \/ monitors' \subseteq monitors \cup {wrote}
      BY <2>6 DEF ReadExperiment, WriteResult, Becomes, Returns
    <3> HIDE DEF read, wrote
    <3>3. QED BY <1>1, <1>3, <3>1, <3>2 DEF Continues, Waits
  <2>7. QED BY <1>5, <2>1, <2>2, <2>3, <2>4, <2>5, <2>6
<1>6. CASE User
  BY <1>1, <1>6, UserMoves
<1>7. CASE \/ Tick \/ EmitterStep \/ Receive \/ StarterReturns \/ Translate \/ SkipChecker
           \/ UNCHANGED vars \/ \E n \in Names : WriteAsStarted(n)
  BY <1>1, <1>7 DEF Tick, EmitterStep, Watch, Emit, Receive, StarterReturns, Translate,
     SkipChecker, WriteAsStarted, vars
<1>8. CASE Restart
  BY <1>8 DEF Restart
<1>9. QED BY <1>2, <1>5, <1>6, <1>7, <1>8
          DEF Next, Server, LoopStep, MonitorStep, MonitorProgress, Panic, Exit, Crash

-----------------------------------------------------------------------------
(* Specs.                                                                  *)

\* What the user wrote of the experiment n is in the copy c.
SameWork(c, n) ==
  c # NoExperiment => Exists(n) /\ UserPart(c.spec) = UserPart(store[n].spec)

\* The copies of the emitter, of the event loop and of the monitors have the specs of the
\* experiments in the API, as long as nobody edits or deletes.
WorkKept ==
  /\ \A n \in Names :
       /\ SameWork(current[n], n)
       /\ snapshots # <<>> => SameWork(Head(snapshots)[n], n)
       /\ SameWork(snap[n], n)
       /\ SameWork(previous[n], n)
  /\ \A m \in monitors :
       Waits(m) => Exists(m.name) /\ UserPart(m.spec) = UserPart(store[m.name].spec)

WorkInv == WriteInv /\ (edits = 0 /\ deletes = 0 => WorkKept)

\* SameWork in the state a step leads to, of a copy made before it.
StillSameWork(c, n) ==
  c # NoExperiment => store'[n] # NoExperiment /\ UserPart(c.spec) = UserPart(store'[n].spec)

\* A copy that has the spec keeps having it.
LEMMA SameWorkKept ==
  ASSUME WriteInv, [Next]_vars, edits' = 0, deletes' = 0, NEW n \in Names
  PROVE  \A c : SameWork(c, n) => StillSameWork(c, n)
<1>1. Exists(n) => store'[n] # NoExperiment /\ UserPart(store'[n].spec) = UserPart(store[n].spec)
  BY QuietMoves DEF Submitted, Starts, Concludes, Exists
<1>2. QED BY <1>1 DEF SameWork, StillSameWork, Exists

\* Every step keeps the invariant on specs.
LEMMA WorkNext == WorkInv /\ [Next]_vars => WorkInv'
<1> SUFFICES ASSUME WorkInv, [Next]_vars, edits' = 0, deletes' = 0 PROVE WorkKept'
  BY WriteNext DEF WorkInv
<1>1. WriteInv /\ WorkKept
  BY QuietMoves DEF WorkInv
<1>2. /\ snap \in Snapshots /\ Len(age) \in Nat /\ monitors' \subseteq Monitor
      /\ monitors \subseteq Monitor /\ PendingInSnapshot
  BY <1>1, WriteNext, LenProperties DEF WriteInv, TypeInv, TypeOK
<1>3. ASSUME NEW n \in Names
      PROVE  /\ SameWork(current[n], n)'
             /\ (snapshots # <<>> => SameWork(Head(snapshots)[n], n))'
             /\ SameWork(snap[n], n)'
             /\ SameWork(previous[n], n)'
  <2>1. \A c : SameWork(c, n) => StillSameWork(c, n)
    BY <1>1, SameWorkKept
  <2>2. StillSameWork(store'[n], n)
    BY DEF StillSameWork
  <2>3. /\ StillSameWork(current[n], n) /\ StillSameWork(snap[n], n) /\ StillSameWork(previous[n], n)
        /\ snapshots # <<>> => StillSameWork(Head(snapshots)[n], n)
    BY <1>1, <2>1 DEF WorkKept
  <2>4. StillSameWork(current'[n], n)
    BY <1>1, <2>2, <2>3, CopiesKept DEF StillSameWork
  <2>5. snapshots' # <<>> => StillSameWork(Head(snapshots')[n], n)
    BY <1>1, <2>3, CopiesKept
  <2>6. StillSameWork(snap'[n], n)
    <3>1. CASE n \in pending /\ snap'[n] = MarkStarted(snap[n], Len(age))
      <4>1. snap[n] \in Experiment /\ snap[n] # NoExperiment
        BY <1>2, <3>1 DEF PendingInSnapshot, Snapshots
      <4>2. UserPart(snap'[n].spec) = UserPart(snap[n].spec)
        BY <1>2, <3>1, <4>1, MarkStartedKeeps
      <4>3. QED BY <2>3, <4>1, <4>2 DEF StillSameWork
    <3>2. QED BY <1>1, <2>3, <3>1, CopiesMove DEF SnapMoves, StillSameWork
  <2>7. StillSameWork(previous'[n], n)
    <3>1. CASE n \in StartedExperiments(snap) /\ previous'[n].spec = snap[n].spec
      BY <2>3, <3>1 DEF StillSameWork, StartedExperiments, ExperimentsWithState
    <3>2. QED BY <1>1, <2>3, <3>1, CopiesMove DEF PreviousMoves, StillSameWork
  <2>8. QED BY <2>4, <2>5, <2>6, <2>7 DEF SameWork, StillSameWork, Exists
<1>4. ASSUME NEW m \in monitors', Waits(m)
      PROVE  store'[m.name] # NoExperiment /\ UserPart(m.spec) = UserPart(store'[m.name].spec)
  <2>1. m.name \in Names
    BY <1>2, <1>4 DEF Monitor
  <2>2. Exists(m.name) /\ UserPart(m.spec) = UserPart(store[m.name].spec)
    <3>1. CASE Spawned(m)
      BY <1>1, <3>1 DEF WorkKept, Spawned, SameWork, StartedExperiments, ExperimentsWithState
    <3>2. ASSUME NEW k \in monitors, Continues(m, k)
          PROVE  Exists(m.name) /\ UserPart(m.spec) = UserPart(store[m.name].spec)
      BY <1>1, <1>4, <3>2 DEF Continues, WorkKept
    <3>3. QED BY <1>1, <3>1, <3>2, MonitorsMove
  <2>3. StillSameWork(store[m.name], m.name)
    BY <1>1, <2>1, <2>2, SameWorkKept DEF SameWork
  <2>4. QED BY <2>2, <2>3 DEF StillSameWork, Exists
<1>5. QED BY <1>3, <1>4 DEF WorkKept, Exists

\* At first there are no copies.
LEMMA WorkInit == Init => WorkInv
BY WriteInit DEF Init, ProcessInit, WorkInv, WorkKept, SameWork, NoSnapshot, EmptySnapshot

\* So it is one.
LEMMA WorkInvariant == Spec => []WorkInv
BY WorkInit, WorkNext, PTL DEF Spec

\* As long as nobody edits or deletes the failure checker finds no spec gone that it has
\* seen before, in whatever snapshots, after whatever conflicts and crashes.
THEOREM PanicsAreOfUsers == Spec => []PanicsNeedUsers
<1>1. ASSUME WorkInv, edits = 0, deletes = 0, NEW n \in Compared(previous, snap)
      PROVE  ~DereferencesNil(previous[n], snap[n])
  <2>1. previous \in Snapshots /\ snap \in Snapshots /\ store \in Snapshots /\ WorkKept
    BY <1>1 DEF WorkInv, WriteInv, TypeInv, TypeOK
  <2>2. n \in Names /\ previous[n] # NoExperiment /\ snap[n] # NoExperiment
    BY <1>1 DEF Compared, StartedExperiments, ExperimentsWithState
  <2>3. /\ Exists(n) /\ UserPart(previous[n].spec) = UserPart(store[n].spec)
        /\ UserPart(snap[n].spec) = UserPart(store[n].spec)
    BY <2>1, <2>2 DEF WorkKept, SameWork
  <2>4. previous[n].spec \in ExperimentSpec \cup {NoSpec} /\ snap[n].spec \in ExperimentSpec \cup {NoSpec}
    BY <2>1, <2>2 DEF Snapshots, Experiment
  <2>5. QED BY <2>3, <2>4, SameUserPart DEF DereferencesNil
<1>2. WorkInv => PanicsNeedUsers
  BY <1>1 DEF PanicsNeedUsers, CheckerPanics
<1>3. QED BY <1>2, WorkInvariant, PTL

-----------------------------------------------------------------------------
(* Time.                                                                   *)

\* A later reading of the clock is not older, and the starter that runs has read it.
ClockInv ==
  /\ \A s, t \in 1 .. Len(age) : s <= t => age[s] >= age[t]
  /\ loop = "starting" => Len(age) > 0

\* Readings are kept, and grow older.
LEMMA ClockNext ==
  ASSUME WriteInv, ClockInv, [Next]_vars
  PROVE  /\ ClockInv'
         /\ Len(age) \in Nat /\ Len(age') \in Nat /\ Len(age) <= Len(age')
         /\ \A t \in 1 .. Len(age) : age[t] \in Nat /\ age'[t] \in Nat /\ age'[t] >= age[t]
<1> DEFINE Goal == /\ ClockInv'
                   /\ Len(age) \in Nat /\ Len(age') \in Nat /\ Len(age) <= Len(age')
                   /\ \A t \in 1 .. Len(age) : age[t] \in Nat /\ age'[t] \in Nat /\ age'[t] >= age[t]
<1> SUFFICES Goal
  OBVIOUS
<1>0. /\ age \in Seq(0 .. MaxAge) /\ Len(age) \in Nat /\ DOMAIN age = 1 .. Len(age)
      /\ \A t \in 1 .. Len(age) : age[t] \in 0 .. MaxAge
  BY LenProperties, ElementOfSeq DEF WriteInv, TypeInv, TypeOK
<1>1. CASE UNCHANGED age /\ (loop' = "starting" => loop = "starting")
  BY <1>0, <1>1, AgesAssumption DEF ClockInv
<1>2. CASE Tick
  <2>1. /\ age' = [t \in 1 .. Len(age) |-> IF age[t] < MaxAge THEN age[t] + 1 ELSE MaxAge]
        /\ UNCHANGED loop
    BY <1>0, <1>2 DEF Tick, looping
  <2>2. Len(age') = Len(age)
    BY <1>0, <2>1
  <2>3. \A t \in 1 .. Len(age) : age'[t] = IF age[t] < MaxAge THEN age[t] + 1 ELSE MaxAge
    BY <2>1
  <2>4. QED BY <1>0, <2>1, <2>2, <2>3, AgesAssumption DEF ClockInv
<1>3. CASE age' = Append(age, 0)
  <2>1. /\ Len(age') = Len(age) + 1 /\ age'[Len(age) + 1] = 0
        /\ \A t \in 1 .. Len(age) : age'[t] = age[t]
    BY <1>0, <1>3
  <2>2. \A t \in 1 .. Len(age') : t \in 1 .. Len(age) \/ t = Len(age) + 1
    BY <1>0, <2>1
  <2>3. ASSUME NEW s \in 1 .. Len(age'), NEW t \in 1 .. Len(age'), s <= t
        PROVE  age'[s] >= age'[t]
    <3>1. CASE t = Len(age) + 1
      BY <1>0, <2>1, <2>2, <3>1, AgesAssumption
    <3>2. CASE t \in 1 .. Len(age)
      BY <1>0, <2>1, <2>3, <3>2 DEF ClockInv
    <3>3. QED BY <2>2, <3>1, <3>2
  <2>4. QED BY <1>0, <2>1, <2>3, AgesAssumption DEF ClockInv
<1>4. CASE LoopStep
  <2>1. CASE Receive
    BY <1>1, <1>3, <2>1 DEF Receive
  <2>2. CASE \/ StarterReturns \/ Translate \/ SkipChecker \/ SyncChecker \/ Panic
             \/ \E n \in Names : WriteAsStarted(n)
    BY <1>1, <2>2 DEF StarterReturns, Translate, SkipChecker, SyncChecker, EndOfPass, Panic, Restart,
       WriteAsStarted
  <2>3. QED BY <1>4, <2>1, <2>2 DEF LoopStep
<1>5. CASE User
  BY <1>1, <1>5, UserMoves DEF looping
<1>6. CASE EmitterStep \/ Exit \/ Crash \/ UNCHANGED vars
  BY <1>1, <1>6 DEF EmitterStep, Watch, Emit, Exit, Crash, Restart, vars, looping
<1>7. CASE MonitorStep
  BY <1>1, <1>7 DEF MonitorStep, MonitorProgress, BeginWithoutSpec, BeginInvalid, BeginSelect,
     BeginCancelled, DurationElapses, ReadExperiment, WriteResult, ProduceReport,
     FailureConditionMet, Others, looping
<1>8. QED BY <1>2, <1>4, <1>5, <1>6, <1>7 DEF Next, Server

\* A duration is a number.
LEMMA DurationType ==
  ASSUME NEW spec \in ExperimentSpec
  PROVE  Duration(spec) \in Nat
BY AgesAssumption DEF Duration, ExperimentSpec

-----------------------------------------------------------------------------
(* Experiments that nobody disturbs.                                       *)

\* The experiment n was started at the reading t of the clock or before.
StartedBy(t, n) ==
  /\ Begun(n)
  /\ t \in 1 .. Len(age) /\ store[n].started \in 1 .. Len(age) /\ store[n].started <= t

\* The duration of the experiment n is over, counted from the start the API shows.
Lasted(n) == store[n].spec # NoSpec => age[store[n].started] >= Duration(store[n].spec)

\* c is the pending experiment n as it is, or was before it was started, or the started
\* one: perhaps with a later time than in the API, by a starter whose write was refused.
CopyOf(c, n) ==
  c # NoExperiment =>
    /\ c.state = "Pending" => c = store[n] \/ Begun(n)
    /\ c.state # "Pending" => StartedBy(c.started, n)

Quiet ==
  /\ \A n \in Names :
       /\ CopyOf(store[n], n) /\ CopyOf(current[n], n) /\ CopyOf(snap[n], n)
       /\ snapshots # <<>> => CopyOf(Head(snapshots)[n], n)
       /\ previous[n] # NoExperiment => Begun(n)
       /\ Exists(n) /\ store[n].state = "Succeeded" => Lasted(n)
  /\ \A m \in monitors :
       /\ Begun(m.name)
       /\ Waits(m) => StartedBy(m.started, m.name)
       /\ m.outcome = "Succeeded" => Lasted(m.name)

QuietInv == RestInv /\ WorkInv /\ ClockInv /\ (Undisturbed => Quiet)

\* Experiments that are undisturbed have always been.
LEMMA UndisturbedBefore ==
  ASSUME WriteInv, [Next]_vars, Undisturbed'
  PROVE  /\ Undisturbed
         /\ \A n \in Names : Exists(n) =>
              /\ store'[n] # NoExperiment
              /\ store'[n].spec = NoSpec <=> store[n].spec = NoSpec
              /\ store[n].spec # NoSpec => /\ store'[n].spec.conditions = store[n].spec.conditions
                                           /\ Duration(store'[n].spec) = Duration(store[n].spec)
<1>1. edits' = 0 /\ deletes' = 0 /\ \A n \in Names : Exists(n)' => ~HasDuplicateNames(store'[n].spec)
  BY DEF Undisturbed
<1>2. edits = 0 /\ deletes = 0
  BY <1>1, QuietMoves
<1>3. ASSUME NEW n \in Names, Exists(n)
      PROVE  /\ store'[n] # NoExperiment
             /\ store'[n].spec = NoSpec <=> store[n].spec = NoSpec
             /\ store[n].spec # NoSpec => /\ store'[n].spec.conditions = store[n].spec.conditions
                                          /\ store'[n].spec.duration = store[n].spec.duration
  <2>1. SameWork(store[n], n)
    BY DEF SameWork, Exists
  <2>2. StillSameWork(store[n], n)
    BY <1>1, <2>1, SameWorkKept
  <2>3. store'[n] # NoExperiment /\ UserPart(store[n].spec) = UserPart(store'[n].spec)
    BY <1>3, <2>2 DEF StillSameWork, Exists
  <2>4. store[n] \in Experiment /\ store'[n] \in Experiment
    BY <1>3, <2>3, WriteNext DEF WriteInv, TypeInv, TypeOK, Snapshots, Exists
  <2>5. store[n].spec \in ExperimentSpec \cup {NoSpec} /\ store'[n].spec \in ExperimentSpec \cup {NoSpec}
    BY <2>4 DEF Experiment
  <2>6. QED BY <2>3, <2>5, SameUserPart
<1>4. Undisturbed
  BY <1>1, <1>2, <1>3 DEF Undisturbed, HasDuplicateNames, Exists
<1>5. QED BY <1>3, <1>4 DEF Duration

\* Begun, StartedBy, Lasted and CopyOf in the state a step leads to.
StillBegun(n) == store'[n] # NoExperiment /\ store'[n].state # "Pending"

StillStartedBy(t, n) ==
  /\ StillBegun(n)
  /\ t \in 1 .. Len(age') /\ store'[n].started \in 1 .. Len(age') /\ store'[n].started <= t

StillLasted(n) == store'[n].spec # NoSpec => age'[store'[n].started] >= Duration(store'[n].spec)

StillCopyOf(c, n) ==
  c # NoExperiment =>
    /\ c.state = "Pending" => c = store'[n] \/ StillBegun(n)
    /\ c.state # "Pending" => StillStartedBy(c.started, n)

\* Where nobody disturbs it an experiment that was started stays so, since the same time,
\* and what copies there are of it stay copies.
LEMMA QuietKept ==
  ASSUME QuietInv, [Next]_vars, Undisturbed', NEW n \in Names
  PROVE  /\ Begun(n) => StillBegun(n) /\ store'[n].started = store[n].started
         /\ \A t : StartedBy(t, n) => StillStartedBy(t, n)
         /\ Begun(n) /\ Lasted(n) => StillLasted(n)
         /\ \A c : CopyOf(c, n) => StillCopyOf(c, n)
         /\ StillCopyOf(store'[n], n)
         /\ store'[n] # NoExperiment /\ store'[n].state = "Succeeded" => StillLasted(n)
<1>0. /\ WriteInv /\ Undisturbed /\ Quiet
      /\ \A m \in monitors : m.name = n => Begun(n) /\ (m.outcome = "Succeeded" => Lasted(n))
  BY UndisturbedBefore DEF QuietInv, RestInv, Quiet
<1>1. store'[n] = store[n] \/ Submitted(n) \/ Starts(n) \/ Concludes(n)
  BY <1>0, QuietMoves DEF Undisturbed
<1>2. /\ Len(age) \in Nat /\ Len(age') \in Nat /\ Len(age) <= Len(age')
      /\ \A t \in 1 .. Len(age) : age[t] \in Nat /\ age'[t] \in Nat /\ age'[t] >= age[t]
      /\ loop = "starting" => Len(age) > 0
  BY <1>0, ClockNext DEF QuietInv, ClockInv
<1>3. Begun(n) => StillBegun(n) /\ store'[n].started = store[n].started
  BY <1>1 DEF Begun, StillBegun, Exists, Submitted, Starts, Concludes
<1>4. \A t : StartedBy(t, n) => StillStartedBy(t, n)
  BY <1>2, <1>3 DEF StartedBy, StillStartedBy
<1>5. CopyOf(store[n], n) /\ (Begun(n) => StartedBy(store[n].started, n))
  BY <1>0 DEF Quiet, CopyOf, Begun, Exists
<1>6. ASSUME Begun(n), Lasted(n) PROVE StillLasted(n)
  <2> SUFFICES ASSUME store'[n].spec # NoSpec
               PROVE  age'[store'[n].started] >= Duration(store'[n].spec)
    BY DEF StillLasted
  <2>1. /\ store[n].spec # NoSpec /\ Duration(store'[n].spec) = Duration(store[n].spec)
        /\ store[n] \in Experiment
    BY <1>0, <1>6, UndisturbedBefore DEF Begun, Exists, WriteInv, TypeInv, TypeOK, Snapshots
  <2>2. Duration(store[n].spec) \in Nat
    BY <2>1, DurationType DEF Experiment
  <2>3. /\ age[store[n].started] >= Duration(store[n].spec) /\ store[n].started \in 1 .. Len(age)
        /\ store'[n].started = store[n].started
    BY <1>3, <1>5, <1>6, <2>1 DEF Lasted, StartedBy
  <2>4. QED BY <1>2, <2>1, <2>2, <2>3
<1>7. \A c : CopyOf(c, n) => StillCopyOf(c, n)
  <2> SUFFICES ASSUME NEW c, CopyOf(c, n), c # NoExperiment
               PROVE  /\ c.state = "Pending" => c = store'[n] \/ StillBegun(n)
                      /\ c.state # "Pending" => StillStartedBy(c.started, n)
    BY DEF StillCopyOf
  <2>1. c.state # "Pending" => StillStartedBy(c.started, n)
    BY <1>4 DEF CopyOf
  <2>2. ASSUME c.state = "Pending" PROVE c = store'[n] \/ StillBegun(n)
    <3>1. CASE Begun(n)
      BY <1>3, <3>1
    <3>2. CASE ~Begun(n) /\ c = store[n]
      BY <1>0, <1>1, <3>2 DEF Submitted, Starts, Concludes, Exists, StillBegun
    <3>3. QED BY <2>2, <3>1, <3>2 DEF CopyOf
  <2>3. QED BY <2>1, <2>2
<1>8. StillCopyOf(store'[n], n)
  <2>1. CASE store'[n] = store[n]
    BY <1>5, <1>7, <2>1
  <2>2. CASE Submitted(n)
    BY <2>2 DEF Submitted, StillCopyOf
  <2>3. CASE Starts(n)
    BY <1>2, <2>3 DEF Starts, StillCopyOf, StillStartedBy, StillBegun
  <2>4. CASE Concludes(n)
    <3>1. Begun(n) /\ store'[n].state # "Pending"
      BY <1>0, <2>4 DEF Concludes
    <3>2. StillStartedBy(store'[n].started, n)
      BY <1>3, <1>4, <1>5, <3>1
    <3>3. QED BY <3>1, <3>2 DEF StillCopyOf
  <2>5. QED BY <1>1, <2>1, <2>2, <2>3, <2>4
<1>9. ASSUME store'[n] # NoExperiment, store'[n].state = "Succeeded" PROVE StillLasted(n)
  <2>1. CASE store'[n] = store[n]
    BY <1>0, <1>6, <1>9, <2>1 DEF Quiet, Begun, Exists
  <2>2. CASE Concludes(n)
    BY <1>0, <1>6, <1>9, <2>2 DEF Concludes
  <2>3. QED BY <1>1, <1>9, <2>1, <2>2 DEF Submitted, Starts
<1>10. QED BY <1>3, <1>4, <1>6, <1>7, <1>8, <1>9

\* The starter starts its copy in the snapshot under way, written or not.
LEMMA QuietSnap ==
  ASSUME QuietInv, [Next]_vars, Undisturbed', NEW n \in Names
  PROVE  StillCopyOf(snap'[n], n)
<1>1. /\ WriteInv /\ Undisturbed /\ Quiet /\ PendingInSnapshot
      /\ snap \in [Names -> Experiment \cup {NoExperiment}]
  BY UndisturbedBefore DEF QuietInv, RestInv, WriteInv, TypeInv, TypeOK, Snapshots
<1>2. /\ \A t : StartedBy(t, n) => StillStartedBy(t, n)
      /\ \A c : CopyOf(c, n) => StillCopyOf(c, n)
  BY QuietKept
<1>3. CASE snap'[n] \in {snap[n], NoExperiment}
  BY <1>1, <1>2, <1>3 DEF Quiet, StillCopyOf
<1>4. CASE snapshots # <<>> /\ snap'[n] = Head(snapshots)[n]
  BY <1>1, <1>2, <1>4 DEF Quiet
<1>5. CASE /\ loop = "starting" /\ n \in pending /\ UNCHANGED age
           /\ snap'[n] = MarkStarted(snap[n], Len(age))
           /\ snap[n] = store[n] /\ ~HasDuplicateNames(snap[n].spec) => Starts(n)
  <2>1. snap[n] \in Experiment /\ snap[n] # NoExperiment /\ snap[n].state = "Pending"
    BY <1>1, <1>5 DEF PendingInSnapshot
  <2>2. Len(age) \in Nat /\ Len(age) > 0
    BY <1>1, <1>5, ClockNext DEF QuietInv, ClockInv
  <2>3. snap'[n].state = "Started" /\ snap'[n].started = Len(age)
    BY <1>5, <2>1, <2>2, MarkStartedKeeps
  <2>4. CASE Begun(n)
    <3>1. CopyOf(store[n], n) /\ store[n] # NoExperiment /\ store[n].state # "Pending"
      BY <1>1, <2>4 DEF Quiet, Begun, Exists
    <3>2. StartedBy(Len(age), n)
      BY <2>2, <3>1 DEF CopyOf, StartedBy
    <3>3. QED BY <1>2, <2>3, <3>2 DEF StillCopyOf
  <2>5. CASE ~Begun(n)
    <3>1. snap[n] = store[n] /\ Exists(n)
      BY <1>1, <2>1, <2>5 DEF Quiet, CopyOf, Exists
    <3>2. Starts(n)
      BY <1>1, <1>5, <3>1 DEF Undisturbed
    <3>3. QED BY <1>5, <2>2, <2>3, <3>2 DEF Starts, StillCopyOf, StillStartedBy, StillBegun
  <2>6. QED BY <2>4, <2>5
<1>6. QED BY <1>1, <1>3, <1>4, <1>5, CopiesMove DEF SnapMoves

\* A monitor that is told that the time is over is told right.
LEMMA ElapsedLasted ==
  ASSUME QuietInv, Undisturbed, NEW m \in monitors, Waits(m), Elapsed(m)
  PROVE  Lasted(m.name)
<1> DEFINE n == m.name
<1> SUFFICES ASSUME store[n].spec # NoSpec
             PROVE  age[store[n].started] >= Duration(store[n].spec)
  BY DEF Lasted
<1>1. WriteInv /\ ClockInv /\ Quiet /\ WorkKept
  BY DEF QuietInv, WorkInv, Undisturbed
<1>2. /\ m \in Monitor /\ n \in Names /\ store \in Snapshots /\ age \in Seq(0 .. MaxAge)
  BY <1>1 DEF WriteInv, TypeInv, TypeOK, Monitor
<1>3. StartedBy(m.started, n) /\ UserPart(m.spec) = UserPart(store[n].spec)
  BY <1>1 DEF Quiet, WorkKept
<1>4. store[n].spec \in ExperimentSpec /\ m.spec \in ExperimentSpec \cup {NoSpec}
  BY <1>2, <1>3 DEF StartedBy, Begun, Exists, Snapshots, Experiment, Monitor
<1>5. m.spec # NoSpec /\ m.spec.duration = store[n].spec.duration
  BY <1>3, <1>4, SameUserPart
<1>6. Duration(m.spec) = Duration(store[n].spec) /\ Duration(store[n].spec) \in Nat
  BY <1>4, <1>5, DurationType DEF Duration
<1>7. age[m.started] >= Duration(m.spec)
  BY DEF Elapsed
<1>8. age[store[n].started] >= age[m.started]
  BY <1>1, <1>3 DEF StartedBy, ClockInv
<1>9. age[store[n].started] \in Nat /\ age[m.started] \in Nat
  BY <1>2, <1>3, ElementOfSeq, AgesAssumption DEF StartedBy
<1>10. QED BY <1>6, <1>7, <1>8, <1>9

\* Every step keeps the invariant of experiments that nobody disturbs.
LEMMA QuietNext == QuietInv /\ [Next]_vars => QuietInv'
<1> SUFFICES ASSUME QuietInv, [Next]_vars PROVE QuietInv'
  OBVIOUS
<1>1. RestInv' /\ WorkInv' /\ ClockInv'
  BY RestNext, WorkNext, ClockNext DEF QuietInv, RestInv
<1> SUFFICES ASSUME Undisturbed' PROVE Quiet'
  BY <1>1 DEF QuietInv
<1>2. WriteInv /\ WriteInv' /\ Undisturbed /\ Quiet
  BY <1>1, UndisturbedBefore DEF QuietInv, RestInv
<1>3. monitors \subseteq Monitor /\ monitors' \subseteq Monitor
  BY <1>2 DEF WriteInv, TypeInv, TypeOK
<1>4. ASSUME NEW n \in Names
      PROVE  /\ StillCopyOf(store'[n], n) /\ StillCopyOf(current'[n], n) /\ StillCopyOf(snap'[n], n)
             /\ snapshots' # <<>> => StillCopyOf(Head(snapshots')[n], n)
             /\ previous'[n] # NoExperiment => StillBegun(n)
             /\ store'[n] # NoExperiment /\ store'[n].state = "Succeeded" => StillLasted(n)
  <2>1. /\ Begun(n) => StillBegun(n)
        /\ \A c : CopyOf(c, n) => StillCopyOf(c, n)
        /\ StillCopyOf(store'[n], n)
        /\ store'[n] # NoExperiment /\ store'[n].state = "Succeeded" => StillLasted(n)
    BY QuietKept
  <2>2. /\ CopyOf(current[n], n) /\ CopyOf(snap[n], n)
        /\ snapshots # <<>> => CopyOf(Head(snapshots)[n], n)
        /\ previous[n] # NoExperiment => Begun(n)
    BY <1>2 DEF Quiet
  <2>3. StillCopyOf(current'[n], n)
    BY <1>2, <2>1, <2>2, CopiesKept DEF StillCopyOf
  <2>4. snapshots' # <<>> => StillCopyOf(Head(snapshots')[n], n)
    BY <1>2, <2>1, <2>2, CopiesKept
  <2>5. previous'[n] # NoExperiment => StillBegun(n)
    <3>1. n \in StartedExperiments(snap) => Begun(n)
      BY <2>2 DEF StartedExperiments, ExperimentsWithState, CopyOf, StartedBy
    <3>2. QED BY <1>2, <2>1, <2>2, <3>1, CopiesMove DEF PreviousMoves
  <2>6. QED BY <2>1, <2>3, <2>4, <2>5, QuietSnap
<1>5. ASSUME NEW m \in monitors'
      PROVE  /\ StillBegun(m.name)
             /\ Waits(m) => StillStartedBy(m.started, m.name)
             /\ m.outcome = "Succeeded" => StillLasted(m.name)
  <2>1. m.name \in Names
    BY <1>3 DEF Monitor
  <2>2. /\ Begun(m.name)
        /\ Waits(m) => StartedBy(m.started, m.name)
        /\ m.outcome = "Succeeded" => Lasted(m.name)
    <3>1. CASE Spawned(m)
      <4>1. CopyOf(snap[m.name], m.name) /\ m.started = snap[m.name].started
            /\ snap[m.name] # NoExperiment /\ snap[m.name].state = "Started"
        BY <1>2, <2>1, <3>1 DEF Quiet, Spawned, StartedExperiments, ExperimentsWithState
      <4>2. QED BY <3>1, <4>1 DEF CopyOf, StartedBy, Spawned
    <3>2. ASSUME NEW k \in monitors, Continues(m, k)
          PROVE  /\ Begun(m.name)
                 /\ Waits(m) => StartedBy(m.started, m.name)
                 /\ m.outcome = "Succeeded" => Lasted(m.name)
      <4>1. /\ Begun(k.name)
            /\ Waits(k) => StartedBy(k.started, k.name)
            /\ k.outcome = "Succeeded" => Lasted(k.name)
        BY <1>2 DEF Quiet
      <4>2. Waits(k) /\ Elapsed(k) => Lasted(k.name)
        BY <1>2, ElapsedLasted
      <4>3. QED BY <3>2, <4>1, <4>2 DEF Continues
    <3>3. QED BY <1>2, <3>1, <3>2, MonitorsMove
  <2>3. QED BY <2>1, <2>2, QuietKept
<1>6. QED BY <1>4, <1>5 DEF Quiet, StillCopyOf, StillStartedBy, StillBegun, StillLasted, CopyOf,
                            StartedBy, Begun, Lasted, Exists

\* At first there is nothing to disturb.
LEMMA QuietInit == Init => QuietInv
<1>1. \A n \in Names : EmptySnapshot[n] = NoExperiment
  BY DEF EmptySnapshot
<1>2. Init => Quiet /\ ClockInv
  BY <1>1 DEF Init, ProcessInit, Quiet, ClockInv, CopyOf, Exists, NoSnapshot
<1>3. QED BY <1>2, RestInit, WorkInit DEF QuietInv

\* So it is one.
LEMMA QuietInvariant == Spec => []QuietInv
BY QuietInit, QuietNext, PTL DEF Spec

\* An experiment with a timeout that nobody disturbs succeeds only after its whole duration,
\* counted from the start the API shows: a starter that works on an old list, several
\* monitors of it and the restarts of the pod never cut it short.
THEOREM SuccessTakesItsTime == Spec => [](Undisturbed => SucceededAfterDuration)
<1>1. ASSUME QuietInv, Undisturbed, NEW n \in Names, Exists(n), store[n].state = "Succeeded",
             HasTimeout(store[n].spec)
      PROVE  store[n].started # NoTime /\ age[store[n].started] >= store[n].spec.duration
  <2>1. CopyOf(store[n], n) /\ Lasted(n)
    BY <1>1 DEF QuietInv, Quiet
  <2>2. store[n].started \in 1 .. Len(age)
    BY <1>1, <2>1 DEF CopyOf, StartedBy, Exists
  <2>3. QED BY <1>1, <2>1, <2>2 DEF Lasted, HasTimeout, Duration, NoTime
<1>2. QuietInv => (Undisturbed => SucceededAfterDuration)
  BY <1>1 DEF SucceededAfterDuration
<1>3. QED BY <1>2, QuietInvariant, PTL

-----------------------------------------------------------------------------
(* Attendance.                                                             *)

\* No experiment has a query that the failure checker cannot make.
Queryable ==
  \A n \in Names : Exists(n) /\ store[n].spec # NoSpec => store[n].spec.conditions \notin Unqueryable

\* m will conclude the experiment n, or see that it has been concluded.
Attends(m, n) ==
  /\ m.name = n
  /\ InForce(m) \/ m.pc = "reading" \/ (m.pc = "writing" /\ m.got = store[n])

Attended(n) == Concluded(store[n]) \/ \E m \in monitors : Attends(m, n)

AttendedInv ==
  QuietInv /\ (Undisturbed /\ Queryable => \A n \in StartedExperiments(previous) : Attended(n))

\* What is there to be queried was there before.
LEMMA QueryableBefore ==
  ASSUME WriteInv, [Next]_vars, Undisturbed', Queryable'
  PROVE  Undisturbed /\ Queryable
<1>1. Undisturbed
  BY UndisturbedBefore
<1>2. \A n \in Names : store'[n] # NoExperiment /\ store'[n].spec # NoSpec =>
                         store'[n].spec.conditions \notin Unqueryable
  BY DEF Queryable, Exists
<1>3. QED BY <1>1, <1>2, UndisturbedBefore DEF Queryable

\* Attended in the state a step leads to.
StillAttended(n) ==
  \/ Concluded(store'[n])
  \/ \E m \in monitors' :
       /\ m.name = n
       /\ \/ m.generation = generation' /\ m.pc \in {"starting", "selecting"}
          \/ m.pc = "reading" \/ (m.pc = "writing" /\ m.got = store'[n])

\* What a monitor does, whichever of the experiment it is, leaves the experiment attended.
LEMMA MonitorsAttend ==
  ASSUME QuietInv, Undisturbed, Queryable, [Next]_vars, Undisturbed',
         NEW m \in monitors,
         \/ BeginWithoutSpec(m) \/ BeginInvalid(m) \/ BeginSelect(m)
         \/ BeginCancelled(m) \/ DurationElapses(m) \/ ReadExperiment(m)
         \/ WriteResult(m) \/ ProduceReport(m) \/ FailureConditionMet(m),
         NEW n \in Names, Begun(n), Attended(n)
  PROVE  StillAttended(n)
<1>1. /\ WriteInv /\ Quiet /\ WorkKept
      /\ m \in Monitor /\ UNCHANGED generation
  BY DEF QuietInv, RestInv, WorkInv, Undisturbed, WriteInv, TypeInv, TypeOK, BeginWithoutSpec,
     BeginInvalid, BeginSelect, BeginCancelled, DurationElapses, ReadExperiment, WriteResult,
     ProduceReport, FailureConditionMet, Others, looping
<1>2. store'[n] = store[n] \/ Concluded(store'[n])
  <2>1. store'[n] = store[n] \/ Submitted(n) \/ Starts(n) \/ Concludes(n)
    BY <1>1, QuietMoves DEF Undisturbed
  <2>2. QED BY <2>1 DEF Submitted, Starts, Concludes, Concluded, Begun
<1> SUFFICES ASSUME UNCHANGED store[n], ~Concluded(store[n]) PROVE StillAttended(n)
  BY <1>2 DEF StillAttended
<1>3. PICK k \in monitors : Attends(k, n)
  BY DEF Attended
<1>4. CASE k \in monitors'
  BY <1>1, <1>3, <1>4 DEF StillAttended, Attends, InForce
<1>5. CASE k = m
  <2>1. m.name = n
    BY <1>3, <1>5 DEF Attends
  <2>2. ASSUME NEW outcome, Decides(m, outcome) PROVE StillAttended(n)
    <3> DEFINE next == [m EXCEPT !.pc = "reading", !.outcome = outcome,
                                 !.spec = NoSpec, !.started = NoTime]
    <3>1. next.name = m.name /\ next.pc = "reading"
      BY <1>1 DEF Monitor
    <3>2. next \in monitors'
      BY <2>2 DEF Decides, Becomes
    <3> HIDE DEF next
    <3>3. QED BY <2>1, <3>1, <3>2 DEF StillAttended
  <2>3. CASE \/ BeginWithoutSpec(m) \/ DurationElapses(m) \/ FailureConditionMet(m)
    BY <2>2, <2>3 DEF BeginWithoutSpec, DurationElapses, FailureConditionMet
  <2>4. CASE BeginInvalid(m)
    <3>1. /\ StartedBy(m.started, n) /\ UserPart(m.spec) = UserPart(store[n].spec)
          /\ m.spec # NoSpec
      BY <1>1, <2>1, <2>4 DEF Quiet, WorkKept, Waits, BeginInvalid
    <3>2. store[n] \in Experiment /\ m.spec \in ExperimentSpec \cup {NoSpec}
      BY <1>1 DEF Begun, Exists, WriteInv, TypeInv, TypeOK, Snapshots, Monitor
    <3>3. store[n].spec # NoSpec /\ m.spec.conditions = store[n].spec.conditions
      BY <3>1, <3>2, SameUserPart DEF Experiment
    <3>4. m.spec.conditions \notin Unqueryable
      BY <3>3 DEF Queryable, Begun
    <3>5. m.started # NoTime
      BY <3>1 DEF StartedBy, NoTime
    <3>6. QED BY <2>4, <3>4, <3>5 DEF BeginInvalid, Monitorable, PanicsMonitor
  <2>5. CASE BeginSelect(m)
    <3> DEFINE next == [m EXCEPT !.pc = "selecting"]
    <3>1. next.name = m.name /\ next.pc = "selecting" /\ next.generation = m.generation
      BY <1>1 DEF Monitor
    <3>2. next \in monitors' /\ m.generation = generation
      BY <2>5 DEF BeginSelect, Becomes
    <3> HIDE DEF next
    <3>3. QED BY <1>1, <2>1, <3>1, <3>2 DEF StillAttended
  <2>6. CASE BeginCancelled(m)
    BY <1>3, <1>5, <2>6 DEF BeginCancelled, Attends, InForce
  <2>7. CASE ReadExperiment(m)
    <3> DEFINE next == [m EXCEPT !.pc = "writing", !.got = store[m.name]]
    <3>1. next.name = m.name /\ next.pc = "writing" /\ next.got = store[m.name]
      BY <1>1 DEF Monitor
    <3>2. next \in monitors'
      BY <2>1, <2>7 DEF ReadExperiment, Becomes, Begun, Exists
    <3> HIDE DEF next
    <3>3. QED BY <2>1, <3>1, <3>2 DEF StillAttended
  <2>8. CASE WriteResult(m)
    <3>1. m.got = store[n] /\ Exists(n)
      BY <1>3, <1>5, <2>8 DEF WriteResult, Attends, InForce, Begun
    <3>2. Accepts(n, m.got)
      BY <3>1 DEF Accepts, Exists
    <3>3. Concludes(n)
      BY <1>1, <2>1, <2>8, <3>2, MonitorMoves
    <3>4. QED BY <3>3 DEF Concludes, Concluded
  <2>9. CASE ProduceReport(m)
    BY <1>3, <1>5, <2>9 DEF ProduceReport, Attends, InForce
  <2>10. QED BY <2>3, <2>4, <2>5, <2>6, <2>7, <2>8, <2>9
<1>6. CASE k # m /\ k \notin monitors'
  BY <1>3, <1>6 DEF BeginWithoutSpec, BeginInvalid, BeginSelect, BeginCancelled, DurationElapses,
     ReadExperiment, WriteResult, ProduceReport, FailureConditionMet, Decides, Becomes, Returns
<1>7. QED BY <1>4, <1>5, <1>6

\* Every step keeps the experiments attended.
LEMMA AttendedNext == AttendedInv /\ [Next]_vars => AttendedInv'
<1> SUFFICES ASSUME AttendedInv, [Next]_vars, Undisturbed', Queryable'
             PROVE  \A n \in StartedExperiments(previous') : StillAttended(n)
  BY QuietNext DEF AttendedInv, StillAttended, Attended, Attends, InForce, StartedExperiments,
                   ExperimentsWithState
<1>1. /\ WriteInv /\ QuietInv /\ Undisturbed /\ Queryable /\ Quiet
      /\ \A n \in StartedExperiments(previous) : n \in Names /\ Begun(n) /\ Attended(n)
  BY QueryableBefore DEF AttendedInv, QuietInv, RestInv, Quiet, StartedExperiments,
                         ExperimentsWithState
<1>2. ASSUME UNCHANGED <<previous, generation, monitors>>
      PROVE  \A n \in StartedExperiments(previous') : StillAttended(n)
  <2> SUFFICES ASSUME NEW n \in StartedExperiments(previous) PROVE StillAttended(n)
    BY <1>2 DEF StartedExperiments, ExperimentsWithState
  <2>1. store'[n] = store[n] \/ Concluded(store'[n])
    <3>1. store'[n] = store[n] \/ Submitted(n) \/ Starts(n) \/ Concludes(n)
      BY <1>1, QuietMoves DEF Undisturbed
    <3>2. QED BY <1>1, <3>1 DEF Submitted, Starts, Concludes, Concluded, Begun
  <2>2. QED BY <1>1, <1>2, <2>1 DEF StillAttended, Attended, Attends, InForce
<1>3. CASE SkipChecker
  <2>1. StartedExperiments(previous') = StartedExperiments(previous)
    BY <1>1, <1>3, RememberedStarted
       DEF SkipChecker, EndOfPass, CheckerShouldSync, WriteInv, TypeInv, TypeOK
  <2>2. UNCHANGED <<store, monitors, generation>>
    BY <1>3 DEF SkipChecker, api
  <2>3. QED BY <1>1, <2>1, <2>2 DEF StillAttended, Attended, Attends, InForce
<1>4. CASE SyncChecker
  <2>1. StartedExperiments(previous') = StartedExperiments(snap)
    BY <1>1, <1>4, RememberedStarted DEF SyncChecker, EndOfPass, WriteInv, TypeInv, TypeOK
  <2>2. ASSUME NEW n \in StartedExperiments(snap) PROVE StillAttended(n)
    <3> DEFINE next == [name |-> n, generation |-> generation + 1, pc |-> "starting",
                        spec |-> snap[n].spec, started |-> snap[n].started,
                        outcome |-> "None", got |-> NoExperiment]
    <3>1. next.name = n /\ next.pc = "starting" /\ next.generation = generation'
      BY <1>4 DEF SyncChecker
    <3>2. next \in monitors'
      BY <1>4 DEF SyncChecker, NewMonitors
    <3> HIDE DEF next
    <3>3. QED BY <3>1, <3>2 DEF StillAttended
  <2>3. QED BY <2>1, <2>2
<1>5. CASE Restart
  BY <1>5 DEF Restart, NoSnapshot, EmptySnapshot, StartedExperiments, ExperimentsWithState
<1>6. CASE \/ Tick \/ EmitterStep \/ Receive \/ StarterReturns \/ Translate \/ UNCHANGED vars
           \/ \E n \in Names : WriteAsStarted(n)
  BY <1>2, <1>6 DEF Tick, EmitterStep, Watch, Emit, Receive, StarterReturns, Translate,
     WriteAsStarted, vars, looping
<1>7. CASE User
  BY <1>1, <1>2, <1>7, UserMoves DEF looping
<1>8. ASSUME NEW m \in monitors,
             \/ BeginWithoutSpec(m) \/ BeginInvalid(m) \/ BeginSelect(m)
             \/ BeginCancelled(m) \/ DurationElapses(m) \/ ReadExperiment(m)
             \/ WriteResult(m) \/ ProduceReport(m) \/ FailureConditionMet(m)
      PROVE  \A n \in StartedExperiments(previous') : StillAttended(n)
  <2>1. UNCHANGED previous
    BY <1>8 DEF BeginWithoutSpec, BeginInvalid, BeginSelect, BeginCancelled, DurationElapses,
       ReadExperiment, WriteResult, ProduceReport, FailureConditionMet, Others, looping
  <2>2. QED BY <1>1, <1>8, <2>1, MonitorsAttend DEF StartedExperiments, ExperimentsWithState
<1>9. QED BY <1>3, <1>4, <1>5, <1>6, <1>7, <1>8
          DEF Next, Server, LoopStep, MonitorStep, MonitorProgress, Panic, Exit, Crash

\* As long as an experiment that nobody disturbs and that the failure checker has seen
\* started is not concluded, a monitor is on its way to conclude it: no sync, no refused
\* write and no restart loses the last of its monitors.
THEOREM AttendedUntilConcluded == Spec => [](Undisturbed /\ Queryable => StartedAreAttended)
<1>1. Init => AttendedInv
  <2>1. Init => StartedExperiments(previous) = {}
    BY DEF Init, ProcessInit, NoSnapshot, EmptySnapshot, StartedExperiments, ExperimentsWithState
  <2>2. Init => QuietInv
    BY QuietInit
  <2>3. QED BY <2>1, <2>2 DEF AttendedInv
<1>2. AttendedInv => (Undisturbed /\ Queryable => StartedAreAttended)
  BY DEF AttendedInv, StartedAreAttended, Attended, Attends, InForce
<1>3. QED BY <1>1, <1>2, AttendedNext, PTL DEF Spec

-----------------------------------------------------------------------------
(* Refinement.                                                             *)

AbstractStatus == [n \in Names |-> IF Exists(n) THEN store[n].state ELSE "absent"]
AbstractFaulty == {n \in Names : rules[n] # NoFaults}

\* At first no experiment is there, and no fault is in the mesh.
LEMMA RefinesInit == Init => Lifecycle!Init
BY DEF Init, EmptySnapshot, Exists, Limited, Lifecycle!Init, Lifecycle!Absent

\* The translator routes only the faults of experiments that are started.
LEMMA RefinesRoute ==
  ASSUME QuietInv, Undisturbed, Translate
  PROVE  Lifecycle!Route
<1>1. /\ snap \in Snapshots /\ store \in Snapshots /\ PendingInSnapshot /\ PendingAreKnown /\ Quiet
      /\ UNCHANGED store /\ loop = "translating"
  BY DEF QuietInv, RestInv, WriteInv, TypeInv, TypeOK, Translate
<1>2. ASSUME NEW n \in Names, rules[n] = NoFaults, rules'[n] # NoFaults
      PROVE  Exists(n) /\ store[n].state \in {"Started", "Failed", "Succeeded"}
  <2>1. WantsFaults(snap[n])
    BY <1>2 DEF Translate, RoutingRules
  <2>2. snap[n] # NoExperiment /\ snap[n].state # "Pending"
    BY <1>1, <2>1 DEF WantsFaults, PendingInSnapshot, PendingAreKnown
  <2>3. Begun(n)
    BY <1>1, <2>2 DEF Quiet, CopyOf, StartedBy
  <2>4. QED BY <1>1, <2>3 DEF Begun, Exists, Snapshots, Experiment, States
<1>3. AbstractFaulty' \in SUBSET Names
  BY DEF AbstractFaulty
<1>4. \A n \in AbstractFaulty' \ AbstractFaulty : AbstractStatus[n] \in {"Started", "Failed", "Succeeded"}
  BY <1>2 DEF AbstractFaulty, AbstractStatus
<1>5. UNCHANGED <<AbstractStatus, Limited>>
  BY <1>1 DEF AbstractStatus, Limited, Exists
<1>6. QED BY <1>3, <1>4, <1>5 DEF Lifecycle!Route, Lifecycle!Final, AbstractStatus, AbstractFaulty

\* A step that changes one experiment is a step of its life.
LEMMA RefinesMove ==
  ASSUME NEW n \in Names, store \in Snapshots, store' \in Snapshots, UNCHANGED rules,
         \A k \in Names \ {n} : store'[k] = store[k],
         Submitted(n) \/ Starts(n) \/ (Concludes(n) /\ Begun(n))
  PROVE  Lifecycle!Submit(n) \/ Lifecycle!Start(n) \/ Lifecycle!Conclude(n)
<1>1. AbstractStatus' = [AbstractStatus EXCEPT ![n] = store'[n].state]
  BY DEF AbstractStatus, Exists, Submitted, Starts, Concludes
<1>2. UNCHANGED AbstractFaulty
  BY DEF AbstractFaulty
<1>3. ASSUME UserPart(store'[n].spec) = UserPart(store[n].spec), Exists(n), Exists(n)'
      PROVE  UNCHANGED Limited
  <2>1. HasTimeout(store'[n].spec) = HasTimeout(store[n].spec)
    <3>1. store[n] \in Experiment /\ store'[n] \in Experiment
      BY <1>3 DEF Exists, Snapshots
    <3>2. QED BY <1>3, <3>1, SameUserPart DEF HasTimeout, Experiment
  <2>2. QED BY <1>3, <2>1 DEF Limited, Exists
<1>4. AbstractStatus[n] = IF Exists(n) THEN store[n].state ELSE "absent"
  BY DEF AbstractStatus
<1>5. CASE Submitted(n)
  <2>1. AbstractStatus[n] = "absent" /\ store'[n].state = "Pending"
    BY <1>4, <1>5 DEF Submitted
  <2>2. Limited' \in {Limited, Limited \cup {n}}
    BY <1>5 DEF Limited, Submitted, Exists
  <2>3. QED BY <1>1, <1>2, <2>1, <2>2 DEF Lifecycle!Submit, Lifecycle!Absent, AbstractStatus, AbstractFaulty
<1>6. CASE Starts(n)
  <2>1. AbstractStatus[n] = "Pending" /\ store'[n].state = "Started"
    BY <1>4, <1>6 DEF Starts
  <2>2. UNCHANGED Limited
    BY <1>6, <1>3 DEF Starts, Exists
  <2>3. QED BY <1>1, <1>2, <2>1, <2>2 DEF Lifecycle!Start, AbstractStatus, AbstractFaulty
<1>7. CASE Concludes(n) /\ Begun(n)
  <2>1. /\ AbstractStatus[n] \in {"Started", "Failed", "Succeeded"}
        /\ store'[n].state \in {"Failed", "Succeeded"}
    BY <1>4, <1>7 DEF Concludes, Begun, Exists, Snapshots, Experiment, States
  <2>2. UNCHANGED Limited
    BY <1>7, <1>3 DEF Concludes, Exists
  <2>3. QED BY <1>1, <1>2, <2>1, <2>2 DEF Lifecycle!Conclude, Lifecycle!Final, AbstractStatus, AbstractFaulty
<1>8. QED BY <1>5, <1>6, <1>7

\* Every step is a step in the life of one experiment, or routes, or changes nothing that
\* ExperimentLifecycle speaks of.
LEMMA RefinesNext ==
  QuietInv /\ Undisturbed /\ Undisturbed' /\ [Next]_vars => [Lifecycle!Next]_(Lifecycle!vars)
<1> DEFINE Goal == Lifecycle!Next \/ UNCHANGED <<AbstractStatus, Limited, AbstractFaulty>>
<1> SUFFICES ASSUME QuietInv, Undisturbed, Undisturbed', [Next]_vars PROVE Goal
  BY DEF Lifecycle!vars, AbstractStatus, AbstractFaulty
<1>1. /\ WriteInv /\ Quiet /\ store \in Snapshots /\ store' \in Snapshots
      /\ monitors \subseteq Monitor /\ edits' = 0 /\ deletes' = 0
      /\ edits \in Nat /\ deletes \in Nat
  BY WriteNext DEF QuietInv, RestInv, WriteInv, TypeInv, TypeOK, Undisturbed
<1>2. UNCHANGED <<store, rules>> => Goal
  BY DEF AbstractStatus, AbstractFaulty, Limited, Exists
<1>3. ASSUME NEW n \in Names, UNCHANGED rules, \A k \in Names \ {n} : store'[k] = store[k]
      PROVE  Goal
  <2>1. store'[n] = store[n] \/ Submitted(n) \/ Starts(n) \/ Concludes(n)
    BY <1>1, QuietMoves
  <2>2. Concludes(n) => Begun(n)
    BY <1>1 DEF Concludes, Quiet
  <2>3. CASE store'[n] = store[n]
    <3>1. store' = store
      BY <1>1, <1>3, <2>3 DEF Snapshots
    <3>2. QED BY <1>2, <1>3, <3>1
  <2>4. CASE Submitted(n) \/ Starts(n) \/ Concludes(n)
    BY <1>1, <1>3, <2>2, <2>4, RefinesMove DEF Lifecycle!Next
  <2>5. QED BY <2>1, <2>3, <2>4
<1>4. CASE User
  <2>1. PICK n \in Names : \/ \E spec \in UserSpecs : Create(n, spec)
                           \/ \E spec \in UserSpecs \cup {store[n].spec} : Edit(n, spec)
                           \/ Delete(n)
    BY <1>4 DEF User
  <2>2. UNCHANGED rules /\ \A k \in Names \ {n} : store'[k] = store[k]
    BY <1>1, <2>1 DEF Create, Edit, Write, Delete, Snapshots
  <2>3. QED BY <1>3, <2>2
<1>5. CASE Tick \/ EmitterStep \/ Exit \/ Crash \/ UNCHANGED vars
  BY <1>2, <1>5 DEF Tick, EmitterStep, Watch, Emit, Exit, Crash, Restart, vars, api
<1>6. CASE LoopStep
  <2>1. CASE Receive \/ StarterReturns \/ SkipChecker \/ SyncChecker \/ Panic
    BY <1>2, <2>1 DEF Receive, StarterReturns, SkipChecker, SyncChecker, Panic, Restart, api
  <2>2. ASSUME NEW n \in Names, WriteAsStarted(n) PROVE Goal
    BY <1>1, <1>3, <2>2 DEF WriteAsStarted, Write, Snapshots
  <2>3. CASE Translate
    BY <2>3, RefinesRoute DEF Lifecycle!Next
  <2>4. QED BY <1>6, <2>1, <2>2, <2>3 DEF LoopStep
<1>7. ASSUME NEW m \in monitors,
             \/ BeginWithoutSpec(m) \/ BeginInvalid(m) \/ BeginSelect(m)
             \/ BeginCancelled(m) \/ DurationElapses(m) \/ ReadExperiment(m)
             \/ WriteResult(m) \/ ProduceReport(m) \/ FailureConditionMet(m)
      PROVE  Goal
  <2>1. m.name \in Names
    BY <1>1 DEF Monitor
  <2>2. UNCHANGED rules /\ \A k \in Names \ {m.name} : store'[k] = store[k]
    BY <1>1, <1>7 DEF BeginWithoutSpec, BeginInvalid, BeginSelect, BeginCancelled, DurationElapses,
       ReadExperiment, WriteResult, ProduceReport, FailureConditionMet, Write, Snapshots, api
  <2>3. QED BY <1>3, <2>1, <2>2
<1>8. QED BY <1>4, <1>5, <1>6, <1>7
          DEF Next, Server, MonitorStep, MonitorProgress

\* As long as nobody disturbs the experiments the server implements ExperimentLifecycle,
\* conflicts, races of monitors, failed passes and restarts included: each experiment goes
\* from submitted to started to concluded and never back, and its faults come into the
\* mesh only once it is started.
THEOREM ImplementsLifecycle == Spec /\ []Undisturbed => KeepsLifecycle
BY RefinesInit, RefinesNext, QuietInvariant, PTL DEF Spec, KeepsLifecycle, Lifecycle!Spec
=============================================================================
