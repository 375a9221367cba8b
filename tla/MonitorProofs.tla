----------------------------- MODULE MonitorProofs -----------------------------
(***************************************************************************)
(* What the monitors leave behind and what they wait for: reports are of   *)
(* results that are in the API, and the monitors in force wait on what the *)
(* last snapshot shows.                                                    *)
(***************************************************************************)
EXTENDS GlooshotProofs

-----------------------------------------------------------------------------
(* Reports.                                                                *)

\* The incarnation of n with this number was given its result, or is not there any more.
Decided(uid, n) ==
  /\ uid \in Nat /\ uid <= created
  /\ Exists(n) /\ uid = store[n].uid => Concluded(store[n])

\* What is reported, and what is about to be.
ReportsInv ==
  /\ WriteInv
  /\ \A n \in Names : /\ Exists(n) => store[n].uid > 0
                      /\ Decided(reports[n], n)
  /\ \A m \in monitors : m.pc = "reporting" => Decided(m.got.uid, m.name)

\* A result stays, whoever writes, and the next incarnation has another number.
LEMMA DecidedStays ==
  ASSUME WriteInv, [Next]_vars, NEW n \in Names, Exists(n) => store[n].uid > 0
  PROVE  /\ store'[n] # NoExperiment => store'[n].uid > 0
         /\ \A uid : Decided(uid, n) => Decided(uid, n)'
<1>1. created \in Nat /\ store[n] \in Experiment \cup {NoExperiment} /\ PastOf(store[n], n)
  BY DEF WriteInv, TypeInv, TypeOK, Snapshots, CopiesArePast
<1>2. /\ created' \in {created, created + 1}
      /\ store'[n] = store[n] \/ UserWrites(n) \/ ServerWrites(n)
  BY StepWrites, UserStep DEF Next, vars, api, env
<1>3. store'[n] # NoExperiment => store'[n].uid > 0
  BY <1>1, <1>2 DEF UserWrites, ServerWrites, Exists, Experiment
<1>4. ASSUME NEW uid, Decided(uid, n) PROVE Decided(uid, n)'
  <2>1. uid \in Nat /\ uid <= created'
    BY <1>1, <1>2, <1>4 DEF Decided
  <2>2. ASSUME store'[n] # NoExperiment, uid = store'[n].uid PROVE Concluded(store'[n])
    BY <1>1, <1>2, <1>4, <2>2 DEF Decided, UserWrites, ServerWrites, Concluded, Exists
  <2>3. QED BY <2>1, <2>2 DEF Decided, Exists
<1>5. QED BY <1>3, <1>4

\* A monitor whose write is accepted has decided the incarnation it read.
LEMMA ResultIsIn ==
  ASSUME WriteInv, NEW m \in monitors, WriteResult(m), Accepts(m.name, m.got)
  PROVE  Decided(m.got.uid, m.name)'
<1>1. m \in Monitor /\ m.got # NoExperiment /\ m.outcome \in {"Failed", "Succeeded"}
  BY DEF WriteInv, TypeInv, TypeOK, MonitorsDecided, WriteResult
<1>2. /\ m.name \in Names /\ m.got \in Experiment /\ m.got.uid <= created
      /\ created' = created /\ store \in [Names -> Experiment \cup {NoExperiment}]
  BY <1>1 DEF WriteInv, CopiesArePast, PastOf, WriteResult, Monitor, Others, env, TypeInv,
              TypeOK, Snapshots
<1>3. store'[m.name] = [WithResult(m.got, m.outcome) EXCEPT !.ver = @ + 1]
  BY <1>2 DEF WriteResult, Write
<1>4. WithResult(m.got, m.outcome) \in Experiment /\ WithResult(m.got, m.outcome).state = m.outcome
  BY <1>1, <1>2, WithResultType DEF WithResult, Experiment
<1>5. store'[m.name].state = m.outcome
  BY <1>3, <1>4 DEF Experiment
<1>6. m.got.uid \in Nat
  BY <1>2 DEF Experiment
<1>7. QED BY <1>1, <1>2, <1>5, <1>6 DEF Decided, Concluded

\* Nothing is reported but what a monitor has decided, and a monitor comes to report
\* only when its write has been accepted.
LEMMA OnlyDecidedReported ==
  ASSUME WriteInv, [Next]_vars
  PROVE  /\ \A n \in Names :
              \/ reports'[n] = reports[n]
              \/ \E m \in monitors : m.pc = "reporting" /\ m.name = n /\ reports'[n] = m.got.uid
         /\ \A m \in monitors' :
              m.pc = "reporting" => m \in monitors \/ Decided(m.got.uid, m.name)'
<1> DEFINE Goal ==
         /\ \A n \in Names :
              \/ reports'[n] = reports[n]
              \/ \E m \in monitors : m.pc = "reporting" /\ m.name = n /\ reports'[n] = m.got.uid
         /\ \A m \in monitors' :
              m.pc = "reporting" => m \in monitors \/ Decided(m.got.uid, m.name)'
<1> SUFFICES Goal
  OBVIOUS
<1> USE DEF api, env, emitter, looping
<1>0. monitors \subseteq Monitor /\ reports \in [Names -> Nat]
  BY DEF WriteInv, TypeInv, TypeOK
<1>1. CASE User \/ Tick \/ EmitterStep
  BY <1>1 DEF User, Create, Edit, Delete, Tick, EmitterStep, Watch, Emit
<1>2. CASE LoopStep
  <2>1. CASE Receive \/ StarterReturns \/ Translate \/ SkipChecker \/ \E n \in Names : WriteAsStarted(n)
    BY <2>1 DEF Receive, StarterReturns, Translate, SkipChecker, WriteAsStarted
  <2>2. CASE SyncChecker
    <3>1. \A m \in NewMonitors : m.pc = "starting"
      BY DEF NewMonitors
    <3>2. QED BY <2>2, <3>1 DEF SyncChecker, Survivors
  <2>3. CASE Panic
    BY <2>3 DEF Panic, Restart
  <2>4. QED BY <1>2, <2>1, <2>2, <2>3 DEF LoopStep
<1>3. ASSUME NEW m \in monitors,
             \/ BeginWithoutSpec(m) \/ BeginInvalid(m) \/ BeginSelect(m)
             \/ BeginCancelled(m) \/ DurationElapses(m) \/ ReadExperiment(m)
             \/ WriteResult(m) \/ ProduceReport(m) \/ FailureConditionMet(m)
      PROVE  Goal
  <2>1. m \in Monitor
    BY <1>0, <1>3
  <2>2. CASE WriteResult(m)
    <3> DEFINE next == [m EXCEPT !.pc = "reporting"]
    <3>1. next.got = m.got /\ next.name = m.name /\ UNCHANGED reports
      BY <2>1, <2>2 DEF WriteResult, Monitor
    <3>2. monitors' \subseteq monitors \/ (Accepts(m.name, m.got) /\ monitors' \subseteq monitors \cup {next})
      BY <2>2 DEF WriteResult, Becomes, Returns
    <3> HIDE DEF next
    <3>3. QED BY <2>2, <3>1, <3>2, ResultIsIn
  <2>3. CASE ProduceReport(m)
    BY <1>0, <2>1, <2>3 DEF ProduceReport, Returns
  <2>4. CASE ReadExperiment(m) \/ BeginSelect(m)
    <3>1. /\ [m EXCEPT !.pc = "selecting"].pc = "selecting"
          /\ [m EXCEPT !.pc = "writing", !.got = store[m.name]].pc = "writing"
      BY <2>1 DEF Monitor
    <3>2. UNCHANGED reports /\ \A k \in monitors' : k.pc = "reporting" => k \in monitors
      BY <2>4, <3>1 DEF ReadExperiment, BeginSelect, Becomes, Returns
    <3>3. QED BY <3>2
  <2>5. CASE \/ BeginWithoutSpec(m) \/ BeginInvalid(m) \/ BeginCancelled(m)
             \/ DurationElapses(m) \/ FailureConditionMet(m)
    <3>1. \A outcome : [m EXCEPT !.pc = "reading", !.outcome = outcome,
                                 !.spec = NoSpec, !.started = NoTime].pc = "reading"
      BY <2>1 DEF Monitor
    <3>2. QED BY <2>5, <3>1 DEF BeginWithoutSpec, BeginInvalid, BeginCancelled, DurationElapses,
                 FailureConditionMet, Decides, Becomes, Returns
  <2>6. QED BY <1>3, <2>2, <2>3, <2>4, <2>5
<1>4. CASE Exit \/ Crash
  BY <1>4 DEF Exit, Crash, Restart
<1>5. CASE UNCHANGED vars
  BY <1>5 DEF vars
<1>6. QED BY <1>1, <1>2, <1>3, <1>4, <1>5
          DEF Next, Server, MonitorStep, MonitorProgress

\* Every step keeps the invariant on reports.
LEMMA ReportsNext == ReportsInv /\ [Next]_vars => ReportsInv'
<1> SUFFICES ASSUME ReportsInv, [Next]_vars PROVE ReportsInv'
  OBVIOUS
<1>1. WriteInv /\ WriteInv'
  BY WriteNext DEF ReportsInv
<1>2. monitors \subseteq Monitor /\ monitors' \subseteq Monitor
  BY <1>1 DEF WriteInv, TypeInv, TypeOK
<1>3. ASSUME NEW n \in Names
      PROVE  /\ store'[n] # NoExperiment => store'[n].uid > 0
             /\ Decided(reports[n], n)'
             /\ \A uid : Decided(uid, n) => Decided(uid, n)'
  <2>1. /\ store'[n] # NoExperiment => store'[n].uid > 0
        /\ \A uid : Decided(uid, n) => Decided(uid, n)'
    BY <1>1, DecidedStays DEF ReportsInv
  <2>2. \/ reports'[n] = reports[n]
        \/ \E m \in monitors : m.pc = "reporting" /\ m.name = n /\ reports'[n] = m.got.uid
    BY <1>1, OnlyDecidedReported
  <2>3. \E uid : reports'[n] = uid /\ Decided(uid, n)
    BY <2>2 DEF ReportsInv
  <2>4. PICK uid : reports'[n] = uid /\ Decided(uid, n)'
    BY <2>1, <2>3
  <2>5. Decided(reports[n], n)'
    BY <2>4 DEF Decided
  <2>6. QED BY <2>1, <2>5
<1>4. ASSUME NEW m \in monitors', m.pc = "reporting" PROVE Decided(m.got.uid, m.name)'
  <2>1. CASE m \in monitors
    <3>1. m.name \in Names /\ Decided(m.got.uid, m.name)
      BY <1>2, <1>4, <2>1 DEF ReportsInv, Monitor
    <3>2. QED BY <1>3, <3>1
  <2>2. QED BY <1>1, <1>4, <2>1, OnlyDecidedReported
<1>5. QED BY <1>1, <1>3, <1>4 DEF ReportsInv, Exists

\* A report is about an incarnation whose result is in the API, for as long as this
\* incarnation is there: a refused write is never reported, and no later write of the
\* starter or of a user takes a reported result back.
THEOREM ReportsAreOfResults == Spec => []ReportsFollowResults
<1>1. Init => ReportsInv
  <2>1. Init => /\ \A n \in Names : ~Exists(n) /\ reports[n] = 0
                /\ created = 0 /\ monitors = {}
    BY DEF Init, ProcessInit, EmptySnapshot, Exists
  <2>2. QED BY <2>1, WriteInit DEF ReportsInv, Decided
<1>2. ReportsInv => ReportsFollowResults
  BY DEF ReportsInv, ReportsFollowResults, Decided
<1>3. QED BY <1>1, <1>2, ReportsNext, PTL DEF Spec

-----------------------------------------------------------------------------
(* Monitors.                                                               *)

\* What a monitor waits on is what the failure checker saw last.
Watches(m, s) ==
  /\ s[m.name] # NoExperiment
  /\ m.spec # NoSpec => SameFailureSpec(m, s[m.name])

InForce(m) == m.generation = generation /\ m.pc \in {"starting", "selecting"}

\* The monitors in force watch experiments that were started, whatever the event loop
\* is about to do, and no monitor is of a sync that is yet to come.
MonitorsInv ==
  /\ TypeInv
  /\ \A m \in monitors :
       /\ m.generation <= generation
       /\ InForce(m) => m.name \in StartedExperiments(previous) /\ Watches(m, previous)

\* What is remembered of a snapshot is its started experiments, with their specs.
LEMMA RememberedSpecs ==
  ASSUME NEW s \in Snapshots, NEW n \in StartedExperiments(s)
  PROVE  n \in StartedExperiments(Remembered(s)) /\ Remembered(s)[n].spec = s[n].spec
<1>1. n \in Names /\ s[n] \in Experiment /\ s[n].state = "Started"
  BY DEF StartedExperiments, ExperimentsWithState, Snapshots
<1> DEFINE started == [k \in Names |-> IF k \in StartedExperiments(s) THEN s[k] ELSE NoExperiment]
<1>2. Remembered(s)[n] = [s[n] EXCEPT !.uid = 0, !.ver = 0]
  <2>1. started[n] = s[n] /\ s[n] # NoExperiment
    BY <1>1, SentinelsAssumption
  <2>2. Remembered(s) = Hash(started)
    BY DEF Remembered
  <2> HIDE DEF started
  <2>3. \A c \in Snapshots : c[n] # NoExperiment => Hash(c)[n] = [c[n] EXCEPT !.uid = 0, !.ver = 0]
    BY <1>1 DEF Hash
  <2>4. started \in Snapshots
    BY DEF started, Snapshots
  <2>5. QED BY <2>1, <2>2, <2>3, <2>4
<1> DEFINE e == [s[n] EXCEPT !.uid = 0, !.ver = 0]
<1>3. e \in Experiment /\ e.state = "Started" /\ e.spec = s[n].spec
  BY <1>1 DEF Experiment
<1>4. Remembered(s)[n] = e
  BY <1>2
<1> HIDE DEF e, started
<1>5. QED BY <1>1, <1>3, <1>4, SentinelsAssumption DEF StartedExperiments, ExperimentsWithState

\* A sync that is skipped finds the started experiments, and what monitors wait on, as
\* they were: ShouldSync misses nothing of it.
LEMMA SkippedIsSame ==
  ASSUME TypeInv, SkipChecker,
         NEW m \in Monitor, m.name \in StartedExperiments(previous), Watches(m, previous)
  PROVE  m.name \in StartedExperiments(previous)' /\ Watches(m, previous')
<1> DEFINE n == m.name
<1>1. previous \in Snapshots /\ snap \in Snapshots /\ previous' = Remembered(snap) /\ n \in Names
  BY DEF TypeInv, TypeOK, SkipChecker, EndOfPass, Monitor
<1>2. StartedExperiments(previous) = StartedExperiments(snap)
  BY DEF SkipChecker, CheckerShouldSync
<1>3. n \in Compared(previous, snap)
  BY <1>2 DEF Compared
<1>4. ~DereferencesNil(previous[n], snap[n]) /\ ~FaultsChanged(previous[n], snap[n])
  BY <1>3 DEF SkipChecker, CheckerShouldSync, CheckerPanics
<1>5. /\ n \in StartedExperiments(Remembered(snap))
      /\ Remembered(snap)[n].spec = snap[n].spec
  BY <1>1, <1>2, RememberedSpecs
<1>6. Remembered(snap)[n] # NoExperiment
  BY <1>5 DEF StartedExperiments, ExperimentsWithState
<1>7. ASSUME m.spec # NoSpec PROVE SameFailureSpec(m, Remembered(snap)[n])
  <2>1. SameFailureSpec(m, previous[n])
    BY <1>7 DEF Watches
  <2>2. /\ snap[n].spec # NoSpec
        /\ snap[n].spec.conditions = previous[n].spec.conditions
        /\ snap[n].spec.names = previous[n].spec.names
        /\ snap[n].spec.duration = previous[n].spec.duration
    BY <1>4, <2>1 DEF SameFailureSpec, DereferencesNil, FaultsChanged
  <2>3. QED BY <1>5, <2>1, <2>2 DEF SameFailureSpec
<1>8. QED BY <1>1, <1>5, <1>6, <1>7 DEF Watches

\* Every step keeps the invariant on monitors.
LEMMA MonitorsNext == MonitorsInv /\ [Next]_vars => MonitorsInv'
<1> DEFINE Goal ==
         \A m \in monitors' :
           /\ m.generation <= generation'
           /\ InForce(m)' => m.name \in StartedExperiments(previous') /\ Watches(m, previous')
<1> SUFFICES ASSUME MonitorsInv, [Next]_vars PROVE Goal
  BY NextType DEF MonitorsInv
<1> USE DEF api, env, emitter, looping, InForce
<1>0. TypeInv /\ monitors \subseteq Monitor /\ generation \in Nat /\ snap \in Snapshots
  BY DEF MonitorsInv, TypeInv, TypeOK
<1>1. CASE User \/ Tick \/ EmitterStep
  BY <1>1 DEF MonitorsInv, User, Create, Edit, Delete, Tick, EmitterStep, Watch, Emit
<1>2. CASE LoopStep
  <2>1. CASE Receive \/ StarterReturns \/ Translate \/ \E n \in Names : WriteAsStarted(n)
    BY <2>1 DEF MonitorsInv, Receive, StarterReturns, Translate, WriteAsStarted
  <2>2. CASE SkipChecker
    <3>1. UNCHANGED <<monitors, generation>>
      BY <2>2 DEF SkipChecker
    <3>2. QED BY <1>0, <2>2, <3>1, SkippedIsSame DEF MonitorsInv
  <2>3. CASE SyncChecker
    <3>1. ASSUME NEW m \in NewMonitors
          PROVE  /\ m.generation = generation'
                 /\ m.name \in StartedExperiments(previous') /\ Watches(m, previous')
      <4>1. PICK n \in StartedExperiments(snap) :
              m = [name |-> n, generation |-> generation + 1, pc |-> "starting",
                   spec |-> snap[n].spec, started |-> snap[n].started,
                   outcome |-> "None", got |-> NoExperiment]
        BY <3>1 DEF NewMonitors
      <4>2. /\ n \in StartedExperiments(previous') /\ previous'[n].spec = snap[n].spec
            /\ previous'[n] # NoExperiment
        BY <1>0, <2>3, RememberedSpecs
           DEF SyncChecker, EndOfPass, StartedExperiments, ExperimentsWithState
      <4>3. m.name = n /\ m.spec = snap[n].spec /\ m.generation = generation'
        BY <2>3, <4>1 DEF SyncChecker
      <4>4. QED BY <4>2, <4>3 DEF Watches, SameFailureSpec
    <3>2. \A m \in monitors : m.generation \in Nat /\ m.generation < generation'
      BY <1>0, <2>3 DEF MonitorsInv, SyncChecker, Monitor
    <3>3. monitors' \subseteq monitors \cup NewMonitors /\ generation' \in Nat
      BY <1>0, <2>3 DEF SyncChecker, Survivors
    <3>4. QED BY <3>1, <3>2, <3>3
  <2>4. CASE Panic
    BY <2>4 DEF Panic, Restart
  <2>5. QED BY <1>2, <2>1, <2>2, <2>3, <2>4 DEF LoopStep
<1>3. ASSUME NEW m \in monitors,
             \/ BeginWithoutSpec(m) \/ BeginInvalid(m) \/ BeginSelect(m)
             \/ BeginCancelled(m) \/ DurationElapses(m) \/ ReadExperiment(m)
             \/ WriteResult(m) \/ ProduceReport(m) \/ FailureConditionMet(m)
      PROVE  Goal
  <2>1. m \in Monitor /\ UNCHANGED <<previous, generation>>
    BY <1>0, <1>3 DEF BeginWithoutSpec, BeginInvalid, BeginSelect, BeginCancelled,
       DurationElapses, ReadExperiment, WriteResult, ProduceReport, FailureConditionMet, Others
  <2>2. \A k \in monitors' :
          \/ k \in monitors
          \/ k.generation = m.generation /\ k.pc \in {"reading", "writing", "reporting"}
          \/ /\ k.generation = m.generation /\ k.name = m.name /\ k.spec = m.spec
             /\ m.pc \in {"starting", "selecting"}
    <3>1. CASE BeginSelect(m)
      <4> DEFINE next == [m EXCEPT !.pc = "selecting"]
      <4>1. next.generation = m.generation /\ next.name = m.name /\ next.spec = m.spec
        BY <2>1 DEF Monitor
      <4>2. monitors' \subseteq monitors \cup {next} /\ m.pc = "starting"
        BY <3>1 DEF BeginSelect, Becomes
      <4> HIDE DEF next
      <4>3. QED BY <4>1, <4>2
    <3>2. CASE ReadExperiment(m) \/ WriteResult(m) \/ ProduceReport(m)
      <4> DEFINE read  == [m EXCEPT !.pc = "writing", !.got = store[m.name]]
                 wrote == [m EXCEPT !.pc = "reporting"]
      <4>1. /\ read.generation = m.generation /\ read.pc = "writing"
            /\ wrote.generation = m.generation /\ wrote.pc = "reporting"
        BY <2>1 DEF Monitor
      <4>2. monitors' \subseteq monitors \cup {read, wrote}
        BY <3>2 DEF ReadExperiment, WriteResult, ProduceReport, Becomes, Returns
      <4> HIDE DEF read, wrote
      <4>3. QED BY <4>1, <4>2
    <3>3. CASE \/ BeginWithoutSpec(m) \/ BeginInvalid(m) \/ BeginCancelled(m)
               \/ DurationElapses(m) \/ FailureConditionMet(m)
      <4> DEFINE next(outcome) == [m EXCEPT !.pc = "reading", !.outcome = outcome,
                                            !.spec = NoSpec, !.started = NoTime]
      <4>1. \A outcome : next(outcome).pc = "reading" /\ next(outcome).generation = m.generation
        BY <2>1 DEF Monitor
      <4>2. monitors' \subseteq monitors \cup {next("Failed"), next("Succeeded")}
        BY <3>3 DEF BeginWithoutSpec, BeginInvalid, BeginCancelled, DurationElapses,
           FailureConditionMet, Decides, Becomes, Returns
      <4> HIDE DEF next
      <4>3. QED BY <4>1, <4>2
    <3>4. QED BY <1>3, <3>1, <3>2, <3>3
  <2>3. ASSUME NEW k \in monitors'
        PROVE  /\ k.generation <= generation'
               /\ InForce(k)' => k.name \in StartedExperiments(previous') /\ Watches(k, previous')
    BY <1>0, <2>1, <2>2 DEF MonitorsInv, Watches, SameFailureSpec
  <2>4. QED BY <2>3
<1>4. CASE Exit \/ Crash
  BY <1>4 DEF Exit, Crash, Restart
<1>5. CASE UNCHANGED vars
  BY <1>5 DEF vars, MonitorsInv
<1>6. QED BY <1>1, <1>2, <1>3, <1>4, <1>5
          DEF Next, Server, MonitorStep, MonitorProgress

\* Between two passes no monitor whose context is alive waits on conditions other than
\* those the last snapshot shows, or on an experiment that has ended or gone there.
THEOREM MonitorsAreCurrent == Spec => []MonitorsMatchSnapshot
<1>1. Init => MonitorsInv
  BY InitType DEF Init, ProcessInit, MonitorsInv
<1>2. MonitorsInv => MonitorsMatchSnapshot
  BY DEF MonitorsInv, MonitorsMatchSnapshot, InForce, Watches
<1>3. QED BY <1>1, <1>2, MonitorsNext, PTL DEF Spec
=============================================================================
