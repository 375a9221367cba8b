-------------------------------- MODULE Glooshot --------------------------------
(***************************************************************************)
(* The Glooshot server against the Kubernetes API: the emitter that turns  *)
(* lists of experiments into snapshots, the event loop that runs the       *)
(* starter, the translator and the failure checker on each snapshot, the   *)
(* monitors the failure checker spawns, the main goroutine that exits on   *)
(* the first error, the users who create, edit and delete experiments, and *)
(* the restarts of the pod.                                                *)
(***************************************************************************)
EXTENDS Experiments, Sequences

CONSTANTS
  UserSpecs,    \* the specs users write
  MaxUid,       \* bound on the experiments created
  MaxEdits,     \* bound on the edits
  MaxDeletes,   \* bound on the deletions
  MaxCrashes,   \* bound on the crashes that no error of the server causes
  MaxStarts     \* bound on the passes of the starter

ASSUME BoundsAssumption ==
  /\ UserSpecs \subseteq ExperimentSpec \cup {NoSpec}
  /\ MaxUid \in Nat /\ MaxEdits \in Nat /\ MaxDeletes \in Nat
  /\ MaxCrashes \in Nat /\ MaxStarts \in Nat

VARIABLES
  \* what the Kubernetes API keeps
  store,      \* the experiments
  rules,      \* the routing rules written for each experiment
  reports,    \* the incarnation each report is about, 0 when there is no report
  \* the environment
  created,    \* experiments created so far
  edits,      \* edits so far
  deletes,    \* deletions so far
  crashes,    \* crashes so far
  age,        \* for each reading of the clock, the time since (at most MaxAge)
  \* the emitter
  current,    \* the last list it received
  original,   \* the hash of the last snapshot it emitted
  snapshots,  \* the snapshot it waits for the event loop to take, if any
  \* the event loop
  loop,       \* the syncer it is in
  snap,       \* the snapshot it syncs
  previous,   \* what ShouldSync can tell of the snapshot it synced last
  pending,    \* experiments the starter has yet to write
  failed,     \* a write of the starter failed in this pass
  generation, \* syncs of the failure checker so far: the context in force
  \* the other goroutines
  main,       \* the main goroutine
  monitors    \* one record for each call of MonitorExperiment

api     == <<store, rules, reports>>
env     == <<created, edits, deletes, crashes>>
emitter == <<current, original, snapshots>>
looping == <<loop, snap, previous, pending, failed, generation>>
vars    == <<api, env, age, emitter, looping, main, monitors>>

NoSnapshot == EmptySnapshot \* a nil previous snapshot compares like an empty one

Monitor == [name : Names, generation : Nat,
            pc : {"starting", "selecting", "reading", "writing", "reporting"},
            spec : ExperimentSpec \cup {NoSpec}, started : Nat, outcome : {"None", "Failed", "Succeeded"},
            got : Experiment \cup {NoExperiment}]

TypeOK ==
  /\ store \in Snapshots
  /\ rules \in [Names -> Faults]
  /\ reports \in [Names -> Nat]
  /\ created \in Nat /\ edits \in Nat /\ deletes \in Nat /\ crashes \in Nat
  /\ age \in Seq(0 .. MaxAge)
  /\ current \in Snapshots /\ original \in Snapshots
  /\ snapshots \in Seq(Snapshots) /\ Len(snapshots) <= 1
  /\ loop \in {"idle", "starting", "translating", "checking"}
  /\ snap \in Snapshots /\ previous \in Snapshots
  /\ pending \subseteq Names /\ failed \in BOOLEAN /\ generation \in Nat
  /\ main \in {"ranging", "failed"}
  /\ monitors \subseteq Monitor

ProcessInit ==
  /\ current = EmptySnapshot /\ original = EmptySnapshot /\ snapshots = <<>>
  /\ loop = "idle" /\ snap = EmptySnapshot /\ previous = NoSnapshot
  /\ pending = {} /\ failed = FALSE /\ generation = 0
  /\ main = "ranging" /\ monitors = {}

Init ==
  /\ store = EmptySnapshot
  /\ rules = [n \in Names |-> NoFaults]
  /\ reports = [n \in Names |-> 0]
  /\ created = 0 /\ edits = 0 /\ deletes = 0 /\ crashes = 0
  /\ age = <<>>
  /\ ProcessInit

-----------------------------------------------------------------------------
(* The Kubernetes API.                                                     *)

\* An update of e is accepted when e has the resource version of what is there.
Accepts(n, e) == store[n] # NoExperiment /\ store[n].uid = e.uid /\ store[n].ver = e.ver

Write(n, e) == store' = [store EXCEPT ![n] = [e EXCEPT !.ver = @ + 1]]

-----------------------------------------------------------------------------
(* Users.                                                                  *)

Create(n, spec) ==
  /\ store[n] = NoExperiment
  /\ created < MaxUid
  /\ created' = created + 1
  /\ store' = [store EXCEPT ![n] =
       [uid |-> created + 1, ver |-> 1, spec |-> spec, state |-> "Pending",
        started |-> NoTime, failure |-> FALSE]]
  /\ UNCHANGED <<rules, reports, edits, deletes, crashes, age, emitter, looping, main, monitors>>

\* An edit of the spec, or, with the spec as it was, of the status alone.
Edit(n, spec) ==
  /\ store[n] # NoExperiment
  /\ edits < MaxEdits
  /\ edits' = edits + 1
  /\ Write(n, [store[n] EXCEPT !.spec = spec])
  /\ UNCHANGED <<rules, reports, created, deletes, crashes, age, emitter, looping, main, monitors>>

Delete(n) ==
  /\ store[n] # NoExperiment
  /\ deletes < MaxDeletes
  /\ deletes' = deletes + 1
  /\ store' = [store EXCEPT ![n] = NoExperiment]
  /\ UNCHANGED <<rules, reports, created, edits, crashes, age, emitter, looping, main, monitors>>

User ==
  \E n \in Names :
    \/ \E spec \in UserSpecs : Create(n, spec)
    \/ store[n] # NoExperiment /\ \E spec \in UserSpecs \cup {store[n].spec} : Edit(n, spec)
    \/ Delete(n)

\* Exiting takes no time on the scale of the durations.
Tick ==
  /\ main = "ranging"
  /\ \E t \in DOMAIN age : age[t] < MaxAge
  /\ age' = [t \in DOMAIN age |-> IF age[t] < MaxAge THEN age[t] + 1 ELSE MaxAge]
  /\ UNCHANGED <<api, env, emitter, looping, main, monitors>>

-----------------------------------------------------------------------------
(* The emitter.                                                            *)

\* The aggregated watch delivers a list of the experiments there are; the emitter
\* does not take it while it waits for its last snapshot to be taken.
Watch ==
  /\ snapshots = <<>>
  /\ current # store
  /\ current' = store
  /\ UNCHANGED <<api, env, age, original, snapshots, looping, main, monitors>>

\* The ticker fires: a snapshot that differs from the last one is emitted.
Emit ==
  /\ snapshots = <<>>
  /\ original # Hash(current)
  /\ original' = Hash(current)
  /\ snapshots' = <<current>>
  /\ UNCHANGED <<api, env, age, current, looping, main, monitors>>

-----------------------------------------------------------------------------
(* The event loop.                                                         *)

\* The main goroutine takes the first error and exits; those that come after it are
\* dropped.  It ranges over the errors well before the first tick of the emitter.
Propagate(error) ==
  main' = IF error /\ main = "ranging" THEN "failed" ELSE main

Receive ==
  /\ loop = "idle" /\ snapshots # <<>>
  /\ snapshots' = <<>>
  /\ snap' = Head(snapshots)
  /\ IF StarterShouldSync(Head(snapshots))
     THEN /\ Len(age) < MaxStarts
          /\ loop' = "starting"
          /\ pending' = ExperimentsWithState(Head(snapshots), "Pending")
          /\ age' = Append(age, 0)
     ELSE loop' = "translating" /\ UNCHANGED <<pending, age>>
  /\ UNCHANGED <<api, env, current, original, previous, failed, generation, main, monitors>>

\* Slip: the copy is given the version of what is there, so that it is always accepted.
WriteAsStartedForced(n) ==
  /\ loop = "starting" /\ n \in pending
  /\ pending' = pending \ {n}
  /\ snap' = [snap EXCEPT ![n] = MarkStarted(@, Len(age))]
  /\ IF ~HasDuplicateNames(snap[n].spec) /\ store[n] # NoExperiment
     THEN /\ Write(n, [MarkStarted(snap[n], Len(age)) EXCEPT !.uid = store[n].uid,
                                                            !.ver = store[n].ver])
          /\ UNCHANGED failed
     ELSE failed' = TRUE /\ UNCHANGED store
  /\ UNCHANGED <<rules, reports, env, age, emitter, loop, previous, generation, main, monitors>>

\* Slip: the error of the write is dropped.
WriteAsStartedQuietly(n) ==
  /\ loop = "starting" /\ n \in pending
  /\ pending' = pending \ {n}
  /\ snap' = [snap EXCEPT ![n] = MarkStarted(@, Len(age))]
  /\ IF ~HasDuplicateNames(snap[n].spec) /\ Accepts(n, snap[n])
     THEN Write(n, MarkStarted(snap[n], Len(age))) ELSE UNCHANGED store
  /\ UNCHANGED <<rules, reports, env, age, emitter, loop, previous, failed, generation, main,
                 monitors>>

\* The experiment is started in the snapshot whether or not the write succeeds.
WriteAsStarted(n) ==
  /\ loop = "starting" /\ n \in pending
  /\ pending' = pending \ {n}
  /\ snap' = [snap EXCEPT ![n] = MarkStarted(@, Len(age))]
  /\ IF ~HasDuplicateNames(snap[n].spec) /\ Accepts(n, snap[n])
     THEN Write(n, MarkStarted(snap[n], Len(age))) /\ UNCHANGED failed
     ELSE failed' = TRUE /\ UNCHANGED store
  /\ UNCHANGED <<rules, reports, env, age, emitter, loop, previous, generation, main, monitors>>

StarterReturns ==
  /\ loop = "starting" /\ pending = {}
  /\ loop' = "translating"
  /\ failed' = FALSE
  /\ Propagate(failed)
  /\ UNCHANGED <<api, env, age, emitter, snap, previous, pending, generation, monitors>>

\* Slip: rules are written and never deleted.
TranslateWithoutDeletes ==
  /\ loop = "translating"
  /\ loop' = "checking"
  /\ rules' = IF Translatable(snap)
              THEN [n \in Names |-> IF WantsFaults(snap[n]) THEN snap[n].spec.faults ELSE rules[n]]
              ELSE rules
  /\ Propagate(~Translatable(snap))
  /\ UNCHANGED <<store, reports, env, age, emitter, snap, previous, pending, failed,
                 generation, monitors>>

Translate ==
  /\ loop = "translating"
  /\ loop' = "checking"
  /\ rules' = IF Translatable(snap) THEN RoutingRules(snap) ELSE rules
  /\ Propagate(~Translatable(snap))
  /\ UNCHANGED <<store, reports, env, age, emitter, snap, previous, pending, failed,
                 generation, monitors>>

EndOfPass ==
  /\ loop' = "idle"
  /\ previous' = Remembered(snap)
  /\ snap' = EmptySnapshot

SkipChecker ==
  /\ loop = "checking"
  /\ ~CheckerShouldSync(previous, snap) /\ ~CheckerPanics(previous, snap)
  /\ EndOfPass
  /\ UNCHANGED <<api, env, age, emitter, pending, failed, generation, main, monitors>>

\* A monitor that waits in its select is woken by the cancellation and returns.
Survivors == {m \in monitors : m.pc # "selecting"}

NewMonitors ==
  {[name |-> n, generation |-> generation + 1, pc |-> "starting",
    spec |-> snap[n].spec, started |-> snap[n].started,
    outcome |-> "None", got |-> NoExperiment] : n \in StartedExperiments(snap)}

SyncChecker ==
  /\ loop = "checking"
  /\ CheckerShouldSync(previous, snap)
  /\ generation' = generation + 1
  /\ monitors' = Survivors \cup NewMonitors
  /\ EndOfPass
  /\ UNCHANGED <<api, env, age, emitter, pending, failed, main>>

-----------------------------------------------------------------------------
(* The monitors.                                                           *)

Becomes(m, next) == monitors' = (monitors \ {m}) \cup {next}
Returns(m) == monitors' = monitors \ {m}

\* reportResult is given the name and the outcome, and nothing else of the experiment.
Decides(m, outcome) ==
  Becomes(m, [m EXCEPT !.pc = "reading", !.outcome = outcome,
                       !.spec = NoSpec, !.started = NoTime])

Others == <<env, age, emitter, looping, main>>

\* Slip: the deadline comes one unit of time too early.
ElapsedEarly(e) == age[e.started] + 1 >= Duration(e.spec)

\* The remaining duration is not positive.
Elapsed(e) == age[e.started] >= Duration(e.spec)

BeginWithoutSpec(m) ==
  /\ m.pc = "starting" /\ m.spec = NoSpec
  /\ Decides(m, "Failed")
  /\ UNCHANGED <<api, Others>>

\* Slip: a duration that is over already, after a restart, is taken for an invalid one.
BeginInvalidOrExpired(m) ==
  /\ m.pc = "starting" /\ m.spec # NoSpec /\ ~PanicsMonitor(m.spec)
  /\ ~Monitorable(m) \/ Elapsed(m)
  /\ Returns(m)
  /\ UNCHANGED <<api, Others>>

BeginInvalid(m) ==
  /\ m.pc = "starting" /\ m.spec # NoSpec /\ ~PanicsMonitor(m.spec) /\ ~Monitorable(m)
  /\ Returns(m)
  /\ UNCHANGED <<api, Others>>

BeginSelect(m) ==
  /\ m.pc = "starting" /\ m.spec # NoSpec /\ Monitorable(m)
  /\ m.generation = generation
  /\ Becomes(m, [m EXCEPT !.pc = "selecting"])
  /\ UNCHANGED <<api, Others>>

\* Its context is cancelled already: select takes any branch that is ready.
BeginCancelled(m) ==
  /\ m.pc = "starting" /\ m.spec # NoSpec /\ Monitorable(m)
  /\ m.generation # generation
  /\ \/ Returns(m)
     \/ m.spec.conditions \in Polled /\ Decides(m, "Failed")
     \/ Elapsed(m) /\ Decides(m, "Succeeded")
  /\ UNCHANGED <<api, Others>>

FailureConditionMet(m) ==
  /\ m.pc = "selecting" /\ m.spec.conditions \in Polled
  /\ Decides(m, "Failed")
  /\ UNCHANGED <<api, Others>>

\* Slip: that no failure means success is forgotten.
DurationElapsesSilently(m) ==
  /\ m.pc = "selecting" /\ Elapsed(m)
  /\ Decides(m, m.outcome)
  /\ UNCHANGED <<api, Others>>

DurationElapses(m) ==
  /\ m.pc = "selecting" /\ Elapsed(m)
  /\ Decides(m, "Succeeded")
  /\ UNCHANGED <<api, Others>>

\* reportResult reads by name: the experiment may be another incarnation.
ReadExperiment(m) ==
  /\ m.pc = "reading"
  /\ IF store[m.name] = NoExperiment
     THEN Returns(m)
     ELSE Becomes(m, [m EXCEPT !.pc = "writing", !.got = store[m.name]])
  /\ UNCHANGED <<api, Others>>

\* A failure report that is there stays there when the outcome is a success.
WithResult(e, outcome) ==
  [e EXCEPT !.state = outcome, !.failure = @ \/ outcome = "Failed"]

\* Slip: the same in reportResult.
WriteResultForced(m) ==
  /\ m.pc = "writing"
  /\ IF store[m.name] # NoExperiment
     THEN /\ Write(m.name, [WithResult(m.got, m.outcome) EXCEPT !.uid = store[m.name].uid,
                                                               !.ver = store[m.name].ver])
          /\ Becomes(m, [m EXCEPT !.pc = "reporting"])
     ELSE Returns(m) /\ UNCHANGED store
  /\ UNCHANGED <<rules, reports, Others>>

\* Slip: the error of the write is logged, and the report written all the same.
WriteResultAndGoOn(m) ==
  /\ m.pc = "writing"
  /\ IF Accepts(m.name, m.got)
     THEN Write(m.name, WithResult(m.got, m.outcome)) ELSE UNCHANGED store
  /\ Becomes(m, [m EXCEPT !.pc = "reporting"])
  /\ UNCHANGED <<rules, reports, Others>>

WriteResult(m) ==
  /\ m.pc = "writing"
  /\ IF Accepts(m.name, m.got)
     THEN /\ Write(m.name, WithResult(m.got, m.outcome))
          /\ Becomes(m, [m EXCEPT !.pc = "reporting"])
     ELSE Returns(m) /\ UNCHANGED store
  /\ UNCHANGED <<rules, reports, Others>>

\* An existing report is not overwritten: the error is logged.
ProduceReport(m) ==
  /\ m.pc = "reporting"
  /\ Returns(m)
  /\ reports' = IF reports[m.name] = 0
                THEN [reports EXCEPT ![m.name] = m.got.uid] ELSE reports
  /\ UNCHANGED <<store, rules, Others>>

\* What a monitor does of its own accord; whether a failure condition is met is
\* up to the system under test.
MonitorProgress ==
  \E m \in monitors :
    \/ BeginWithoutSpec(m) \/ BeginInvalid(m) \/ BeginSelect(m) \/ BeginCancelled(m)
    \/ DurationElapses(m) \/ ReadExperiment(m) \/ WriteResult(m) \/ ProduceReport(m)

MonitorStep == MonitorProgress \/ \E m \in monitors : FailureConditionMet(m)

-----------------------------------------------------------------------------
(* The main goroutine and the pod.                                         *)

Restart ==
  /\ current' = EmptySnapshot /\ original' = EmptySnapshot /\ snapshots' = <<>>
  /\ loop' = "idle" /\ snap' = EmptySnapshot /\ previous' = NoSnapshot
  /\ pending' = {} /\ failed' = FALSE /\ generation' = 0
  /\ main' = "ranging" /\ monitors' = {}
  /\ UNCHANGED <<api, created, edits, deletes, age>>

\* setup.Run returned an error: the process exits and the pod is restarted.
Exit == main = "failed" /\ Restart /\ UNCHANGED crashes

\* ShouldSync dereferences a nil spec, or a monitor a nil trigger: the process dies and
\* the pod is restarted.
Panic ==
  /\ \/ loop = "checking" /\ CheckerPanics(previous, snap)
     \/ \E m \in monitors : m.pc = "starting" /\ PanicsMonitor(m.spec)
  /\ Restart
  /\ UNCHANGED crashes

Crash == crashes < MaxCrashes /\ crashes' = crashes + 1 /\ Restart

-----------------------------------------------------------------------------

EmitterStep == Watch \/ Emit

LoopStep == Receive \/ (\E n \in Names : WriteAsStarted(n)) \/ StarterReturns
            \/ Translate \/ SkipChecker \/ SyncChecker \/ Panic

Server == EmitterStep \/ LoopStep \/ MonitorStep \/ Exit

Next == User \/ Tick \/ Server \/ Crash

\* Every goroutine that can run is run, the kubelet restarts the container, and
\* time passes.  The monitors are one process here, which is weaker than they are.
Fairness ==
  /\ WF_vars(EmitterStep) /\ WF_vars(LoopStep) /\ WF_vars(Exit)
  /\ WF_vars(MonitorProgress) /\ WF_vars(Tick)

Spec == Init /\ [][Next]_vars

FairSpec == Spec /\ Fairness

-----------------------------------------------------------------------------
(* Properties.                                                             *)

Exists(n) == store[n] # NoExperiment

\* No write of the server takes an experiment out of Failed or Succeeded: the
\* starter may hold a Pending copy from before the result was written, and must
\* not start the experiment again with it (writeAsStarted, reportResult).
ConcludedStaysConcluded ==
  [][\A n \in Names : Exists(n) /\ Concluded(store[n])
                        => store'[n] = NoExperiment \/ Concluded(store'[n])]_vars

\* Neither the starter nor a monitor, both of which write back whole objects they
\* read earlier, undoes an edit or a deletion a user made in between: a step that
\* is not a user's leaves every experiment there, and its spec as the user wrote it.
OnlyUsersEdit ==
  [][UNCHANGED <<created, edits, deletes>> =>
       \A n \in Names :
         /\ Exists(n) <=> store'[n] # NoExperiment
         /\ Exists(n) => /\ store'[n].uid = store[n].uid
                         /\ UserPart(store'[n].spec) = UserPart(store[n].spec)]_vars

SameFailureSpec(m, e) ==
  /\ e.spec # NoSpec
  /\ m.spec.conditions = e.spec.conditions /\ m.spec.names = e.spec.names
  /\ m.spec.duration = e.spec.duration

\* Between two passes, no monitor whose context is alive waits on conditions other
\* than those of the last snapshot, or on an experiment that has ended or gone there:
\* skipping a sync (ShouldSync) never leaves an outdated monitor behind.
MonitorsMatchSnapshot ==
  loop = "idle" =>
    \A m \in monitors :
      m.generation = generation /\ m.pc \in {"starting", "selecting"} =>
        /\ previous[m.name] # NoExperiment
        /\ m.spec # NoSpec => SameFailureSpec(m, previous[m.name])

\* A report is about an incarnation whose result is in the API: nothing is reported
\* when the write of the result is refused, and nothing the starter or a user writes
\* later takes the result back (reportResult, produceReport).
ReportsFollowResults ==
  \A n \in Names : Exists(n) /\ reports[n] = store[n].uid => Concluded(store[n])

\* Nobody but the server has changed anything since the experiments were created, and
\* the starter refuses none of them.
Undisturbed ==
  /\ edits = 0 /\ deletes = 0
  /\ \A n \in Names : Exists(n) => ~HasDuplicateNames(store[n].spec)

\* An experiment with a timeout that succeeded ran for its whole duration, counted from
\* the start the API shows, whatever restarts there were in between (getRemainingDuration).
\* (The code lets one without a timeout succeed too, against the API's comment.)
SucceededAfterDuration ==
  \A n \in Names :
    Exists(n) /\ store[n].state = "Succeeded" /\ HasTimeout(store[n].spec) =>
      store[n].started # NoTime /\ age[store[n].started] >= store[n].spec.duration

\* No experiment is forgotten: as long as one that the failure checker has seen started
\* is not concluded there is a monitor on its way to conclude it, though syncs cancel
\* monitors, monitors of several syncs race, and only one of their writes is accepted.
StartedAreAttended ==
  \A n \in StartedExperiments(previous) :
    Concluded(store[n]) \/ \E m \in monitors : m.name = n /\ m.pc # "reporting"

\* The failure checker dereferences a nil spec only because a user took a spec away:
\* that a spec is nil from the start, or that the server writes it back, never ends
\* the process (faultsChanged).
PanicsNeedUsers ==
  edits = 0 /\ deletes = 0 /\ loop = "checking" => ~CheckerPanics(previous, snap)

\* The server has nothing to do before something changes in the API: the emitter has
\* nothing to emit, no snapshot waits, no pass is under way, and no error is pending.
AtRest == main = "ranging" /\ loop = "idle" /\ snapshots = <<>> /\ original = Hash(store)

\* A server at rest has started every experiment, and its failure checker knows all that
\* are started: no conflict of the starter and no list that came while the loop was busy
\* is lost.  (An experiment that is deleted and created anew between two lists may be.)
RestMissesNothing ==
  AtRest /\ deletes = 0 =>
    /\ ExperimentsWithState(store, "Pending") = {}
    /\ StartedExperiments(previous) = StartedExperiments(store)

\* A server at rest has put in the mesh the faults that the experiments in the API want,
\* and no others, after whatever edits, deletions and crashes.  (A server that starts
\* with no experiments in the API does not look at the rules that are there.)
RestIsRouted ==
  AtRest /\ store # EmptySnapshot =>
    \A n \in Names : rules[n] = IF WantsFaults(store[n]) THEN store[n].spec.faults ELSE NoFaults

\* The experiments that are there and have a timeout.
Limited == {n \in Names : Exists(n) /\ HasTimeout(store[n].spec)}

\* Every experiment with a timeout is eventually concluded, or it is deleted or its
\* timeout taken away (MonitorExperiment).
EveryExperimentConcludes ==
  \A n \in Names : (n \in Limited) ~> (n \in Limited => Concluded(store[n]))

\* The faults of a concluded experiment are eventually removed (translator Sync).
FaultsRemoved ==
  \A n \in Names : (Exists(n) /\ Concluded(store[n])) ~>
                     (rules[n] = NoFaults \/ ~Exists(n) \/ ~Concluded(store[n]))

\* Once the users are quiet the server comes to rest: every experiment with a timeout is
\* concluded, the mesh has the faults of the experiments that are not and no others, and
\* the last snapshot synced shows what is in the API, so that no write of the server went
\* unseen by its own emitter.
ComesToRest ==
  <>[](/\ \A n \in Limited : Concluded(store[n])
       /\ rules = RoutingRules(store)
       /\ loop = "idle" /\ snapshots = <<>> /\ original = Hash(store))

\* The server keeps the promise of ExperimentLifecycle, restarts included, as long as
\* the specs are ones it can start, translate and monitor and nobody changes them.
Lifecycle ==
  INSTANCE ExperimentLifecycle WITH
    status <- [n \in Names |-> IF Exists(n) THEN store[n].state ELSE "absent"],
    limited <- Limited,
    faulty <- {n \in Names : rules[n] # NoFaults}

KeepsLifecycle == Lifecycle!Spec

\* And it gets on: each experiment with a timeout is concluded, and the faults of one that
\* is concluded are out for good eventually.
LifecycleGoesOn == Lifecycle!Liveness
=============================================================================
