# Glooshot in TLA+

Glooshot runs chaos experiments in a service mesh. A user creates an
`Experiment` resource in Kubernetes: faults to inject, failure conditions,
a duration. The server starts it, turns its faults into SuperGloo routing
rules, polls Prometheus for its failure conditions, records `Failed` or
`Succeeded` in it, writes a `Report`, and takes the faults out of the mesh.

This directory models the server and its command line, and checks what they
promise. Paths are relative to `src/`.

## Inventory

| Component | Source | State | Operations |
| --- | --- | --- | --- |
| Server | `pkg/setup/setup.go`, `pkg/api/v1/api_simple_event_loop.sk.go` | the channel of errors, the previous snapshot, one cancel function for each syncer | `Run`: receive a snapshot, run the starter, the translator and the failure checker in this order, hand on errors; exit on the first |
| Emitter | `pkg/api/v1/api_snapshot_simple_emitter.sk.go` | the last list, the hash of the last snapshot emitted | receive a list; emit at a tick of one second when the hash has changed |
| Starter | `pkg/starter/experiment_starter.go` | none | `Sync`: write every pending experiment as started, condition names generated |
| Translator | `pkg/translator/syncer.go`, solo-kit's reconciler | none; owns the routing rules labelled `created_by: glooshot` | `Sync`: translate the faults of every experiment that is not concluded, write and delete rules one by one |
| Failure checker | `pkg/checker/failure_check_syncer.go` | none (the context the loop gives it) | `ShouldSync`: have the started experiments changed; `Sync`: a monitor for each |
| Monitor | `pkg/checker/check_experiment.go` | the first failure, the timer; the histories of query results, shared | `MonitorExperiment`: a poller for each condition, then wait for a failure, the duration or cancellation; `reportResult`: read, modify, write; `produceReport` |
| Query cache | `pkg/promquery/client.go` | a pubSub for each query, its subscribers, their channels | `Subscribe`, `Unsubscribe`, a poller for each query that publishes results |
| Reports | `check_experiment.go`, `report_client.sk.go` | one `Report` for each experiment name | written once, after the result |
| Typed clients | `pkg/api/v1/*_client.sk.go`, solo-kit | the Kubernetes API | read, write with a version check, delete, list, watch |
| Full emitter and event loop | `pkg/api/v1/api_snapshot_emitter.sk.go`, `api_event_loop.sk.go` | a list for each namespace and kind; the last snapshot; one context | `Snapshots`, `Run`: watch each namespace, merge, emit, sync; collect errors |
| Command line | `pkg/cli` | a cache of clients for each process | create, delete (one, a namespace, all), get, register, init, which applies the Helm chart |
| Summary and stats handlers | `pkg/setup/stats.go` | none | list the experiments of `default` |
| Metrics, generated code, installation | `pkg/checker/metrics`, `*.pb.go`, `mocks`, `install`, `ci` | none at run time; the Helm chart brings the definition of experiments (`templates/crds.yaml`) | none of their own |

How they interact. Everything durable is in the Kubernetes API. The emitter
hands the event loop one snapshot at a time over an unbuffered channel; the
syncers run one after the other in the loop's goroutine, and the starter
changes the snapshot the later ones see. The failure checker spawns
goroutines that outlive the pass. They share the query cache and the
histories, and write to the API on their own; what they write comes back
through the watch and the emitter. When a syncer returns an error the main
goroutine exits, and Kubernetes starts the pod again with nothing but the API
to go by. Commands are processes of their own beside the server.

What is hard here:

- *Whole objects read earlier are written back.* The starter writes from a
  snapshot that may be seconds old, the monitor from a read of its own; only
  the version check of the API stands between them and the users.
- *Cancellation is not termination.* A monitor past its select reports although
  its context is cancelled, beside the monitor of the next sync; senders that
  do not look at the context outlive their readers.
- *Decisions on what changed.* The emitter's hash and `ShouldSync` decide what
  is left out; what they overlook is never acted upon.
- *Lists worked through one call at a time*, by the translator and by commands,
  with failures and others' changes in between.
- *Crash and restart*, by accident or as the way errors are handled.
- *Liveness* that depends on all of the above: an experiment that is not
  concluded leaves faults in a mesh.
- *Two levels of locks and blocking sends* in the query cache.

What makes each component correct:

- Starter and monitor: writes never undo what users or other goroutines did.
- Emitters and event loops: what matters in the API reaches the syncers, in order.
- Failure checker: live monitors match the experiments as last seen.
- Monitor: an experiment fails when a condition of its own is met; one with a timeout succeeds
  when its duration has passed, also across restarts, and is concluded in the end.
- Translator: a pass that succeeds leaves the rules of its snapshot; faults that
  stay wanted are not interrupted on the way; others' rules are left alone.
- Query cache: every subscriber gets the results, nothing panics, no
  goroutine waits for ever, nothing is left when everybody has gone.
- Commands: a success means that all was done, and nothing else.

The hazards, each at its line, are in `PROJECT.json`.

## Modules

| Module | Models |
| --- | --- |
| `Experiments` | the resource, and the pure functions of starter, translator, failure checker, emitter's hash |
| `Glooshot` | the server against the API, with users, time, crashes: one state machine, as the components share the snapshot and the API |
| `ExperimentLifecycle` | what the server promises: submit, start, conclude, route (`Spec`), and that what has a timeout gets concluded, and routed then (`Liveness`) |
| `Translator` | the translator and its reconciliation call by call, with failures, restarts, meshes and rules of others |
| `RuleSync` | what the translator promises, fault by fault: ask, offer, aim, move |
| `Polling` | the monitors down to the values they poll |
| `QueryPubSub` | the query cache for one query, with its subscribers and pollers |
| `SnapshotEmitter` | the full emitter and its event loop, goroutine by goroutine |
| `CommandLine` | commands of several processes against one cluster |
| `MC...` | instances for TLC |
| `...Proofs` | theorems; `MonitorProofs` continues `GlooshotProofs`, and `LifecycleProofs` continues `MonitorProofs` |

`Glooshot` composes emitter, loop, syncers, monitors and API. `Translator`,
`Polling` and `QueryPubSub` each open one box of it: what they open is one step there.

Definitions whose comment begins with *Slip* are plausible mistakes in the
definition they stand before. Nothing uses them; replacing the definition by
one of them must break a property, which shows that the property is able to fail.

### Glooshot

`store`, `rules` and `reports` are the API. An update is accepted when the
object carries the version of what is stored (`Accepts`); `uid` tells one
incarnation of a name from the next. The rules of an experiment are its
fault list as it was translated, or `NoFaults`.

| Action | Code |
| --- | --- |
| `Create`, `Edit`, `Delete` | `glooshot create`, `kubectl edit`, `glooshot delete` |
| `Watch`, `Emit` | the two useful branches of the emitter's select; `snapshots` is the snapshot its goroutine is blocked on, in which it can do neither |
| `Receive` | the loop takes a snapshot; the starter runs if `ShouldSync` says so |
| `WriteAsStarted`, `StarterReturns` | `experimentStarter.Sync`, one write at a time, in any order |
| `Translate` | `glooshotSyncer.Sync`, in one step |
| `SkipChecker`, `SyncChecker`, `Panic` | `ShouldSync` of the failure checker says no, says yes, or dereferences a nil spec; `Panic` also has a monitor dereference a nil trigger (`PanicsMonitor`) |
| `Begin...` | `MonitorExperiment` up to its select: a nil spec fails the experiment at once, a query that cannot be generated or a missing start time end the monitor |
| `FailureConditionMet`, `DurationElapses` | the branches of the select; cancellation is in `Survivors` and `BeginCancelled` |
| `ReadExperiment`, `WriteResult`, `ProduceReport` | `reportResult`, one call of the API each |
| `Propagate`, `Exit`, `Crash`, `Restart` | the channel of errors, `setup.Run`, the pod |

Condition lists, fault lists and names are opaque values; sets among the
constants say what the code can tell about them (`Polled`, `Unnamed`,
`Duplicated`, `Unqueryable`, `Untriggered`, `Untranslatable`). Whether a condition is met
is a free choice. Times are indices into `age`, one entry for each reading
of the clock by the starter: the age advances with `Tick` and stops at
`MaxAge`, the longest duration in the instance. Experiments with a timeout are those the API
calls so (`HasTimeout`): their duration is there and is not 0.

Left out: the waiting of a connection to Prometheus at start-up, errors of
the API other than conflicts and missing objects (calls that fail for reasons of
their own are in `Translator` and `CommandLine`).

### Translator and RuleSync

A rule is named after its experiment and the index of its fault (`Keys`), as
`translateToRoutingRule` names it. `rules` are those with the label
`created_by: glooshot`, `others` the names taken by rules without it.

| Action | Code |
| --- | --- |
| `Submit`, `Conclude`, `Delete`, `ChangeMesh` | users, the rest of the server, SuperGloo |
| `Emit`, `Receive` | the emitter and the loop; other syncers do not show |
| `TranslateFault`, `TranslationFails` | `translateToRoutingRule` for one fault, in the order of a Go map, the meshes read anew each time |
| `List`, `WriteRule`, `NameTaken`, `BeginDeleting`, `DeleteRule`, `SyncReturns` | `Reconcile`: list by label, update what was listed or create, delete the rest |
| `CallFails`, `Exit`, `Crash` | an error of the API ends the pass and then the process |

`RuleSync` has the faults in the mesh, what was asked for, offered by
the emitter, and aimed at by the pass. Faults change one at a time, and only to what
is aimed at. The refinement mapping takes `asked` from `store`, `offered` from the snapshot
that waits or is synced, `aim` from the pass, and `injected` from the rules.

### Polling

A monitor is an experiment and the number of the sync that started it; a poller is a
monitor and the index of a condition. A poller takes its query, threshold and operator
from the iteration that started it, and its name from the loop variable when it first
runs (`BeginPolling`). A measurement carries its query, which the code's does not, so that the
properties can tell whose it is. `exceededThreshold` is `ExceededThreshold`, with a value for NaN.

| Action | Code |
| --- | --- |
| `SyncChecker` | `Sync`: cancel the last generation, start one monitor for each started experiment |
| `StartPoller`, `BeginSelect` | the loop of `MonitorExperiment`; a query that cannot be generated ends it, a nil spec in `SyncChecker` goes straight to the result |
| `Panic` | a nil trigger ends the process: monitors, pollers and histories are gone, the API stays |
| `Cancelled`, `FirstFailure`, `DurationElapses` | its select |
| `ReadExperiment`, `WriteResult`, `Conflict`, `ProduceReport` | `reportResult`, `produceReport` |
| `BeginPolling`, `TakeValue` | the goroutine of a condition up to `Subscribe`, and the values `pollUntilFailure` receives |
| `SubscriptionCloses` | the channel is closed by the query cache: the poller logs an error and is gone for its monitor |
| `Unsubscribe`, `Send`, `PollerCancelled` | the deferred `Unsubscribe` of a poller, which comes before it brings its failure to the channel `firstFailure`; cancellation |

When the query cache closes a channel, and when `Subscribe` and `Unsubscribe` return, is left open
here: `QueryPubSub` has it.

### QueryPubSub

One query; queries share only `access`, the lock of the map. Subscribers are
the goroutines of `pollUntilFailure`, from `Subscribe` to the deferred
`Unsubscribe`. Each critical section is an action. A lock appears only where
it is held across steps: `publish` holds the read lock of a pubSub while it
waits for room in a channel (`LockFree`), the deferred function of a poller
holds `access` while it waits for the write lock of the pubSub. That waiting
writers keep new readers out is left out: a reader that is let in has nothing
to wait for but a full channel, so that who is stuck in the end is the same.
A pubSub sends in any order. The root context is that of the process and is
never cancelled.

### SnapshotEmitter

Lists are numbered by the change that made them, and `contents` says what is in each: a list may
return to an earlier content, the empty one included. `Tick` compares contents (`Hash`), as the code does;
the numbers serve the properties. Each feed (a namespace and a kind) has the
relay of `Watch` and each namespace a forwarding goroutine; `aggregating` and `reporting` count
the goroutines of `AggregateErrs`, `done` is the wait group. Selects with a cancelled context may still
take another branch, and nil is read from channels that are closed.
The server uses the simple emitter, which is in `Glooshot`; this one is generated for
users of the API.

### CommandLine

A command line is a record of the flags that matter; `pc` is the next call of its process.
`ListNamespaces`, `NextNamespace`, `Connect`, `ListToDelete` and `ListToPrint` are the loops of
`pkg/cli/controller` and `get`; `DeleteExperiment` and `AlreadyGone`, `ReadOne`, `CreateExperiment`
single calls; `RegisterReports`, `RegisterExperiments`, and `CreateNamespace`, `RenderManifests`,
`Apply` the steps of `register` and `init`, whose chart brings the definition of experiments (`ChartKinds`)
even when the rest of it fails. `store` holds a number for each incarnation, which tells an
experiment that was there when a command began (`Old`) from one created since. `CallFails`
ends a command anywhere. The statistics handlers of the server list as `get` does.

## Runs

| Run | Question | Outcome |
| --- | --- | --- |
| `edits` | Do concluded experiments stay concluded, do live monitors match what was last seen, does the server ever undo a user's edit, deletion or re-creation, report without a result, or panic on a spec without a user's doing; has a server at rest missed an experiment, or left wrong faults in the mesh? | the first two hold; the others never happen |
| `lifecycle` | Is `ExperimentLifecycle` implemented, its liveness and crashes included, has each started experiment a monitor, do experiments with a timeout succeed only after it, and does the server come to rest? | yes |
| `translator` | Does a pass reconcile whatever was left half done, is nothing left wrong where the translator comes to rest, and is `RuleSync` implemented? | yes |
| `polling` | Does an experiment fail only on a condition of its own, with the measurement in its report, is every condition polled until the monitor decides, and are all pollers ended? | yes, but for what the query cache closes or holds |
| `ends` | With channels that fill, can the query cache panic, leave something registered, or lock itself up other than at a full channel; do all its goroutines end unless one waits at a full channel that nobody reads? | no; yes |
| `emitter` | Do snapshots go forward and arrive, is no list lost on the way, and does cancellation end what it can? | yes, but for a return to what was emitted before a forced snapshot |
| `cli` | Do deletions and lists cover what their flags say, with other commands at work? | yes |
| `terminates` | "Experiments automatically terminate" (`README.md:35`) | violated: the write of the result conflicts with an edit, and nobody tries again |
| `blocked` | "These faults will exist until any of the stop conditions you specify are met" (`examples/bookinfo/overview.md:4`) | violated: another experiment cannot be translated |
| `notified` | "subscribers who are watching this query will be notified on every tick" (`pkg/promquery/client.go:146`) | violated: two concurrent subscriptions |
| `leak` | "does not leak goroutines" (`pkg/checker/failure_check_syncer_test.go:44`) | violated: a full channel and its departing reader |
| `captured` | "history of all measurements of the failure condition" (`api/v1/glooshot.proto:169`) | violated: the loop variable has moved on when the goroutine reads it |

The passing runs are restricted where the code does not keep the promise in general.
`lifecycle` has no edits, no deletions and only specs that can be started, translated and
monitored; what it says of conclusion and success is restricted to experiments with a timeout (`Limited`), for the
API says that others run indefinitely and the code ends them all the same; with edits, an experiment may succeed before the duration it states at that moment,
because the monitor decides with the spec it was started with. The same run has no query that cannot be
generated: its monitor would return, and `StartedAreAttended` does not claim more than the code does.
`RestIsRouted` says nothing of an API without experiments, `RestMissesNothing` nothing after a deletion, for the
reasons given below.
`EventuallyReconciled` excludes what `blocked` shows and, like `RestIsReconciled`, the case that no experiment is left after a
restart: the first list then equals the empty snapshot, nothing is emitted, and rules of
experiments deleted while the server was down stay. `CancellationEnds` excludes senders whose reader has gone.
`OnlyFullChannelsLeak` excludes what `leak` shows. `FailuresAreMet` takes the operator `==` for what the API says
or for `<`, which is what the code makes of it. `ConditionsArePolled` counts a poller whose channel was closed,
and `PollersEnd` leaves out pollers that the query cache holds. `RestIsSynced` and `SyncedInTheEnd` leave out
the case that a snapshot was forced and the lists came back to what was emitted before it (`Overtaken`).

Divergences seen while modelling and not given a run of their own:

- Without a duration an experiment "will never be marked Succeeded" (`api/v1/glooshot.proto:49-50`), and "if missing or
  set to 0 the experiment will run indefinitely" (line 87), but `getRemainingDuration` takes ten minutes for a
  missing one, and one of 0 is over at once: both succeed (`Duration`, `Elapsed`).
- An experiment that is started, deleted and created anew with the same content between two lists has the hash of
  the last snapshot, which leaves versions out (`experiment.sk.go:34-42`): it is never emitted, and stays pending
  until something else changes. TLC finds this when `RestMissesNothing` is asked after deletions.
- A success keeps the failure report of an earlier failure (`check_experiment.go:209`).
- "if the comparison evaluates to true, the failure condition will be considered met", with `==` among the operators
  (`api/v1/glooshot.proto:127-130`), but `exceededThreshold` has no case for it and compares like `<`: such a
  condition is met below the threshold and not at it (`ExceededThreshold`; `MeetsByDefault` in the property).
- A forced snapshot is not remembered (`api_snapshot_emitter.sk.go:190-192`): when the lists then go back to the
  content of the last one that was, the hashes agree (line 167), nothing is sent, and the loop keeps the
  forced one. TLC finds this when `RestIsSynced` is asked without `Overtaken`.
- A poller whose channel is closed, as others of its query leave (`client.go:151-158`, `217-222`), ends with "unexpected
  close of query subscription" in the log (`check_experiment.go:173-175`): its condition is polled no more.
- A failure condition without a trigger ends the process (`check_experiment.go:68`), and again after each restart.
- "Clients will not be recreated during the life of the process" (`pkg/cli/gsutil/client.go:120`), but the methods
  of the controller take it by value: `ClientCache` stores the client in a copy, and each namespace makes a new
  one (`Connect`).
- `init --dry-run` creates the namespace (`CreateNamespace`), and the statistics are of `default` only.

### Bounds

- One name in `edits` and `lifecycle`: experiments interact through the translator and the pass
  they share, which `blocked` and `translator` check with two.
- Two incarnations of a name in `edits`: enough for a copy of the first to meet the second. One
  edit, one deletion, five kinds of specs: sound, refused by the starter, without query, without trigger, nil. Its
  restarts are those the server causes itself, by errors and by the nil dereferences; crashes from
  outside are in `lifecycle`, and in the theorems about the same properties.
- `MaxStarts` bounds the passes in which something is pending (four in `blocked`, so that both
  experiments get started between restarts), `MaxCrashes` the crashes no error causes: three in
  `lifecycle`, so that a crash falls into the start, the monitoring and the report of one experiment.
- `MaxAge` 2 with durations 0, 1, 2 and none in `lifecycle`.
- `translator`: two experiments with up to two faults, two meshes, a name taken by a rule of
  somebody else, two changes of experiments and of meshes, a failing call and a crash: enough to leave a pass
  half done and to find other experiments and meshes in the next.
- `polling`: two syncs, so that monitors of two generations overlap; two conditions, so that there is a
  wrong one to take; values and thresholds at, below and beside equality, and NaN; two values for one poller or
  one for each of two; one channel closed at a time (`MaxClosed`). Five experiments are tried one by one: two
  conditions, one with `==` that is met below its threshold, a query that cannot be generated, a nil
  trigger, a nil spec. The theorems are for any number, of experiments as well.
- `ends` has two subscribers, channels of one value and three answers, so that a channel fills, blocks a poller,
  and there is an answer for another; two answers suffice for `leak`. The theorems are for any number of
  subscribers and any capacity.
- `emitter`: two namespaces, one kind, two changes between two contents, so that a list can go back to what it was
  after a forced snapshot; one forced snapshot, one error. The theorems are for any number of each.
- `cli`: two processes, three commands, one failing call, two namespaces and two names; three commands let a
  deletion and a creation happen within a third command.

The systems may stop, so that the configurations do not check for deadlock: users have used
up their edits, subscribers have all left. `ComesToRest`, `OnlyFullChannelsLeak`, `PollersEnd`,
`EventuallyReconciled` and `CancellationEnds` say that where it stops is where it should.

### Fairness

Goroutines that can run are run, and the kubelet restarts the container; users, crashes, failing calls,
answers of Prometheus and failure conditions are not fair.

- `Glooshot`: weak fairness of the emitter, the loop, the exit and restart of the
  process, the monitors together, and time. Fairness of the monitors together is weaker than
  what the scheduler gives, and suffices.
- `Translator`: weak fairness of the emitter, of the pass, and of the exit and restart.
- `Polling`: weak fairness of all goroutines together; neither values nor the end of the duration are
  owed to anybody, and `Subscribe`, `Unsubscribe` and the close of a channel are up to the query cache.
- `QueryPubSub`: strong fairness of each subscriber and each poller, as Go's
  `RWMutex` lets nobody starve, and weak fairness of `StopWatching`: the context of every
  monitor is cancelled in the end, as its experiment ends.
- `SnapshotEmitter`: weak fairness of its goroutines together, and of the branches taken
  on cancellation: a select chooses among ready branches at random, so that it does not pass one over for ever.

## Proofs

Proved by TLAPS, for every value of the constants that satisfies the
assumptions named in the modules:

- `TypeCorrect`, `ConcludedIsFinal`, `ServerKeepsEdits` (`GlooshotProofs`).
  `TypeInv` strengthens the types: what is pending exists in the snapshot, and
  a monitor that writes has something to write. The two properties of
  writes are not inductive, for they say nothing of copies. `CopiesArePast` does: every copy
  the server may write back (in the emitter, in the snapshot for the starter,
  in a monitor) is of a version before the one stored, or equal to it. A
  write is accepted only when versions agree, so what is written is what is
  stored with the starter's or the monitor's change; a starter's copy is
  pending, hence what is stored is.
- `ReportsAreOfResults`, `MonitorsAreCurrent` (`MonitorProofs`). For reports: a monitor about to
  report does so of an incarnation that is concluded or gone (`Decided`). For monitors: until the
  failure checker has run, live monitors match the previous snapshot (`InForce`), whatever the pass has
  done to the snapshot under way; a sync that is skipped is one whose snapshots agree on all that monitors use.
- `LifecycleProofs` has what the server makes of the experiments.
  - `MeshIsRight`, `NothingIsMissed`: `RestInv` follows what was last emitted through the pass
    (`EmittedIsSynced`). While no snapshot waits, the pass under way or the last one was of it: once
    the translator is through, the rules are those it asks for, once the failure checker is, the previous snapshot
    has its started experiments, and what was pending in it is begun in the API, is still to be written
    (`PendingAreKnown`), or a write has failed, which ends the process. The hash keeps all that the syncers look at
    (`HashAlike`), so that an equal hash means there is nothing to do.
  - `PanicsAreOfUsers`: `WorkInv`. No copy, in the emitter, the loop or a monitor, has another spec than
    the API, up to the names the starter generates, as long as nobody edits or deletes.
  - `SuccessTakesItsTime`: `QuietInv`, with `ClockInv`. A refused starter leaves a later start in
    its snapshot than the API has; a monitor of it waits too long and never too short, as later readings of
    the clock are younger (`CopyOf`, `StartedBy`). Whoever is about to write a success has seen the duration pass (`Lasted`).
  - `AttendedUntilConcluded`: `AttendedInv`. A monitor attends an experiment if it waits uncancelled, is about to
    read, or has read what is stored; one whose write is refused was overtaken by another's conclusion, since
    nobody else writes a started experiment.
  - `ImplementsLifecycle`: from `RestInv` and `QuietInv`, one lemma for each kind of step.

  The last three hold while nobody edits or deletes and no spec has duplicate condition names (`Undisturbed`), for
  which the code has no protection: an edit may shorten a wait in progress, a deletion makes room for another
  experiment of that name, a refused spec is marked as started in the snapshot only. `AttendedUntilConcluded`
  also wants queries that can be generated (`Queryable`); a nil trigger takes the memory of the failure
  checker down with its monitors. Conditions may be met at any time,
  writes refused, and the process may crash anywhere.
- `PubSubTypeCorrect`, `NothingPanics`, `LocksDoNotDeadlock`, `NothingIsLeft`
  (`QueryPubSubProofs`). For panics: a channel that is not made yet is nowhere
  (`ChannelsFresh`), so that two pubSubs never share one. For what is left:
  someone is always responsible for the registered pubSub
  (`SomeoneResponsible`): a subscriber about to join it, one of its channels'
  owners, or one that is about to delete whatever is registered. The owners of
  its channels find it when they leave, since a pubSub is registered once, by its
  maker, before anyone else can get it (`PubSubsFresh`, `OwnersStay`). For the locks: the map stays locked
  between two steps only while a poller closes (`AccessHeld`), a pubSub only while a poller sends on it; so a
  closing poller has the map, and waits for at most one that sends.
- `TranslatorTypeCorrect`, `PassReconciles`, `QuiescenceReconciles`, `OthersKeepRules`, `ImplementsRuleSync` (`TranslatorProofs`). `PassInv` says what a pass has done so far:
  what has left `todo` is desired, and desired as the snapshot asks. `ReconcileInv` says which rules
  there may be at each stage: those listed and those written, and those written are as desired. `FollowInv`
  follows the last snapshot emitted: it waits, is under way, or the faults in the mesh are of it, unless an
  error is about to end the process.
- `EmitterTypeCorrect`, `EndsAreInOrder`, `SnapshotsAreNewer`, `NothingIsLost`
  (`SnapshotEmitterProofs`). `CountInv`: the wait group is the number of goroutines that collect errors.
  `OrderInv`: along the way of a list, through relay, namespace, merged lists and snapshot, no
  number is smaller than those ahead of it. `WayInv`, for what is lost: the last list taken from a watch is the last
  one on its way, or has been merged (`OnItsWay`), and what the emitter remembers is no newer than
  what the loop has unless a snapshot waits; with equal contents the loop has the same, or something newer (`Overtaken`).
- `CommandsTypeCorrect`, `DeletionsAreComplete`, `DeletionsInScope`, `ListsMissNothing`,
  `RegisterRegistersBoth` (`CommandLineProofs`). `Covered`: every old experiment in the scope of a
  command is printed already or still to come (`Pending`), at each of its steps. `Placed`: a command
  is at a step of its verb, and one that deletes in a namespace of its scope. The others cannot disturb it, for they
  make experiments no older (`OldShrinks`).
- `PollingTypeCorrect`, `FailuresAreOfConditions`, `ReportsAreConclusive`, `NoConditionIsDropped` (`PollingProofs`). Behind each failure on its way,
  from the poller through the channel to the verdict, there is `Evidence`: a condition of the monitor that the
  measurement meets, and a history of one of its conditions that holds the measurement. Histories only
  grow and a monitor keeps its conditions, so that evidence is not lost. `PolledInv`: as far as the loop of a monitor
  has come each condition has its poller, or had one whose channel was closed; it unsubscribes only with a failure
  in hand or when the monitor is cancelled, and goes only when a failure waits or the monitor is cancelled.

Only model-checked: liveness (`LifecycleGoesOn`, `ComesToRest`,
`OnlyFullChannelsLeak`, `EventuallyReconciled`, `SyncedInTheEnd`, `CancellationEnds`, `PollersEnd`),
which is out of the prover's reach. No definition is recursive.

## Not modelled

- The text of Prometheus queries (`pkg/checker/metrics`): formatting. The success-rate query of Istio lacks a
  comma between two of its label matchers (`istio_metrics.go:16-17`), which no state machine would show.
- Marshalling, deep copies, accessors, mocks and the other generated code; the reconcilers of experiments
  and reports, which nobody calls.
- Printing, completion, interactive input, the empty body of `run`, options, release scripts and code
  generation: no state of their own. Of the Helm chart only the definition of experiments is modelled, in `Apply`.
- Writer preference of the locks in the query cache, and the end of the root context, as said above.
