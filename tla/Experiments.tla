------------------------------ MODULE Experiments ------------------------------
(***************************************************************************)
(* The Experiment resource and the pure functions the server computes on   *)
(* experiments and on snapshots of them: what the starter, the translator  *)
(* and the failure checker read, and what the emitter hashes.              *)
(*                                                                         *)
(* A failure condition list, a fault list and a mesh choice are opaque     *)
(* values here; the sets below say only what the code can tell about them. *)
(***************************************************************************)
EXTENDS Integers, FiniteSets

CONSTANTS
  Names,              \* namespace and name of an experiment
  Conditions,         \* failure condition lists
  NoConditions,       \* the empty list
  Polled,             \* lists with at least one prometheus trigger
  Unnamed,            \* lists in which a condition has an empty name
  Duplicated,         \* lists in which two conditions have the same name
  Unqueryable,        \* lists with a success rate query that names no service
  Untriggered,        \* lists in which a condition has a nil trigger, and none before it
                      \* has such a query
  Faults,             \* fault lists, target mesh included
  NoFaults,           \* the empty list, and the absence of routing rules
  Untranslatable,     \* fault lists that translateToRoutingRule rejects
  MaxAge,             \* ages are told apart up to this one only
  DefaultDuration,    \* the duration of a spec that has none
  NoDuration,         \* a nil spec.duration
  NoSpec,             \* a nil spec
  NoExperiment        \* a name that no experiment has

ASSUME ConditionsAssumption ==
  /\ NoConditions \in Conditions
  /\ Polled \subseteq Conditions \ {NoConditions}
  /\ Unnamed \subseteq Conditions \ {NoConditions}
  /\ Duplicated \subseteq Conditions \ {NoConditions}
  /\ Unqueryable \subseteq Polled
  /\ Untriggered \subseteq Conditions \ ({NoConditions} \cup Unqueryable)

ASSUME FaultsAssumption ==
  /\ NoFaults \in Faults
  /\ Untranslatable \subseteq Faults \ {NoFaults}

ASSUME AgesAssumption ==
  /\ MaxAge \in Nat
  /\ DefaultDuration \in 0 .. MaxAge
  /\ NoDuration \notin 0 .. MaxAge

-----------------------------------------------------------------------------
(* The resource.                                                           *)

States == {"Pending", "Started", "Failed", "Succeeded"}

\* TimeStarted is the index of a reading of the clock (see Glooshot!age).
NoTime == 0

\* "names" is the reading of the clock that the empty condition names were
\* generated from, NoTime while they are as the user wrote them.
ExperimentSpec == [conditions : Conditions, names : Nat,
                   duration : 0 .. MaxAge \cup {NoDuration}, faults : Faults]

\* uid and ver stand for the resource version: an incarnation of the name, and
\* the number of writes to it.  "failure" says that a failure report is there.
Experiment == [uid : Nat, ver : Nat, spec : ExperimentSpec \cup {NoSpec},
               state : States, started : Nat, failure : BOOLEAN]

Snapshots == [Names -> Experiment \cup {NoExperiment}]

ASSUME SentinelsAssumption ==
  /\ NoSpec \notin ExperimentSpec
  /\ NoExperiment \notin Experiment

EmptySnapshot == [n \in Names |-> NoExperiment]

ExperimentsWithState(snap, state) ==
  {n \in Names : snap[n] # NoExperiment /\ snap[n].state = state}

Concluded(e) == e.state \in {"Failed", "Succeeded"}

\* What the user wrote of a spec: everything but the generated names.
UserPart(spec) == IF spec = NoSpec THEN NoSpec ELSE [spec EXCEPT !.names = NoTime]

\* Slip: the result is left out of the hash too, like the status.
HashWithoutResult(snap) ==
  [n \in Names |->
     IF snap[n] = NoExperiment THEN NoExperiment
     ELSE [snap[n] EXCEPT !.uid = 0, !.ver = 0, !.state = "Pending",
                          !.started = NoTime, !.failure = FALSE]]

\* The emitter's hash of an experiment leaves the resource version out, and so
\* the identity of the incarnation too.
Hash(snap) ==
  [n \in Names |->
     IF snap[n] = NoExperiment THEN NoExperiment
     ELSE [snap[n] EXCEPT !.uid = 0, !.ver = 0]]

-----------------------------------------------------------------------------
(* The starter.                                                            *)

StarterShouldSync(snap) == ExperimentsWithState(snap, "Pending") # {}

\* The names that validateOrGenerateFailureConditionNames fills in.
GenerateNames(spec, now) ==
  IF spec # NoSpec /\ spec.conditions \in Unnamed /\ spec.names = NoTime
  THEN [spec EXCEPT !.names = now] ELSE spec

\* Slip: an empty name is refused instead of generated.
RefusesNames(spec) == spec # NoSpec /\ spec.conditions \in Duplicated \cup Unnamed

HasDuplicateNames(spec) == spec # NoSpec /\ spec.conditions \in Duplicated

\* What writeAsStarted makes of the experiment in the snapshot.
MarkStarted(e, now) ==
  [e EXCEPT !.started = now, !.state = "Started", !.spec = GenerateNames(@, now)]

-----------------------------------------------------------------------------
(* The translator.                                                         *)

\* Slip: a concluded experiment is translated like any other.
WantsFaultsAlways(e) ==
  e # NoExperiment /\ e.spec # NoSpec /\ e.spec.faults # NoFaults

WantsFaults(e) ==
  e # NoExperiment /\ e.spec # NoSpec /\ e.spec.faults # NoFaults /\ ~Concluded(e)

\* One fault that cannot be translated fails the whole translation.
Translatable(snap) ==
  \A n \in Names : WantsFaults(snap[n]) => snap[n].spec.faults \notin Untranslatable

RoutingRules(snap) ==
  [n \in Names |-> IF WantsFaults(snap[n]) THEN snap[n].spec.faults ELSE NoFaults]

-----------------------------------------------------------------------------
(* The failure checker.                                                    *)

StartedExperiments(snap) == ExperimentsWithState(snap, "Started")

\* The previous snapshot is read for its started experiments only, and those are
\* compared by name, conditions and duration.
Remembered(snap) ==
  Hash([n \in Names |-> IF n \in StartedExperiments(snap) THEN snap[n] ELSE NoExperiment])

\* Slip: the conditions are not compared.
FaultsChangedDurationOnly(e1, e2) ==
  IF e1.spec = NoSpec
  THEN e2.spec # NoSpec /\ e2.spec.conditions # NoConditions
  ELSE e1.spec.duration # e2.spec.duration

FaultsChanged(e1, e2) ==
  IF e1.spec = NoSpec
  THEN e2.spec # NoSpec /\ e2.spec.conditions # NoConditions
  ELSE <<e1.spec.conditions, e1.spec.names, e1.spec.duration>>
         # <<e2.spec.conditions, e2.spec.names, e2.spec.duration>>

\* Slip: the first spec is not checked either.
DereferencesEither(e1, e2) == e1.spec = NoSpec \/ e2.spec = NoSpec

\* faultsChanged dereferences the second spec without a check of its own.
DereferencesNil(e1, e2) == e1.spec # NoSpec /\ e2.spec = NoSpec

\* The experiments ShouldSync compares when the two lists are equally long.
Compared(old, new) ==
  IF Cardinality(StartedExperiments(old)) = Cardinality(StartedExperiments(new))
  THEN StartedExperiments(old) \cap StartedExperiments(new) ELSE {}

CheckerShouldSync(old, new) ==
  \/ StartedExperiments(old) # StartedExperiments(new)
  \/ \E n \in Compared(old, new) :
       ~DereferencesNil(old[n], new[n]) /\ FaultsChanged(old[n], new[n])

CheckerPanics(old, new) ==
  \E n \in Compared(old, new) : DereferencesNil(old[n], new[n])

-----------------------------------------------------------------------------
(* The monitor.                                                            *)

Duration(spec) == IF spec.duration = NoDuration THEN DefaultDuration ELSE spec.duration

\* What the API calls an experiment with a timeout: one that has no duration, or the
\* duration 0, is to run indefinitely.
HasTimeout(spec) == spec # NoSpec /\ spec.duration \notin {NoDuration, 0}

\* A spec on which the monitor dereferences a nil trigger.
PanicsMonitor(spec) == spec # NoSpec /\ spec.conditions \in Untriggered

\* A spec the monitor neither dies of nor gives up on before it waits for anything.
Monitorable(e) ==
  e.spec.conditions \notin Unqueryable \cup Untriggered /\ e.started # NoTime

=============================================================================
