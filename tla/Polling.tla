--------------------------------- MODULE Polling ---------------------------------
(***************************************************************************)
(* The monitors of experiments down to the values they poll: a goroutine   *)
(* for each prometheus trigger, the comparison of values with thresholds,  *)
(* the first failure, the histories of values that all monitors share, and *)
(* the reports made of them.                                               *)
(*                                                                         *)
(* How values get from Prometheus to a poller is the subject of            *)
(* QueryPubSub, edits and deletions are that of Glooshot.  A measurement   *)
(* carries its query here, for the properties.                             *)
(***************************************************************************)
EXTENDS Integers, Sequences, FiniteSets

CONSTANTS
  Experiments,
  ConditionNames,
  Queries,
  NoQuery,     \* a trigger of another kind
  BadQuery,    \* a success rate of no service
  NoTrigger,   \* a nil trigger
  NaN,         \* what Prometheus makes of 0 / 0
  Numbers,     \* the thresholds, and the other values
  Values,      \* the values Prometheus answers
  UserSpecs,   \* lists of failure conditions, or NoSpec
  NoSpec,      \* a nil spec
  NoFailure,   \* a nil failureReport
  InvalidConfig, \* the failureReport of a nil spec
  NoHistory,   \* a nil history
  NoReport,
  MaxSyncs,    \* bound on the syncs of the failure checker
  MaxClosed,   \* bound on the channels closed under their pollers
  MaxValues    \* bound on the values polled

Operators == {"", "<", "<=", ">", ">=", "=="}

Condition == [name : ConditionNames, query : Queries \cup {NoQuery, BadQuery, NoTrigger},
              operator : Operators, threshold : Numbers]

Measurement == [query : Queries, value : Values]

\* The failure report of reportResult, with the measurement in place of its value.
Failure == [measured : Measurement, operator : Operators, threshold : Numbers]

ASSUME SpecsAssumption == UserSpecs \subseteq Seq(Condition) \cup {NoSpec}

ASSUME NumbersAssumption ==
  Numbers \subseteq Int /\ Values \subseteq Numbers \cup {NaN} /\ NaN \notin Numbers

ASSUME SentinelsAssumption ==
  /\ {NoQuery, BadQuery, NoTrigger} \cap Queries = {}
  /\ NoQuery # BadQuery /\ NoQuery # NoTrigger /\ BadQuery # NoTrigger
  /\ NoSpec \notin Seq(Condition)
  /\ NoFailure \notin Failure /\ InvalidConfig \notin Failure /\ NoFailure # InvalidConfig
  /\ NoHistory \notin Seq(Measurement)
  /\ NoReport \notin Seq(Seq(Measurement) \cup {NoHistory})

ASSUME BoundsAssumption == MaxSyncs \in Nat /\ MaxClosed \in Nat /\ MaxValues \in Nat

\* A call of MonitorExperiment, for an experiment and a sync.
Monitors == Experiments \X (1 .. MaxSyncs)

VARIABLES
  spec,       \* the conditions of each experiment in the API
  version,    \* writes to each experiment
  state,      \* its state
  cause,      \* its failure report
  reports,    \* the histories in its report
  syncs,      \* syncs of the failure checker so far
  values,     \* values polled so far
  monitor,    \* where each monitor is
  conditions, \* the conditions it was started with
  at,         \* the condition its loop has come to: the variable fc
  cancelled,  \* monitors whose context is cancelled
  first,      \* the channel firstFailure
  verdict,    \* the failure it reports, NoFailure for a success
  got,        \* the version it read in reportResult
  pollers,    \* the goroutines started
  histories   \* queryResultHistories

api     == <<spec, version, state, cause, reports>>
calls   == <<monitor, conditions, at, cancelled, first, verdict, got>>
vars    == <<api, syncs, values, calls, pollers, histories>>

\* A poller takes its name from fc when it first runs, and its query, its operator and
\* its threshold from the iteration that started it.  One whose channel was closed is
\* "closed": it has logged an error, unsubscribes and ends, and nobody waits for it.
Poller == [monitor : Monitors, index : Nat,
           pc : {"new", "polling", "unsubscribing", "found", "closed"},
           name : Nat, failure : Failure \cup {NoFailure}]

History == Seq(Measurement) \cup {NoHistory}

TypeOK ==
  /\ spec \in [Experiments -> UserSpecs] /\ version \in [Experiments -> Nat]
  /\ state \in [Experiments -> {"Started", "Failed", "Succeeded"}]
  /\ cause \in [Experiments -> Failure \cup {NoFailure, InvalidConfig}]
  /\ reports \in [Experiments -> Seq(History) \cup {NoReport}]
  /\ syncs \in 0 .. MaxSyncs /\ values \in 0 .. MaxValues
  /\ monitor \in [Monitors -> {"absent", "starting", "selecting", "reading", "writing",
                               "reporting", "returned"}]
  /\ conditions \in [Monitors -> Seq(Condition)] /\ at \in [Monitors -> Nat]
  /\ cancelled \subseteq Monitors
  /\ first \in [Monitors -> Seq(Failure)] /\ (\A m \in Monitors : Len(first[m]) <= 1)
  /\ verdict \in [Monitors -> Failure \cup {NoFailure, InvalidConfig}]
  /\ got \in [Monitors -> Nat]
  /\ pollers \subseteq Poller
  /\ histories \in [ConditionNames -> History]

Init ==
  /\ spec \in [Experiments -> UserSpecs]
  /\ version = [e \in Experiments |-> 0]
  /\ state = [e \in Experiments |-> "Started"]
  /\ cause = [e \in Experiments |-> NoFailure]
  /\ reports = [e \in Experiments |-> NoReport]
  /\ syncs = 0 /\ values = 0
  /\ monitor = [m \in Monitors |-> "absent"] /\ conditions = [m \in Monitors |-> <<>>]
  /\ at = [m \in Monitors |-> 0] /\ cancelled = {} /\ first = [m \in Monitors |-> <<>>]
  /\ verdict = [m \in Monitors |-> NoFailure]
  /\ got = [m \in Monitors |-> 0]
  /\ pollers = {} /\ histories = [c \in ConditionNames |-> NoHistory]

-----------------------------------------------------------------------------
(* exceededThreshold and getPromQuerySpecs.                                *)

DefaultOperator(operator) == IF operator = "" THEN "<" ELSE operator

\* An operator that is not one of the others compares like the default.  Nothing
\* compares with NaN.
ExceededThreshold(value, threshold, operator) ==
  /\ value # NaN
  /\ \/ operator = ">"  /\ value > threshold
     \/ operator = ">=" /\ value >= threshold
     \/ operator = "<=" /\ value <= threshold
     \/ operator \notin {">", ">=", "<="} /\ value < threshold

-----------------------------------------------------------------------------
(* The failure checker.                                                    *)

ConditionsOf(e) == IF spec[e] = NoSpec THEN <<>> ELSE spec[e]

\* The monitors of the last sync are cancelled, those of this one started; the monitor of
\* an experiment without a spec has its verdict at once.
SyncChecker ==
  /\ syncs < MaxSyncs
  /\ syncs' = syncs + 1
  /\ cancelled' = cancelled \cup {m \in Monitors : m[2] <= syncs}
  /\ LET new(m) == m[2] = syncs + 1 /\ state[m[1]] = "Started" IN
       /\ monitor' = [m \in Monitors |->
            IF ~new(m) THEN monitor[m]
            ELSE IF spec[m[1]] = NoSpec THEN "reading" ELSE "starting"]
       /\ conditions' = [m \in Monitors |-> IF new(m) THEN ConditionsOf(m[1]) ELSE conditions[m]]
       /\ verdict' = [m \in Monitors |->
            IF new(m) /\ spec[m[1]] = NoSpec THEN InvalidConfig ELSE verdict[m]]
  /\ UNCHANGED <<api, values, at, first, got, pollers, histories>>

-----------------------------------------------------------------------------
(* MonitorExperiment.                                                      *)

Goto(m, place) == monitor' = [monitor EXCEPT ![m] = place]

\* The deferred cancel; the locals of reportResult are gone.
Return(m) ==
  /\ Goto(m, "returned")
  /\ cancelled' = cancelled \cup {m}
  /\ verdict' = [verdict EXCEPT ![m] = NoFailure]
  /\ got' = [got EXCEPT ![m] = 0]

NextCondition(m) == conditions[m][at[m] + 1]

\* A nil trigger is dereferenced: the process ends, and starts anew with nothing but what
\* is in the API.
Panic(m) ==
  /\ monitor[m] = "starting" /\ at[m] < Len(conditions[m])
  /\ NextCondition(m).query = NoTrigger
  /\ monitor' = [n \in Monitors |-> IF monitor[n] = "absent" THEN "absent" ELSE "returned"]
  /\ cancelled' = cancelled \cup {n \in Monitors : monitor[n] # "absent"}
  /\ first' = [n \in Monitors |-> <<>>]
  /\ verdict' = [n \in Monitors |-> NoFailure]
  /\ got' = [n \in Monitors |-> 0]
  /\ pollers' = {} /\ histories' = [c \in ConditionNames |-> NoHistory]
  /\ UNCHANGED <<api, syncs, values, conditions, at>>

StartPoller(m) ==
  /\ monitor[m] = "starting" /\ at[m] < Len(conditions[m])
  /\ NextCondition(m).query # NoTrigger
  /\ at' = [at EXCEPT ![m] = @ + 1]
  /\ IF NextCondition(m).query = BadQuery
     THEN Return(m) /\ UNCHANGED pollers
     ELSE /\ pollers' = pollers \cup
               IF NextCondition(m).query = NoQuery THEN {}
               ELSE {[monitor |-> m, index |-> at[m] + 1, pc |-> "new", name |-> 0,
                      failure |-> NoFailure]}
          /\ UNCHANGED <<monitor, cancelled, verdict, got>>
  /\ UNCHANGED <<api, syncs, values, conditions, first, histories>>

BeginSelect(m) ==
  /\ monitor[m] = "starting" /\ at[m] = Len(conditions[m])
  /\ Goto(m, "selecting")
  /\ UNCHANGED <<api, syncs, values, conditions, at, cancelled, first, verdict, got, pollers,
                 histories>>

Cancelled(m) ==
  /\ monitor[m] = "selecting" /\ m \in cancelled
  /\ Return(m)
  /\ UNCHANGED <<api, syncs, values, conditions, at, first, pollers, histories>>

FirstFailure(m) ==
  /\ monitor[m] = "selecting" /\ first[m] # <<>>
  /\ verdict' = [verdict EXCEPT ![m] = Head(first[m])]
  /\ first' = [first EXCEPT ![m] = <<>>]
  /\ Goto(m, "reading")
  /\ UNCHANGED <<api, syncs, values, conditions, at, cancelled, got, pollers, histories>>

DurationElapses(m) ==
  /\ monitor[m] = "selecting"
  /\ Goto(m, "reading")
  /\ UNCHANGED <<api, syncs, values, conditions, at, cancelled, first, verdict, got, pollers,
                 histories>>

-----------------------------------------------------------------------------
(* reportResult and produceReport.                                         *)

ReadExperiment(m) ==
  /\ monitor[m] = "reading"
  /\ got' = [got EXCEPT ![m] = version[m[1]]]
  /\ Goto(m, "writing")
  /\ UNCHANGED <<api, syncs, values, conditions, at, cancelled, first, verdict, pollers, histories>>

\* A failure report that is there stays there when the outcome is a success.
WriteResult(m) ==
  /\ monitor[m] = "writing" /\ version[m[1]] = got[m]
  /\ version' = [version EXCEPT ![m[1]] = @ + 1]
  /\ state' = [state EXCEPT ![m[1]] = IF verdict[m] = NoFailure THEN "Succeeded" ELSE "Failed"]
  /\ cause' = [cause EXCEPT ![m[1]] = IF verdict[m] = NoFailure THEN @ ELSE verdict[m]]
  /\ Goto(m, "reporting")
  /\ UNCHANGED <<spec, reports, syncs, values, conditions, at, cancelled, first, verdict, got,
                 pollers, histories>>

Conflict(m) ==
  /\ monitor[m] = "writing" /\ version[m[1]] # got[m]
  /\ Return(m)
  /\ UNCHANGED <<api, syncs, values, conditions, at, first, pollers, histories>>

\* The histories of the conditions, nil ones included.  A report that is there stays.
ProduceReport(m) ==
  /\ monitor[m] = "reporting"
  /\ reports' = IF reports[m[1]] # NoReport THEN reports
                ELSE [reports EXCEPT ![m[1]] =
                       [i \in DOMAIN ConditionsOf(m[1]) |->
                          histories[ConditionsOf(m[1])[i].name]]]
  /\ Return(m)
  /\ UNCHANGED <<spec, version, state, cause, syncs, values, conditions, at, first, pollers,
                 histories>>

-----------------------------------------------------------------------------
(* The pollers.                                                            *)

Of(p) == conditions[p.monitor][p.index]

Becomes(p, next) == pollers' = (pollers \ {p}) \cup {next}

Polls == <<api, syncs, calls>>

\* The goroutine runs, and subscribes: its name is that of the condition the loop has come
\* to.  Subscribe waits for the locks of the query cache, for ever perhaps; a poller that
\* gets on after a wait is one that subscribed at once and has had no value since.
BeginPolling(p) ==
  /\ p.pc = "new"
  /\ Becomes(p, [p EXCEPT !.pc = "polling", !.name = at[p.monitor]])
  /\ UNCHANGED <<Polls, values, histories>>

FailureOf(c, v) ==
  [measured |-> v, operator |-> DefaultOperator(c.operator), threshold |-> c.threshold]

\* What is found is brought to the monitor, after the deferred Unsubscribe.
Finds(p, failure) ==
  Becomes(p, [p EXCEPT !.pc = "unsubscribing", !.name = 0, !.failure = failure])

StoreQueryValue(name, v) ==
  histories' = [histories EXCEPT ![name] = IF @ = NoHistory THEN <<v>> ELSE Append(@, v)]

\* Slip: a value that ends the polling is not stored.
PollAndReturn(p, v) ==
  LET c == Of(p) IN
    /\ v.query = c.query
    /\ IF ExceededThreshold(v.value, c.threshold, DefaultOperator(c.operator))
       THEN Finds(p, FailureOf(c, v)) /\ UNCHANGED histories
       ELSE StoreQueryValue(conditions[p.monitor][p.name].name, v) /\ UNCHANGED pollers

\* Slip: the operator and the threshold are those of fc too.
PollCaptured(p, v) ==
  LET c == conditions[p.monitor][p.name] IN
    /\ v.query = Of(p).query
    /\ StoreQueryValue(c.name, v)
    /\ IF ExceededThreshold(v.value, c.threshold, DefaultOperator(c.operator))
       THEN Finds(p, FailureOf(c, v))
       ELSE UNCHANGED pollers

\* The value is stored first, and then compared.
Poll(p, v) ==
  LET c == Of(p) IN
    /\ v.query = c.query
    /\ StoreQueryValue(conditions[p.monitor][p.name].name, v)
    /\ IF ExceededThreshold(v.value, c.threshold, DefaultOperator(c.operator))
       THEN Finds(p, FailureOf(c, v))
       ELSE UNCHANGED pollers

TakeValue(p) ==
  /\ p.pc = "polling"
  /\ values < MaxValues
  /\ values' = values + 1
  /\ \E v \in Measurement : Poll(p, v)
  /\ UNCHANGED Polls

\* The query cache has closed the channel.
SubscriptionCloses(p) ==
  /\ p.pc = "polling"
  /\ Cardinality({q \in pollers : q.pc = "closed"}) < MaxClosed
  /\ Becomes(p, [p EXCEPT !.pc = "closed", !.name = 0])
  /\ UNCHANGED <<Polls, values, histories>>

\* The deferred call, which waits like Subscribe.  A poller without a failure has nothing
\* to do after it: it is not told apart from one that waits there for ever.
Unsubscribe(p) ==
  /\ p.pc = "unsubscribing" /\ p.failure # NoFailure
  /\ Becomes(p, [p EXCEPT !.pc = "found"])
  /\ UNCHANGED <<Polls, values, histories>>

\* Slip: a failure that finds the channel full is lost, and so is a first one when the
\* monitor is not there to take it.
SendOrDrop(p) ==
  /\ p.pc = "found"
  /\ first' = IF first[p.monitor] = <<>> /\ monitor[p.monitor] = "selecting"
              THEN [first EXCEPT ![p.monitor] = <<p.failure>>] ELSE first
  /\ pollers' = pollers \ {p}
  /\ UNCHANGED <<api, syncs, values, monitor, conditions, at, cancelled, verdict, got, histories>>

\* Slip: the channel has room for more.
SendToLargerBuffer(p) ==
  /\ p.pc = "found"
  /\ first' = [first EXCEPT ![p.monitor] = Append(@, p.failure)]
  /\ pollers' = pollers \ {p}
  /\ UNCHANGED <<api, syncs, values, monitor, conditions, at, cancelled, verdict, got, histories>>

Send(p) ==
  /\ p.pc = "found" /\ first[p.monitor] = <<>>
  /\ first' = [first EXCEPT ![p.monitor] = <<p.failure>>]
  /\ pollers' = pollers \ {p}
  /\ UNCHANGED <<api, syncs, values, monitor, conditions, at, cancelled, verdict, got, histories>>

StopPolling(p) ==
  /\ p.pc = "polling" /\ p.monitor \in cancelled
  /\ Becomes(p, [p EXCEPT !.pc = "unsubscribing", !.name = 0])

\* Slip: the goroutine waits for the channel alone.
PollerCancelledWhenPolling(p) == StopPolling(p) /\ UNCHANGED <<Polls, values, histories>>

\* A goroutine with a failure nobody wants ends.
PollerCancelled(p) ==
  /\ \/ StopPolling(p)
     \/ p.pc = "found" /\ p.monitor \in cancelled /\ pollers' = pollers \ {p}
  /\ UNCHANGED <<Polls, values, histories>>

-----------------------------------------------------------------------------

\* What goes on whatever Prometheus answers, and before the duration is over.
Progress ==
  \/ \E m \in Monitors :
       StartPoller(m) \/ BeginSelect(m) \/ Cancelled(m) \/ FirstFailure(m)
       \/ ReadExperiment(m) \/ WriteResult(m) \/ Conflict(m) \/ ProduceReport(m)
       \/ Panic(m)
  \/ \E p \in pollers : Send(p) \/ PollerCancelled(p)

Next ==
  \/ SyncChecker
  \/ Progress
  \/ \E m \in Monitors : DurationElapses(m)
  \/ \E p \in pollers : BeginPolling(p) \/ TakeValue(p) \/ SubscriptionCloses(p) \/ Unsubscribe(p)

Spec == Init /\ [][Next]_vars

\* The goroutines run when they can, but for what the query cache may keep from them.
FairSpec == Spec /\ WF_vars(Progress)

-----------------------------------------------------------------------------
(* Properties.                                                             *)

\* What a failure condition means: the measured value of its own query compares with its
\* own threshold as its own operator says.
Meets(c, failure) ==
  /\ failure.measured.query = c.query
  /\ failure.threshold = c.threshold
  /\ failure.measured.value \in Numbers
  /\ \/ c.operator \in {">", ">="} /\ failure.measured.value > c.threshold
     \/ c.operator \in {"", "<", "<="} /\ failure.measured.value < c.threshold
     \/ c.operator \in {">=", "<=", "=="} /\ failure.measured.value = c.threshold

\* What the code makes of "==", which exceededThreshold has no case for: such a condition
\* is met below the threshold, though the API promises that it is met at it.
MeetsByDefault(c, failure) ==
  c.operator = "==" /\ Meets([c EXCEPT !.operator = "<"], failure)

\* An experiment fails only on a condition it was monitored for, as a whole: no goroutine
\* of MonitorExperiment mixes up the query, the threshold and the operator of two
\* conditions, and no other experiment's failure ends this one.  The operator "==" is
\* excepted from what the API says of it (MeetsByDefault), and an experiment without a
\* spec fails for the lack of it.
FailuresAreMet ==
  \A e \in Experiments :
    cause[e] # NoFailure =>
      IF cause[e] = InvalidConfig THEN spec[e] = NoSpec
      ELSE \E m \in Monitors :
             /\ m[1] = e
             /\ \E i \in DOMAIN conditions[m] :
                  \/ Meets(conditions[m][i], cause[e])
                  \/ MeetsByDefault(conditions[m][i], cause[e])

WritesReport(m) ==
  monitor[m] = "reporting" /\ monitor'[m] = "returned" /\ reports'[m[1]] # reports[m[1]]

\* The report of a failure shows the measurement that caused it, though pollers of this
\* and of other experiments store theirs all the while (pollUntilFailure, produceReport).
ReportsShowFailure ==
  [][\A m \in Monitors :
       WritesReport(m) /\ verdict[m] \notin {NoFailure, InvalidConfig} =>
         \E i \in DOMAIN reports'[m[1]] :
           /\ reports'[m[1]][i] # NoHistory
           /\ \E k \in DOMAIN reports'[m[1]][i] : reports'[m[1]][i][k] = verdict[m].measured]_vars

\* Until a failure waits for it or it is cancelled, a monitor that waits has a poller for
\* each of its conditions that has a query, one that polls, has yet to, or brings a
\* failure: no other poller unsubscribes, and no failure is lost on the way to the monitor
\* (pollUntilFailure, MonitorExperiment).  Only the query cache drops a condition, by the
\* close of a channel: its poller ends, and the monitor does not hear of it.
ConditionsArePolled ==
  \A m \in Monitors :
    monitor[m] = "selecting" /\ m \notin cancelled /\ first[m] = <<>> =>
      \A i \in DOMAIN conditions[m] :
        conditions[m][i].query # NoQuery =>
          \E p \in pollers : /\ p.monitor = m /\ p.index = i
                             /\ p.pc = "unsubscribing" => p.failure # NoFailure

\* A failure that is found is handed on and decided upon, however long the duration, and
\* no poller outlives its monitor: not the second one to find a failure, not one that was
\* just started when the monitor gave up on a later condition (MonitorExperiment).  Those
\* that the query cache holds in Subscribe or Unsubscribe, for ever perhaps, are excepted:
\* which they are is the subject of QueryPubSub.
PollersEnd ==
  <>[](/\ \A p \in pollers :
            \/ p.pc \in {"new", "unsubscribing", "closed"}
            \/ p.pc # "found" /\ monitor[p.monitor] # "returned"
       /\ \A m \in Monitors : first[m] # <<>> => monitor[m] \notin {"starting", "selecting"})

\* The history of a failure condition in a report holds measurements of that failure
\* condition only.
HistoriesAreOwn ==
  \A e \in Experiments :
    reports[e] # NoReport =>
      \A i \in DOMAIN reports[e] :
        reports[e][i] # NoHistory =>
          \A k \in DOMAIN reports[e][i] : reports[e][i][k].query = spec[e][i].query
=============================================================================
