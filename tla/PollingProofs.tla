------------------------------- MODULE PollingProofs -------------------------------
(***************************************************************************)
(* The monitors and their pollers, for any number of experiments, syncs,   *)
(* conditions and values: types, that an experiment fails on a condition   *)
(* of its own, that its report shows the measurement that failed it, and   *)
(* that every condition is polled.                                         *)
(***************************************************************************)
EXTENDS Polling, SequenceTheorems, TLAPS

-----------------------------------------------------------------------------
(* What stands behind a failure on its way from a poller to the API.       *)

Stored(name, v) ==
  histories[name] # NoHistory /\ \E k \in DOMAIN histories[name] : histories[name][k] = v

Meaning(c, failure) == Meets(c, failure) \/ MeetsByDefault(c, failure)

Met(m, failure) == \E i \in DOMAIN conditions[m] : Meaning(conditions[m][i], failure)

Shown(m, failure) ==
  \E i \in DOMAIN conditions[m] : Stored(conditions[m][i].name, failure.measured)

Evidence(m, failure) == failure \in Failure /\ Met(m, failure) /\ Shown(m, failure)

PollerInv(p) ==
  /\ monitor[p.monitor] # "absent"
  /\ p.index \in 1 .. at[p.monitor]
  /\ p.pc = "polling" => p.name \in DOMAIN conditions[p.monitor]
  /\ p.pc = "found" => p.failure # NoFailure
  /\ p.failure # NoFailure => Evidence(p.monitor, p.failure)

Unspecified(m, failure) == failure = InvalidConfig /\ spec[m[1]] = NoSpec

MonitorInv(m) ==
  /\ m[2] > syncs => monitor[m] = "absent"
  /\ monitor[m] = "absent" => at[m] = 0 /\ first[m] = <<>> /\ verdict[m] = NoFailure
  /\ monitor[m] # "absent" => conditions[m] = ConditionsOf(m[1])
  /\ at[m] <= Len(conditions[m])
  /\ first[m] # <<>> => Evidence(m, first[m][1])
  /\ verdict[m] # NoFailure => Unspecified(m, verdict[m]) \/ Evidence(m, verdict[m])

CauseInv(e) ==
  cause[e] # NoFailure =>
    \/ cause[e] = InvalidConfig /\ spec[e] = NoSpec
    \/ /\ cause[e] \in Failure
       /\ \E m \in Monitors : m[1] = e /\ monitor[m] # "absent" /\ Met(m, cause[e])

\* The steps of a poller.
PollerNext(p) ==
  \/ BeginPolling(p) \/ TakeValue(p) \/ SubscriptionCloses(p) \/ Unsubscribe(p)
  \/ Send(p) \/ PollerCancelled(p)

Inv ==
  /\ TypeOK
  /\ \A p \in pollers : PollerInv(p)
  /\ \A m \in Monitors : MonitorInv(m)
  /\ \A e \in Experiments : CauseInv(e)

-----------------------------------------------------------------------------
(* Types.                                                                  *)

\* Nothing happens before the first sync.
LEMMA InitType == Init => TypeOK
<1> SUFFICES ASSUME Init PROVE TypeOK
  OBVIOUS
<1>1. <<>> \in Seq(Condition) /\ <<>> \in Seq(Failure) /\ Len(<<>>) <= 1
  OBVIOUS
<1>2. QED BY <1>1, BoundsAssumption DEF Init, TypeOK, History

\* The conditions of an experiment are conditions.
LEMMA ConditionsOfType ==
  ASSUME TypeOK, NEW e \in Experiments
  PROVE  ConditionsOf(e) \in Seq(Condition)
<1>1. spec[e] \in UserSpecs
  BY DEF TypeOK
<1>2. CASE spec[e] = NoSpec
  BY <1>2 DEF ConditionsOf
<1>3. CASE spec[e] # NoSpec
  BY <1>1, <1>3, SpecsAssumption DEF ConditionsOf
<1>4. QED BY <1>2, <1>3

\* A sync starts monitors with conditions of users.
LEMMA SyncType ==
  ASSUME TypeOK, SyncChecker PROVE TypeOK'
<1>1. syncs' \in 0 .. MaxSyncs
  BY BoundsAssumption DEF SyncChecker, TypeOK
<1>2. monitor' \in [Monitors -> {"absent", "starting", "selecting", "reading", "writing",
                                 "reporting", "returned"}]
  BY DEF SyncChecker, TypeOK
<1>3. \A m \in Monitors : ConditionsOf(m[1]) \in Seq(Condition)
  BY ConditionsOfType DEF Monitors
<1>4. conditions' \in [Monitors -> Seq(Condition)]
  BY <1>3 DEF SyncChecker, TypeOK
<1>7. verdict' \in [Monitors -> Failure \cup {NoFailure, InvalidConfig}]
  BY DEF SyncChecker, TypeOK
<1>5. cancelled' \subseteq Monitors
  BY DEF SyncChecker, TypeOK
<1>6. QED BY <1>1, <1>2, <1>4, <1>5, <1>7 DEF SyncChecker, TypeOK, api

\* The conditions of a monitor are conditions.
LEMMA ConditionType ==
  ASSUME TypeOK, NEW m \in Monitors
  PROVE  /\ m \in Experiments \X (1 .. MaxSyncs) /\ m[1] \in Experiments
         /\ conditions[m] \in Seq(Condition) /\ Len(conditions[m]) \in Nat
         /\ DOMAIN conditions[m] = 1 .. Len(conditions[m])
         /\ \A i \in DOMAIN conditions[m] : conditions[m][i] \in Condition
<1>2. conditions[m] \in Seq(Condition)
  BY DEF TypeOK
<1>3. QED BY <1>2 DEF Monitors

\* The steps of a monitor keep the types.
LEMMA MonitorType ==
  ASSUME TypeOK, NEW m \in Monitors,
         \/ StartPoller(m) \/ BeginSelect(m) \/ Cancelled(m) \/ FirstFailure(m)
         \/ ReadExperiment(m) \/ WriteResult(m) \/ Conflict(m) \/ ProduceReport(m)
         \/ DurationElapses(m)
  PROVE  TypeOK'
<1>0. m[1] \in Experiments
  BY ConditionType
<1> USE <1>0 DEF TypeOK, api, Goto, Return
<1>1. CASE StartPoller(m)
  <2>1. at' \in [Monitors -> Nat] /\ at[m] + 1 \in Nat
    BY <1>1 DEF StartPoller
  <2>2. pollers' \subseteq Poller
    <3>1. [monitor |-> m, index |-> at[m] + 1, pc |-> "new", name |-> 0, failure |-> NoFailure]
            \in Poller
      BY <2>1 DEF Poller
    <3>2. QED BY <1>1, <3>1 DEF StartPoller
  <2>3. UNCHANGED <<monitor, cancelled, verdict, got>> \/ Return(m)
    BY <1>1 DEF StartPoller
  <2>4. /\ monitor' \in [Monitors -> {"absent", "starting", "selecting", "reading", "writing",
                                      "reporting", "returned"}]
        /\ cancelled' \subseteq Monitors /\ got' \in [Monitors -> Nat]
        /\ verdict' \in [Monitors -> Failure \cup {NoFailure, InvalidConfig}]
    <3>1. CASE UNCHANGED <<monitor, cancelled, verdict, got>>
      BY <3>1
    <3>2. CASE Return(m)
      BY <3>2
    <3>3. QED BY <2>3, <3>1, <3>2
  <2>5. UNCHANGED <<spec, version, state, cause, reports, syncs, values, conditions, first,
                    histories>>
    BY <1>1 DEF StartPoller
  <2>6. QED BY <2>1, <2>2, <2>4, <2>5
<1>2. CASE BeginSelect(m) BY <1>2 DEF BeginSelect
<1>3. CASE Cancelled(m) BY <1>3 DEF Cancelled
<1>4. CASE FirstFailure(m)
  <2>1. first[m] \in Seq(Failure) /\ first[m] # <<>>
    BY <1>4 DEF FirstFailure
  <2>2. Head(first[m]) \in Failure
    BY <2>1
  <2>3. verdict' \in [Monitors -> Failure \cup {NoFailure, InvalidConfig}]
    BY <1>4, <2>2 DEF FirstFailure
  <2>4. first' \in [Monitors -> Seq(Failure)] /\ \A n \in Monitors : Len(first'[n]) <= 1
    <3>1. <<>> \in Seq(Failure) /\ Len(<<>>) <= 1
      OBVIOUS
    <3>2. first' = [first EXCEPT ![m] = <<>>]
      BY <1>4 DEF FirstFailure
    <3>3. QED BY <3>1, <3>2
  <2>5. QED BY <1>4, <2>3, <2>4 DEF FirstFailure
<1>5. CASE ReadExperiment(m) BY <1>5 DEF ReadExperiment
<1>6. CASE WriteResult(m) BY <1>6 DEF WriteResult
<1>7. CASE Conflict(m) BY <1>7 DEF Conflict
<1>8. CASE ProduceReport(m)
  <2> DEFINE conds == ConditionsOf(m[1])
             report == [i \in DOMAIN conds |-> histories[conds[i].name]]
  <2>1. conds \in Seq(Condition)
    BY ConditionsOfType
  <2> HIDE DEF conds
  <2>2. ASSUME NEW i \in DOMAIN conds PROVE histories[conds[i].name] \in History
    <3>1. conds[i] \in Condition
      BY <2>1
    <3>2. conds[i].name \in ConditionNames
      BY <3>1 DEF Condition
    <3>3. QED BY <3>2
  <2>3. report \in Seq(History)
    <3>1. DOMAIN conds = 1 .. Len(conds) /\ Len(conds) \in Nat
      BY <2>1
    <3>2. report \in [1 .. Len(conds) -> History]
      BY <2>2, <3>1
    <3> HIDE DEF report
    <3>3. Seq(History) = UNION {[1 .. n -> History] : n \in Nat}
      BY SeqDef
    <3> DEFINE n == Len(conds)
    <3>4. n \in Nat /\ report \in [1 .. n -> History]
      BY <3>1, <3>2
    <3> HIDE DEF n
    <3>5. QED BY <3>3, <3>4, Zenon
  <2> HIDE DEF report
  <2>4. reports' = reports \/ reports' = [reports EXCEPT ![m[1]] = report]
    BY <1>8 DEF ProduceReport, report, conds
  <2>5. reports' \in [Experiments -> Seq(History) \cup {NoReport}]
    BY <2>3, <2>4
  <2>6. QED BY <1>8, <2>5 DEF ProduceReport
<1>9. CASE DurationElapses(m) BY <1>9 DEF DurationElapses
<1>10. QED BY <1>1, <1>2, <1>3, <1>4, <1>5, <1>6, <1>7, <1>8, <1>9

\* The steps of a poller keep the types.
LEMMA PollerType ==
  ASSUME Inv, NEW p \in pollers,
         PollerNext(p)
  PROVE  TypeOK'
<1>0. TypeOK /\ p \in Poller /\ PollerInv(p) /\ p.monitor \in Monitors
  BY DEF Inv, TypeOK, Poller
<1> USE <1>0 DEF TypeOK, Polls, api, calls
<1>1. CASE BeginPolling(p)
  <2>1. [p EXCEPT !.pc = "polling", !.name = at[p.monitor]] \in Poller
    BY DEF Poller
  <2>2. QED BY <1>1, <2>1 DEF BeginPolling, Becomes
<1>2. CASE TakeValue(p)
  <2>1. PICK v \in Measurement : Poll(p, v)
    BY <1>2 DEF TakeValue
  <2> DEFINE c == Of(p)
             name == conditions[p.monitor][p.name].name
  <2>2. c \in Condition
    <3>1. at[p.monitor] <= Len(conditions[p.monitor]) /\ at[p.monitor] \in Nat
      BY DEF Inv, MonitorInv
    <3>2. p.index \in DOMAIN conditions[p.monitor]
      BY <3>1, ConditionType DEF PollerInv
    <3>3. QED BY <3>2, ConditionType DEF Of
  <2>3. FailureOf(c, v) \in Failure
    BY <2>2 DEF FailureOf, Failure, Condition, DefaultOperator, Operators
  <2>4. [p EXCEPT !.pc = "unsubscribing", !.name = 0, !.failure = FailureOf(c, v)] \in Poller
    BY <2>3 DEF Poller
  <2>5. histories' = [histories EXCEPT ![name] = IF @ = NoHistory THEN <<v>> ELSE Append(@, v)]
    BY <2>1 DEF Poll, StoreQueryValue
  <2>6. pollers' = pollers
        \/ pollers' = (pollers \ {p}) \cup
             {[p EXCEPT !.pc = "unsubscribing", !.name = 0, !.failure = FailureOf(c, v)]}
    BY <2>1 DEF Poll, Finds, Becomes
  <2> HIDE DEF c, name
  <2>7. histories' \in [ConditionNames -> History]
    <3>1. \A h \in History : (IF h = NoHistory THEN <<v>> ELSE Append(h, v)) \in History
      BY <2>1 DEF History
    <3>2. QED BY <2>5, <3>1
  <2>8. values' \in 0 .. MaxValues
    BY <1>2, BoundsAssumption DEF TakeValue
  <2>9. pollers' \subseteq Poller
    BY <2>4, <2>6
  <2>10. QED BY <1>2, <2>7, <2>8, <2>9 DEF TakeValue
<1>3. CASE Send(p)
  <2>0. p.failure \in Failure
    BY <1>3 DEF Send, PollerInv, Poller
  <2>1. <<p.failure>> \in Seq(Failure) /\ Len(<<p.failure>>) = 1
    BY <2>0
  <2>2. first' = [first EXCEPT ![p.monitor] = <<p.failure>>]
    BY <1>3 DEF Send
  <2>3. first' \in [Monitors -> Seq(Failure)] /\ \A n \in Monitors : Len(first'[n]) <= 1
    BY <2>1, <2>2
  <2>4. QED BY <1>3, <2>3 DEF Send
<1>4. CASE PollerCancelled(p) \/ SubscriptionCloses(p) \/ Unsubscribe(p)
  <2>1. /\ [p EXCEPT !.pc = "unsubscribing", !.name = 0] \in Poller
        /\ [p EXCEPT !.pc = "closed", !.name = 0] \in Poller
        /\ [p EXCEPT !.pc = "found"] \in Poller
    BY DEF Poller
  <2>2. pollers' \subseteq Poller
    BY <1>4, <2>1 DEF PollerCancelled, StopPolling, SubscriptionCloses, Unsubscribe, Becomes
  <2>3. QED BY <1>4, <2>2 DEF PollerCancelled, SubscriptionCloses, Unsubscribe
<1>5. QED BY <1>1, <1>2, <1>3, <1>4 DEF PollerNext

-----------------------------------------------------------------------------
(* Evidence is not lost.                                                   *)

\* Of integers, not above is below or equal.
LEMMA NotAbove == \A w, t \in Int : (w <= t => w < t \/ w = t) /\ (w >= t => w > t \/ w = t)
OBVIOUS

\* A failure is one that the condition means (exceededThreshold, reportResult).
LEMMA ExceededIsMet ==
  ASSUME NEW c \in Condition, NEW v \in Measurement, v.query = c.query,
         ExceededThreshold(v.value, c.threshold, DefaultOperator(c.operator))
  PROVE  FailureOf(c, v) \in Failure /\ FailureOf(c, v).measured = v /\ Meaning(c, FailureOf(c, v))
<1>1. FailureOf(c, v) \in Failure
  BY DEF FailureOf, Failure, Condition, DefaultOperator, Operators
<1>2. v.value \in Numbers /\ v.value \in Int /\ c.threshold \in Int
  BY NumbersAssumption DEF ExceededThreshold, Measurement, Condition
<1>3. /\ FailureOf(c, v).measured = v /\ FailureOf(c, v).threshold = c.threshold
  BY DEF FailureOf
<1>4. c.operator \in Operators
  BY DEF Condition
<1>5. v.value \in Numbers /\ v.query = c.query
  BY <1>2
<1>6. CASE c.operator = "=="
  <2>1. PICK d : d = [c EXCEPT !.operator = "<"]
    OBVIOUS
  <2>2. d.query = c.query /\ d.threshold = c.threshold /\ d.operator = "<"
    BY <2>1 DEF Condition
  <2>3. v.value < c.threshold
    BY <1>6 DEF ExceededThreshold, DefaultOperator
  <2>4. Meets(d, FailureOf(c, v))
    BY <1>3, <1>5, <2>2, <2>3 DEF Meets
  <2>5. QED BY <1>1, <1>3, <1>6, <2>1, <2>4 DEF Meaning, MeetsByDefault
<1>7. CASE c.operator # "=="
  <2>1. \/ c.operator \in {">", ">="} /\ v.value > c.threshold
        \/ c.operator \in {"", "<", "<="} /\ v.value < c.threshold
        \/ c.operator \in {">=", "<="} /\ v.value = c.threshold
    <3>1. PICK o, w, t : o = c.operator /\ w = v.value /\ t = c.threshold
      OBVIOUS
    <3>2. w \in Int /\ t \in Int /\ o \in {"", "<", "<=", ">", ">="}
      BY <1>2, <1>4, <1>7, <3>1 DEF Operators
    <3>3. ExceededThreshold(w, t, DefaultOperator(o))
      BY <3>1
    <3>4. CASE o = ""
      BY <3>1, <3>3, <3>4 DEF ExceededThreshold, DefaultOperator
    <3>5. CASE o = "<"
      BY <3>1, <3>3, <3>5 DEF ExceededThreshold, DefaultOperator
    <3>6. CASE o = "<="
      <4>1. w <= t
        BY <3>3, <3>6 DEF ExceededThreshold, DefaultOperator
      <4>2. w < t \/ w = t
        BY <3>2, <4>1, NotAbove
      <4>3. QED BY <3>1, <3>6, <4>2
    <3>7. CASE o = ">"
      BY <3>1, <3>3, <3>7 DEF ExceededThreshold, DefaultOperator
    <3>8. CASE o = ">="
      <4>1. w >= t
        BY <3>3, <3>8 DEF ExceededThreshold, DefaultOperator
      <4>2. w > t \/ w = t
        BY <3>2, <4>1, NotAbove
      <4>3. QED BY <3>1, <3>8, <4>2
    <3>9. QED BY <3>2, <3>4, <3>5, <3>6, <3>7, <3>8
  <2>2. Meets(c, FailureOf(c, v))
    BY <1>3, <1>5, <2>1 DEF Meets
  <2>3. QED BY <1>1, <1>3, <2>2 DEF Meaning
<1>8. QED BY <1>6, <1>7

\* Measurements are only ever added to the histories.
Kept == \A name \in ConditionNames : \A v : Stored(name, v) => Stored(name, v)'

\* What a monitor has met depends on its conditions only.
LEMMA MetStays ==
  ASSUME NEW m, conditions'[m] = conditions[m], NEW f, Met(m, f) PROVE Met(m, f)'
BY DEF Met, Meaning, MeetsByDefault, Meets

\* Unless its conditions change, what stands behind a failure stands.
LEMMA EvidenceStays ==
  ASSUME TypeOK, Kept, NEW m \in Monitors, conditions'[m] = conditions[m], NEW f
  PROVE  /\ Met(m, f) => Met(m, f)'
         /\ Evidence(m, f) => Evidence(m, f)'
<1>1. Met(m, f) => Met(m, f)'
  BY MetStays
<1>2. Shown(m, f) => Shown(m, f)'
  <2> SUFFICES ASSUME NEW i \in DOMAIN conditions[m], Stored(conditions[m][i].name, f.measured)
               PROVE  Shown(m, f)'
    BY DEF Shown
  <2>1. conditions[m][i].name \in ConditionNames
    BY ConditionType DEF Condition
  <2>2. Stored(conditions[m][i].name, f.measured)'
    BY <2>1 DEF Kept, Stored
  <2>3. QED BY <2>2 DEF Shown
<1>3. QED BY <1>1, <1>2 DEF Evidence

\* Nothing is stored in a step that leaves the histories alone.
LEMMA KeptAsIs == histories' = histories => Kept
BY DEF Kept, Stored

\* The histories of a step of a poller hold what they held, and the new value.
LEMMA StoringKeeps ==
  ASSUME TypeOK, NEW name \in ConditionNames, NEW v \in Measurement, StoreQueryValue(name, v)
  PROVE  Kept /\ Stored(name, v)'
<1> DEFINE h == histories[name]
           next == IF h = NoHistory THEN <<v>> ELSE Append(h, v)
<1>1. histories' = [histories EXCEPT ![name] = next] /\ histories'[name] = next
  BY DEF StoreQueryValue, TypeOK
<1>2. h \in History
  BY DEF TypeOK
<1> HIDE DEF h
<1>3. next \in Seq(Measurement)
  BY <1>2 DEF History
<1>4. next # NoHistory
  BY <1>3, SentinelsAssumption
<1>5. \E k \in DOMAIN next : next[k] = v
  <2>1. CASE h = NoHistory
    BY <2>1
  <2>2. CASE h # NoHistory
    <3>1. h \in Seq(Measurement)
      BY <1>2, <2>2 DEF History
    <3>2. Len(h) + 1 \in DOMAIN Append(h, v) /\ Append(h, v)[Len(h) + 1] = v
      BY <3>1
    <3>3. QED BY <2>2, <3>2
  <2>3. QED BY <2>1, <2>2
<1>6. ASSUME NEW w, h # NoHistory, NEW k \in DOMAIN h, h[k] = w
      PROVE  \E j \in DOMAIN next : next[j] = w
  <2>1. h \in Seq(Measurement)
    BY <1>2, <1>6 DEF History
  <2>2. k \in DOMAIN Append(h, v) /\ Append(h, v)[k] = h[k]
    BY <1>6, <2>1
  <2>3. QED BY <1>6, <2>2
<1> HIDE DEF next
<1>7. Stored(name, v)'
  BY <1>1, <1>4, <1>5 DEF Stored
<1>8. ASSUME NEW n \in ConditionNames, NEW w, Stored(n, w) PROVE Stored(n, w)'
  <2>1. CASE n = name
    BY <1>1, <1>4, <1>6, <1>8, <2>1 DEF Stored, h
  <2>2. CASE n # name
    BY <1>1, <1>8, <2>2 DEF Stored, TypeOK
  <2>3. QED BY <2>1, <2>2
<1>9. QED BY <1>7, <1>8 DEF Kept

-----------------------------------------------------------------------------
(* Steps.                                                                  *)

\* What every step but a sync does.
Onward ==
  /\ UNCHANGED <<spec, syncs, conditions>>
  /\ \A m \in Monitors : at[m] <= at'[m] /\ (monitor[m] # "absent" => monitor'[m] # "absent")
  /\ Kept

\* A monitor that does not move is as it was.
LEMMA OtherMonitors ==
  ASSUME Inv, Onward, NEW n \in Monitors,
         UNCHANGED <<monitor[n], at[n], first[n], verdict[n]>>
  PROVE  MonitorInv(n)'
<1>1. TypeOK /\ MonitorInv(n) /\ conditions'[n] = conditions[n] /\ Kept
  BY DEF Inv, Onward
<1>2. /\ first[n] # <<>> => Evidence(n, first[n][1])'
      /\ verdict[n] # NoFailure => Unspecified(n, verdict[n])' \/ Evidence(n, verdict[n])'
  BY <1>1, EvidenceStays DEF MonitorInv, Onward, Unspecified
<1>3. QED
  BY <1>1, <1>2 DEF MonitorInv, Onward, ConditionsOf, Unspecified, Evidence, Met, Meaning, Shown,
                    Stored

\* Nor is a poller that does not.
LEMMA OtherPollers ==
  ASSUME Inv, TypeOK', Onward, NEW p \in pollers
  PROVE  PollerInv(p)'
<1>1. TypeOK /\ PollerInv(p) /\ Kept /\ p.monitor \in Monitors /\ p.index \in Nat /\ p.name \in Nat
  BY DEF Inv, TypeOK, Poller, Onward
<1>2. p.failure # NoFailure => Evidence(p.monitor, p.failure)'
  BY <1>1, EvidenceStays DEF PollerInv, Onward
<1>3. p.index \in 1 .. at'[p.monitor]
  <2>1. at[p.monitor] \in Nat /\ at'[p.monitor] \in Nat
    BY <1>1 DEF TypeOK
  <2>2. QED BY <1>1, <2>1 DEF PollerInv, Onward
<1>4. QED BY <1>1, <1>2, <1>3 DEF PollerInv, Onward

\* Nor is the cause of a failure, unless a result is written.
LEMMA OtherCauses ==
  ASSUME Inv, Onward, NEW e \in Experiments, cause'[e] = cause[e]
  PROVE  CauseInv(e)'
<1>1. TypeOK /\ CauseInv(e) /\ Kept
  BY DEF Inv, Onward
<1> SUFFICES ASSUME cause[e] # NoFailure, ~(cause[e] = InvalidConfig /\ spec[e] = NoSpec)
             PROVE  /\ cause[e] \in Failure
                    /\ \E m \in Monitors :
                         m[1] = e /\ monitor'[m] # "absent" /\ Met(m, cause[e])'
  BY DEF CauseInv, Met, Meaning, Onward
<1>2. PICK m \in Monitors : m[1] = e /\ monitor[m] # "absent" /\ Met(m, cause[e])
  BY <1>1 DEF CauseInv
<1>3. Met(m, cause[e])'
  BY <1>1, <1>2, EvidenceStays DEF Onward
<1>4. QED BY <1>1, <1>2, <1>3 DEF Onward, CauseInv

\* The steps of monitors go on.
LEMMA MonitorOnward ==
  ASSUME Inv, NEW m \in Monitors,
         \/ StartPoller(m) \/ BeginSelect(m) \/ Cancelled(m) \/ FirstFailure(m)
         \/ ReadExperiment(m) \/ WriteResult(m) \/ Conflict(m) \/ ProduceReport(m)
         \/ DurationElapses(m)
  PROVE  /\ Onward
         /\ \A n \in Monitors \ {m} : UNCHANGED <<monitor[n], at[n], first[n], verdict[n]>>
<1>0. TypeOK
  BY DEF Inv
<1> USE <1>0 DEF TypeOK, api, Goto, Return, Onward
<1>1. CASE StartPoller(m)
  <2>1. UNCHANGED <<monitor, cancelled, verdict, got>> \/ Return(m)
    BY <1>1 DEF StartPoller
  <2>2. /\ UNCHANGED <<spec, syncs, conditions, histories, first>>
        /\ at' = [at EXCEPT ![m] = @ + 1]
    BY <1>1 DEF StartPoller
  <2>3. QED BY <2>1, <2>2, KeptAsIs
<1>2. CASE BeginSelect(m) BY <1>2, KeptAsIs DEF BeginSelect
<1>3. CASE Cancelled(m) BY <1>3, KeptAsIs DEF Cancelled
<1>4. CASE FirstFailure(m) BY <1>4, KeptAsIs DEF FirstFailure
<1>5. CASE ReadExperiment(m) BY <1>5, KeptAsIs DEF ReadExperiment
<1>6. CASE WriteResult(m) BY <1>6, KeptAsIs DEF WriteResult
<1>7. CASE Conflict(m) BY <1>7, KeptAsIs DEF Conflict
<1>8. CASE ProduceReport(m) BY <1>8, KeptAsIs DEF ProduceReport
<1>9. CASE DurationElapses(m) BY <1>9, KeptAsIs DEF DurationElapses
<1>10. QED BY <1>1, <1>2, <1>3, <1>4, <1>5, <1>6, <1>7, <1>8, <1>9

\* A monitor reports what it has evidence of.
LEMMA MonitorStep ==
  ASSUME Inv, TypeOK', Onward, NEW m \in Monitors,
         \/ StartPoller(m) \/ BeginSelect(m) \/ Cancelled(m) \/ FirstFailure(m)
         \/ ReadExperiment(m) \/ WriteResult(m) \/ Conflict(m) \/ ProduceReport(m)
         \/ DurationElapses(m)
  PROVE  MonitorInv(m)'
<1>0. TypeOK /\ MonitorInv(m) /\ Kept /\ UNCHANGED <<spec, syncs, conditions>>
  BY DEF Inv, Onward
<1>1. monitor[m] # "absent" /\ monitor'[m] # "absent"
  BY <1>0 DEF TypeOK, StartPoller, BeginSelect, Cancelled, FirstFailure, ReadExperiment,
              WriteResult, Conflict, ProduceReport, DurationElapses, Onward
<1>2. at'[m] <= Len(conditions[m])
  <2>1. at'[m] = at[m] \/ (at'[m] = at[m] + 1 /\ at[m] < Len(conditions[m]))
    <3>1. CASE StartPoller(m)
      BY <1>0, <3>1 DEF TypeOK, StartPoller
    <3>2. CASE ~StartPoller(m)
      BY <3>2 DEF BeginSelect, Cancelled, FirstFailure, ReadExperiment, WriteResult, Conflict,
                  ProduceReport, DurationElapses
    <3>3. QED BY <3>1, <3>2
  <2>2. at[m] \in Nat /\ Len(conditions[m]) \in Nat
    BY <1>0, ConditionType DEF TypeOK
  <2>3. QED BY <1>0, <2>1, <2>2 DEF MonitorInv
<1>3. first'[m] = first[m] \/ first'[m] = <<>>
  BY <1>0 DEF TypeOK, StartPoller, BeginSelect, Cancelled, FirstFailure, ReadExperiment,
              WriteResult, Conflict, ProduceReport, DurationElapses
<1>4. \/ verdict'[m] \in {verdict[m], NoFailure}
      \/ first[m] # <<>> /\ verdict'[m] = first[m][1]
  <2>1. CASE FirstFailure(m)
    <3>1. first[m] \in Seq(Failure) /\ first[m] # <<>>
      BY <1>0, <2>1 DEF TypeOK, FirstFailure
    <3>2. Head(first[m]) = first[m][1]
      BY <3>1
    <3>3. QED BY <1>0, <2>1, <3>1, <3>2 DEF TypeOK, FirstFailure
  <2>2. CASE StartPoller(m)
    BY <1>0, <2>2 DEF TypeOK, StartPoller, Return
  <2>3. QED
    BY <1>0, <2>1, <2>2 DEF TypeOK, BeginSelect, Cancelled, Return, ReadExperiment, WriteResult,
                            Conflict, ProduceReport, DurationElapses
<1>5. \A f : Evidence(m, f) => Evidence(m, f)'
  BY <1>0, EvidenceStays
<1>6. first'[m] # <<>> => Evidence(m, first[m][1])'
  <2> SUFFICES ASSUME first'[m] # <<>> PROVE Evidence(m, first[m][1])'
    OBVIOUS
  <2>1. PICK f : f = first[m][1] /\ f = first'[m][1]
    BY <1>3
  <2>2. Evidence(m, f)'
    BY <1>0, <1>3, <1>5, <2>1 DEF MonitorInv
  <2>3. QED BY <2>1, <2>2 DEF Evidence, Met, Shown, Stored
<1>7. verdict'[m] # NoFailure => Unspecified(m, verdict[m])' \/ Evidence(m, verdict[m])'
  <2> SUFFICES ASSUME verdict'[m] # NoFailure
               PROVE  Unspecified(m, verdict[m])' \/ Evidence(m, verdict[m])'
    OBVIOUS
  <2>1. PICK f : f = verdict'[m]
    OBVIOUS
  <2>2. Unspecified(m, f) \/ Evidence(m, f)
    BY <1>0, <1>4, <2>1 DEF MonitorInv
  <2>3. Unspecified(m, f)' \/ Evidence(m, f)'
    BY <1>0, <1>5, <2>2 DEF Unspecified
  <2>4. QED BY <2>1, <2>3 DEF Unspecified, Evidence, Met, Shown, Stored
<1>8. QED BY <1>0, <1>1, <1>2, <1>6, <1>7 DEF MonitorInv, ConditionsOf

\* A step of a monitor disturbs no poller, and starts at most one.
LEMMA MonitorPollers ==
  ASSUME Inv, TypeOK', Onward, NEW m \in Monitors,
         \/ StartPoller(m) \/ BeginSelect(m) \/ Cancelled(m) \/ FirstFailure(m)
         \/ ReadExperiment(m) \/ WriteResult(m) \/ Conflict(m) \/ ProduceReport(m)
         \/ DurationElapses(m),
         NEW p \in pollers'
  PROVE  PollerInv(p)'
<1>1. CASE p \in pollers
  BY <1>1, OtherPollers
<1>2. CASE p \notin pollers
  <2>1. /\ StartPoller(m)
        /\ p = [monitor |-> m, index |-> at[m] + 1, pc |-> "new", name |-> 0, failure |-> NoFailure]
    BY <1>2 DEF StartPoller, BeginSelect, Cancelled, FirstFailure, ReadExperiment, WriteResult,
                Conflict, ProduceReport, DurationElapses, Return
  <2>2. p.monitor = m /\ p.index = at[m] + 1 /\ p.pc = "new" /\ p.failure = NoFailure
    BY <2>1
  <2>3. monitor'[m] # "absent"
    BY <2>1 DEF StartPoller, Onward
  <2>4. at[m] \in Nat /\ at'[m] = at[m] + 1
    BY <2>1 DEF StartPoller, Inv, TypeOK
  <2>5. QED BY <2>2, <2>3, <2>4 DEF PollerInv
<1>3. QED BY <1>1, <1>2

\* What an experiment fails on was a condition of one of its monitors.
LEMMA MonitorCauses ==
  ASSUME Inv, Onward, NEW m \in Monitors,
         \/ StartPoller(m) \/ BeginSelect(m) \/ Cancelled(m) \/ FirstFailure(m)
         \/ ReadExperiment(m) \/ WriteResult(m) \/ Conflict(m) \/ ProduceReport(m)
         \/ DurationElapses(m),
         NEW e \in Experiments
  PROVE  CauseInv(e)'
<1>0. TypeOK /\ MonitorInv(m)
  BY DEF Inv
<1>1. CASE cause'[e] = cause[e]
  BY <1>1, OtherCauses
<1>2. CASE cause'[e] # cause[e]
  <2>1. WriteResult(m)
    BY <1>2 DEF StartPoller, BeginSelect, Cancelled, FirstFailure, ReadExperiment, Conflict,
                ProduceReport, DurationElapses, api
  <2>2. m[1] = e /\ verdict[m] # NoFailure /\ cause'[e] = verdict[m] /\ monitor[m] # "absent"
    BY <1>0, <1>2, <2>1 DEF WriteResult, TypeOK
  <2>3. PICK f : f = verdict[m]
    OBVIOUS
  <2>4. CASE Unspecified(m, f)
    BY <2>2, <2>3, <2>4 DEF CauseInv, Unspecified, Onward
  <2>5. CASE ~Unspecified(m, f)
    <3>1. Evidence(m, f)
      BY <1>0, <2>2, <2>3, <2>5 DEF MonitorInv
    <3>2. f \in Failure /\ Met(m, f)'
      BY <3>1, MetStays DEF Evidence, Onward
    <3>3. monitor'[m] # "absent" /\ cause'[e] = f
      BY <2>2, <2>3 DEF Onward
    <3>4. Met(m, cause[e])'
      BY <3>2, <3>3 DEF Met
    <3>5. QED BY <2>2, <3>2, <3>3, <3>4 DEF CauseInv
  <2>6. QED BY <2>4, <2>5
<1>3. QED BY <1>1, <1>2

\* A poller finds what its own condition means, and stores what it finds under the name of
\* a condition of its experiment.
LEMMA PollerStep ==
  ASSUME Inv, TypeOK', NEW p \in pollers, PollerNext(p)
  PROVE  Inv'
<1>0. TypeOK /\ p \in Poller /\ PollerInv(p) /\ p.monitor \in Monitors
  BY DEF Inv, TypeOK, Poller
<1> DEFINE m == p.monitor
<1>1. /\ at[m] \in Nat /\ at[m] <= Len(conditions[m]) /\ p.index \in DOMAIN conditions[m]
      /\ at[m] \in DOMAIN conditions[m]
  <2>1. at[m] \in Nat /\ Len(conditions[m]) \in Nat /\ at[m] <= Len(conditions[m])
    BY <1>0, ConditionType DEF TypeOK, Inv, MonitorInv
  <2>2. QED BY <1>0, <2>1, ConditionType DEF PollerInv
<1>2. UNCHANGED <<spec, syncs, conditions, at, monitor, verdict, cause>>
  BY DEF PollerNext, BeginPolling, TakeValue, SubscriptionCloses, Unsubscribe, Send,
         PollerCancelled, Polls, api, calls
<1>3. ASSUME Kept, \A q \in pollers' \ pollers : PollerInv(q)',
             \A n \in Monitors : first'[n] = first[n]
      PROVE  Inv'
  <2>1. Onward
    BY <1>0, <1>2, <1>3 DEF Onward, TypeOK
  <2>2. \A q \in pollers' : PollerInv(q)'
    BY <1>3, <2>1, OtherPollers
  <2>3. \A n \in Monitors : MonitorInv(n)'
    BY <1>2, <1>3, <2>1, OtherMonitors
  <2>4. \A e \in Experiments : CauseInv(e)'
    BY <1>2, <2>1, OtherCauses
  <2>5. QED BY <2>2, <2>3, <2>4 DEF Inv
<1>4. CASE BeginPolling(p)
  <2>0. PICK q : q = [p EXCEPT !.pc = "polling", !.name = at[m]]
    OBVIOUS
  <2>1. pollers' = (pollers \ {p}) \cup {q} /\ histories' = histories /\ first' = first
    BY <1>4, <2>0 DEF BeginPolling, Becomes, Polls, calls
  <2>2. q.monitor = m /\ q.index = p.index /\ q.pc = "polling" /\ q.name = at[m]
        /\ q.failure = p.failure
    BY <1>0, <2>0 DEF Poller
  <2>3. p.failure # NoFailure => Evidence(m, p.failure)'
    BY <1>0, <1>2, <2>1, KeptAsIs, EvidenceStays DEF PollerInv
  <2>4. PollerInv(q)'
    BY <1>0, <1>1, <1>2, <2>2, <2>3 DEF PollerInv
  <2>5. QED BY <1>3, <2>1, <2>4, KeptAsIs
<1>5. CASE TakeValue(p)
  <2>1. PICK v \in Measurement : Poll(p, v)
    BY <1>5 DEF TakeValue
  <2> DEFINE c == conditions[m][p.index]
  <2>0. PICK name : name = conditions[m][p.name].name
    OBVIOUS
  <2>2. p.pc = "polling" /\ p.name \in DOMAIN conditions[m]
    BY <1>0, <1>5 DEF TakeValue, PollerInv
  <2>3. c \in Condition /\ name \in ConditionNames
    BY <1>0, <1>1, <2>0, <2>2, ConditionType DEF Condition
  <2>4. StoreQueryValue(name, v)
    BY <2>0, <2>1 DEF Poll, Finds
  <2>5. Kept /\ Stored(name, v)'
    BY <1>0, <2>3, <2>4, StoringKeeps
  <2>6. first' = first
    BY <1>5 DEF TakeValue, Polls, calls
  <2>7. CASE pollers' = pollers
    BY <1>3, <2>5, <2>6, <2>7
  <2>8. CASE pollers' # pollers
    <3>0. PICK f : f = FailureOf(c, v)
      OBVIOUS
    <3>00. PICK q : q = [p EXCEPT !.pc = "unsubscribing", !.name = 0, !.failure = f]
      OBVIOUS
    <3>1. pollers' = (pollers \ {p}) \cup {q}
      BY <2>1, <2>8, <3>0, <3>00 DEF Poll, Finds, Becomes, Of
    <3>2. v.query = c.query /\ ExceededThreshold(v.value, c.threshold, DefaultOperator(c.operator))
      BY <2>1, <2>8 DEF Poll, Of
    <3>3. f \in Failure /\ f.measured = v /\ Meaning(c, f)
      BY <2>3, <3>2, <3>0, ExceededIsMet
    <3>4. q.monitor = m /\ q.index = p.index /\ q.pc = "unsubscribing" /\ q.failure = f
      BY <1>0, <3>00 DEF Poller
    <3>5. Met(m, f)'
      BY <1>1, <1>2, <3>3 DEF Met, Meaning, MeetsByDefault, Meets
    <3>6. Shown(m, f)'
      BY <1>2, <2>0, <2>2, <2>5, <3>3 DEF Shown, Stored
    <3>7. PollerInv(q)'
      BY <1>0, <1>2, <2>2, <3>3, <3>4, <3>5, <3>6 DEF PollerInv, Evidence
    <3>8. QED BY <1>3, <2>5, <2>6, <3>1, <3>7
  <2>9. QED BY <2>7, <2>8
<1>6. CASE Send(p)
  <2>1. /\ p.pc = "found" /\ first' = [first EXCEPT ![m] = <<p.failure>>]
        /\ pollers' = pollers \ {p} /\ histories' = histories
    BY <1>6 DEF Send
  <2>2. Onward
    BY <1>0, <1>2, <2>1, KeptAsIs DEF Onward, TypeOK
  <2>3. first'[m] = <<p.failure>> /\ first'[m][1] = p.failure
    BY <1>0, <2>1 DEF TypeOK
  <2>4. Evidence(m, p.failure)'
    BY <1>0, <2>1, <2>2, EvidenceStays DEF PollerInv, Onward
  <2>5. MonitorInv(m)
    BY <1>0 DEF Inv
  <2>6. verdict[m] # NoFailure => Unspecified(m, verdict[m])' \/ Evidence(m, verdict[m])'
    BY <1>0, <1>2, <2>2, <2>5, EvidenceStays DEF MonitorInv, Onward, Unspecified
  <2>7. monitor[m] # "absent"
    BY <1>0 DEF PollerInv
  <2>8. Evidence(m, first[m][1])'
    BY <2>3, <2>4 DEF Evidence, Met, Shown, Stored
  <2>9. MonitorInv(m)'
    BY <1>2, <2>5, <2>6, <2>7, <2>8 DEF MonitorInv, ConditionsOf
  <2>10. \A n \in Monitors : MonitorInv(n)'
    <3>1. \A n \in Monitors \ {m} : first'[n] = first[n]
      BY <1>0, <2>1 DEF TypeOK
    <3>2. QED BY <1>2, <2>2, <2>9, <3>1, OtherMonitors
  <2>11. \A q \in pollers' : PollerInv(q)'
    BY <2>1, <2>2, OtherPollers
  <2>12. \A e \in Experiments : CauseInv(e)'
    BY <1>2, <2>2, OtherCauses
  <2>13. QED BY <2>10, <2>11, <2>12 DEF Inv
<1>7. CASE PollerCancelled(p) \/ SubscriptionCloses(p) \/ Unsubscribe(p)
  <2>1. histories' = histories /\ first' = first
    BY <1>7 DEF PollerCancelled, SubscriptionCloses, Unsubscribe, Polls, calls
  <2>2. \/ pollers' = pollers \ {p}
        \/ \E q : /\ pollers' = (pollers \ {p}) \cup {q}
                  /\ q.monitor = m /\ q.index = p.index /\ q.failure = p.failure
                  /\ q.pc # "polling" /\ (q.pc = "found" => p.failure # NoFailure)
    <3>1. PICK q1, q2, q3 : /\ q1 = [p EXCEPT !.pc = "unsubscribing", !.name = 0]
                            /\ q2 = [p EXCEPT !.pc = "closed", !.name = 0]
                            /\ q3 = [p EXCEPT !.pc = "found"]
      OBVIOUS
    <3>2. \/ pollers' = pollers \ {p}
          \/ \E q \in {q1, q2} : pollers' = (pollers \ {p}) \cup {q}
          \/ pollers' = (pollers \ {p}) \cup {q3} /\ p.failure # NoFailure
      BY <1>7, <3>1 DEF PollerCancelled, StopPolling, SubscriptionCloses, Unsubscribe, Becomes
    <3>3. /\ \A q \in {q1, q2, q3} :
               q.monitor = m /\ q.index = p.index /\ q.failure = p.failure
          /\ q1.pc = "unsubscribing" /\ q2.pc = "closed" /\ q3.pc = "found"
      BY <1>0, <3>1 DEF Poller
    <3>4. QED BY <3>2, <3>3
  <2>3. p.failure # NoFailure => Evidence(m, p.failure)'
    BY <1>0, <1>2, <2>1, KeptAsIs, EvidenceStays DEF PollerInv
  <2>4. ASSUME NEW q, q.monitor = m, q.index = p.index, q.failure = p.failure,
               q.pc # "polling", q.pc = "found" => p.failure # NoFailure
        PROVE  PollerInv(q)'
    BY <1>0, <1>2, <2>3, <2>4 DEF PollerInv
  <2>5. \A q \in pollers' \ pollers : PollerInv(q)'
    BY <2>2, <2>4
  <2>6. QED BY <1>3, <2>1, <2>5, KeptAsIs
<1>8. QED BY <1>4, <1>5, <1>6, <1>7 DEF PollerNext

\* A sync gives conditions to monitors that have nothing else.
LEMMA SyncStep ==
  ASSUME Inv, SyncChecker PROVE Inv'
<1>0. TypeOK /\ TypeOK'
  BY SyncType DEF Inv
<1>1. /\ UNCHANGED <<spec, at, first, pollers, histories, cause>>
      /\ syncs' = syncs + 1 /\ syncs \in Nat
  BY <1>0, BoundsAssumption DEF SyncChecker, api, TypeOK
<1>2. Kept
  BY <1>1, KeptAsIs
<1>3. ASSUME NEW n \in Monitors, monitor[n] # "absent"
      PROVE  /\ monitor'[n] # "absent" /\ conditions'[n] = conditions[n] /\ n[2] <= syncs
             /\ verdict'[n] = verdict[n]
  <2>1. MonitorInv(n) /\ n[2] \in Int
    BY <1>3 DEF Inv, Monitors
  <2>2. ~(n[2] > syncs)
    BY <1>3, <2>1 DEF MonitorInv
  <2>3. n[2] <= syncs
    BY <1>1, <2>1, <2>2
  <2>4. n[2] # syncs + 1
    BY <1>1, <2>1, <2>3
  <2>5. UNCHANGED <<conditions[n], monitor[n], verdict[n]>>
    BY <1>0, <2>4 DEF SyncChecker, TypeOK
  <2>6. QED BY <1>3, <2>3, <2>5
<1>4. ASSUME NEW n \in Monitors PROVE MonitorInv(n)'
  <2>1. MonitorInv(n) /\ n[2] \in Int
    BY DEF Inv, Monitors
  <2>2. CASE monitor[n] # "absent"
    <3>1. /\ monitor'[n] # "absent" /\ conditions'[n] = conditions[n] /\ n[2] <= syncs
          /\ conditions[n] = ConditionsOf(n[1]) /\ verdict'[n] = verdict[n]
      BY <1>3, <2>1, <2>2 DEF MonitorInv
    <3>2. ~(n[2] > syncs')
      BY <1>1, <2>1, <3>1
    <3>3. first[n] # <<>> => Evidence(n, first[n][1])'
      BY <1>0, <1>1, <1>2, <2>1, <3>1, EvidenceStays DEF MonitorInv
    <3>4. verdict[n] # NoFailure => Unspecified(n, verdict[n])' \/ Evidence(n, verdict[n])'
      <4>1. PICK f : f = verdict[n]
        OBVIOUS
      <4>2. Evidence(n, f) => Evidence(n, f)'
        BY <1>0, <1>2, <3>1, EvidenceStays
      <4>3. Unspecified(n, f) => Unspecified(n, f)'
        BY <1>1 DEF Unspecified
      <4>4. f # NoFailure => Unspecified(n, f)' \/ Evidence(n, f)'
        BY <2>1, <4>1, <4>2, <4>3 DEF MonitorInv
      <4>5. QED BY <3>1, <4>1, <4>4 DEF Unspecified, Evidence, Met, Shown, Stored
    <3>5. QED BY <1>1, <2>1, <3>1, <3>2, <3>3, <3>4 DEF MonitorInv, ConditionsOf
  <2>3. CASE monitor[n] = "absent"
    <3>1. at'[n] = 0 /\ first'[n] = <<>>
      BY <1>1, <2>1, <2>3 DEF MonitorInv
    <3>2. conditions'[n] \in Seq(Condition) /\ Len(conditions'[n]) \in Nat
      BY <1>0 DEF TypeOK
    <3>3. \/ UNCHANGED <<monitor[n], verdict[n]>> /\ verdict[n] = NoFailure
          \/ /\ n[2] = syncs' /\ conditions'[n] = ConditionsOf(n[1])
             /\ monitor'[n] # "absent"
             /\ verdict'[n] # NoFailure => verdict'[n] = InvalidConfig /\ spec[n[1]] = NoSpec
      BY <1>0, <1>1, <2>1, <2>3 DEF SyncChecker, TypeOK, MonitorInv
    <3>4. n[2] > syncs' => monitor'[n] = "absent"
      BY <1>1, <2>3, <3>3
    <3>5. at'[n] <= Len(conditions'[n])
      BY <3>1, <3>2
    <3>6. monitor'[n] = "absent" => verdict'[n] = NoFailure
      BY <3>3
    <3>7. monitor'[n] # "absent" => conditions'[n] = ConditionsOf(n[1])'
      BY <1>1, <2>3, <3>3 DEF ConditionsOf
    <3>8. verdict'[n] # NoFailure => Unspecified(n, verdict[n])'
      BY <1>1, <3>3 DEF Unspecified
    <3>9. QED BY <3>1, <3>4, <3>5, <3>6, <3>7, <3>8 DEF MonitorInv
  <2>4. QED BY <2>2, <2>3
<1>5. ASSUME NEW q \in pollers' PROVE PollerInv(q)'
  <2>1. q \in pollers /\ PollerInv(q) /\ q.monitor \in Monitors
    BY <1>0, <1>1 DEF Inv, TypeOK, Poller
  <2>2. monitor'[q.monitor] # "absent" /\ conditions'[q.monitor] = conditions[q.monitor]
    BY <1>3, <2>1 DEF PollerInv
  <2>3. q.failure # NoFailure => Evidence(q.monitor, q.failure)'
    BY <1>0, <1>2, <2>1, <2>2, EvidenceStays DEF PollerInv
  <2>4. QED BY <1>1, <2>1, <2>2, <2>3 DEF PollerInv
<1>6. ASSUME NEW e \in Experiments PROVE CauseInv(e)'
  <2> SUFFICES ASSUME cause[e] # NoFailure, ~(cause[e] = InvalidConfig /\ spec[e] = NoSpec)
               PROVE  /\ cause[e] \in Failure
                      /\ \E m \in Monitors :
                           m[1] = e /\ monitor'[m] # "absent" /\ Met(m, cause[e])'
    BY <1>1 DEF CauseInv
  <2>1. PICK m \in Monitors : m[1] = e /\ monitor[m] # "absent" /\ Met(m, cause[e])
    BY DEF Inv, CauseInv
  <2>2. PICK f : f = cause[e] /\ f = cause'[e]
    BY <1>1
  <2>3. monitor'[m] # "absent" /\ conditions'[m] = conditions[m]
    BY <1>3, <2>1
  <2>4. Met(m, f)'
    BY <2>1, <2>2, <2>3, MetStays
  <2>5. cause[e] \in Failure
    BY DEF Inv, CauseInv
  <2>6. QED BY <2>1, <2>2, <2>3, <2>4, <2>5 DEF Met
<1>7. QED BY <1>0, <1>4, <1>5, <1>6 DEF Inv

\* A panic leaves of the monitors what is in the API.
LEMMA PanicStep ==
  ASSUME Inv, NEW p \in Monitors, Panic(p) PROVE Inv'
<1>1. TypeOK'
  <2>1. <<>> \in Seq(Failure) /\ Len(<<>>) <= 1
    OBVIOUS
  <2>2. QED BY <2>1 DEF Inv, TypeOK, Panic, api, History
<1>2. /\ UNCHANGED <<spec, syncs, conditions, at, cause>> /\ pollers' = {}
      /\ \A m \in Monitors : /\ monitor'[m] = "absent" <=> monitor[m] = "absent"
                             /\ first'[m] = <<>> /\ verdict'[m] = NoFailure
  BY DEF Panic, api
<1>3. ASSUME NEW m \in Monitors PROVE MonitorInv(m)'
  BY <1>2 DEF Inv, MonitorInv, ConditionsOf
<1>4. ASSUME NEW e \in Experiments PROVE CauseInv(e)'
  <2>1. PICK f : f = cause[e] /\ f = cause'[e]
    BY <1>2
  <2>2. \A m \in Monitors : Met(m, f) => Met(m, f)'
    BY <1>2, MetStays
  <2>3. \A m \in Monitors : Met(m, f)' => Met(m, cause[e])'
    BY <2>1 DEF Met
  <2>4. CauseInv(e)
    BY DEF Inv
  <2>5. \A m \in Monitors : Met(m, cause[e]) => Met(m, f)
    BY <2>1
  <2>6. QED BY <1>2, <2>1, <2>2, <2>3, <2>4, <2>5 DEF CauseInv
<1>5. QED BY <1>1, <1>2, <1>3, <1>4 DEF Inv

\* No monitor has begun.
LEMMA InitInv == Init => Inv
<1> SUFFICES ASSUME Init PROVE Inv
  OBVIOUS
<1>1. TypeOK
  BY InitType
<1>2. \A m \in Monitors : MonitorInv(m)
  BY DEF Init, MonitorInv
<1>3. QED BY <1>1, <1>2 DEF Init, Inv, CauseInv

\* Every step keeps the invariant.
LEMMA InvInductive == Inv /\ [Next]_vars => Inv'
<1> SUFFICES ASSUME Inv, [Next]_vars PROVE Inv'
  OBVIOUS
<1>0. TypeOK
  BY DEF Inv
<1>1. CASE UNCHANGED vars
  <2> USE <1>1 DEF vars, api, calls
  <2>1. TypeOK'
    BY <1>0 DEF TypeOK
  <2>2. Onward
    BY <1>0, KeptAsIs DEF Onward, TypeOK
  <2>3. \A q \in pollers' : PollerInv(q)'
    BY <2>1, <2>2, OtherPollers
  <2>4. \A n \in Monitors : MonitorInv(n)'
    BY <2>2, OtherMonitors
  <2>5. \A e \in Experiments : CauseInv(e)'
    BY <2>2, OtherCauses
  <2>6. QED BY <2>1, <2>3, <2>4, <2>5 DEF Inv
<1>2. ASSUME NEW m \in Monitors,
             \/ StartPoller(m) \/ BeginSelect(m) \/ Cancelled(m) \/ FirstFailure(m)
             \/ ReadExperiment(m) \/ WriteResult(m) \/ Conflict(m) \/ ProduceReport(m)
             \/ DurationElapses(m)
      PROVE  Inv'
  <2>1. TypeOK'
    BY <1>0, <1>2, MonitorType
  <2>2. Onward /\ \A n \in Monitors \ {m} : UNCHANGED <<monitor[n], at[n], first[n], verdict[n]>>
    BY <1>2, MonitorOnward
  <2>3. \A n \in Monitors : MonitorInv(n)'
    BY <1>2, <2>1, <2>2, OtherMonitors, MonitorStep
  <2>4. \A q \in pollers' : PollerInv(q)'
    BY <1>2, <2>1, <2>2, MonitorPollers
  <2>5. \A e \in Experiments : CauseInv(e)'
    BY <1>2, <2>2, MonitorCauses
  <2>6. QED BY <2>1, <2>3, <2>4, <2>5 DEF Inv
<1>3. ASSUME NEW p \in pollers, PollerNext(p)
      PROVE  Inv'
  BY <1>3, PollerType, PollerStep
<1>4. CASE SyncChecker
  BY <1>4, SyncStep
<1>5. ASSUME NEW m \in Monitors, Panic(m) PROVE Inv'
  BY <1>5, PanicStep
<1>6. QED BY <1>1, <1>2, <1>3, <1>4, <1>5 DEF Next, Progress, PollerNext

\* The invariant holds throughout.
LEMMA Invariance == Spec => []Inv
BY InitInv, InvInductive, PTL DEF Spec

-----------------------------------------------------------------------------
(* What the results of experiments are worth.                              *)

\* Every variable keeps its type; the channel of a monitor never holds more than one
\* failure (MonitorExperiment).
THEOREM PollingTypeCorrect == Spec => []TypeOK
<1>1. Inv => TypeOK
  BY DEF Inv
<1>2. QED BY <1>1, Invariance, PTL

\* An experiment fails on a condition it was monitored for, as a whole
\* (MonitorExperiment, reportResult).
THEOREM FailuresAreOfConditions == Spec => []FailuresAreMet
<1>1. Inv => FailuresAreMet
  BY SentinelsAssumption DEF Inv, CauseInv, Met, Meaning, FailuresAreMet
<1>2. QED BY <1>1, Invariance, PTL

\* The report of a failure shows the measurement that caused it (produceReport).
THEOREM ReportsAreConclusive == Spec => ReportsShowFailure
<1> DEFINE Shows(m) ==
      WritesReport(m) /\ verdict[m] \notin {NoFailure, InvalidConfig} =>
        \E i \in DOMAIN reports'[m[1]] :
          /\ reports'[m[1]][i] # NoHistory
          /\ \E k \in DOMAIN reports'[m[1]][i] : reports'[m[1]][i][k] = verdict[m].measured
<1>1. ASSUME Inv, [Next]_vars, NEW m \in Monitors PROVE Shows(m)
  <2> SUFFICES ASSUME WritesReport(m), verdict[m] \notin {NoFailure, InvalidConfig}
               PROVE  \E i \in DOMAIN reports'[m[1]] :
                        /\ reports'[m[1]][i] # NoHistory
                        /\ \E k \in DOMAIN reports'[m[1]][i] :
                             reports'[m[1]][i][k] = verdict[m].measured
    OBVIOUS
  <2>0. TypeOK /\ MonitorInv(m) /\ m[1] \in Experiments
    BY <1>1, ConditionType DEF Inv
  <2>1. ASSUME NEW n \in Monitors, n # m PROVE ~ProduceReport(n)
    <3> SUFFICES ASSUME ProduceReport(n) PROVE FALSE
      OBVIOUS
    <3>1. monitor'[m] = monitor[m]
      BY <2>0, <2>1 DEF ProduceReport, Return, Goto, TypeOK
    <3>2. QED BY <3>1 DEF WritesReport
  <2>2. ProduceReport(m)
    BY <1>1, <2>1 DEF WritesReport, Next, Progress, SyncChecker, StartPoller, BeginSelect,
                      Cancelled, FirstFailure, ReadExperiment, WriteResult, Conflict, DurationElapses,
                      Panic, BeginPolling, TakeValue, SubscriptionCloses, Unsubscribe, Send,
                      PollerCancelled, Polls, api, vars
  <2>3. reports'[m[1]] =
          [i \in DOMAIN ConditionsOf(m[1]) |-> histories[ConditionsOf(m[1])[i].name]]
    BY <2>0, <2>2 DEF ProduceReport, TypeOK, WritesReport
  <2>4. conditions[m] = ConditionsOf(m[1]) /\ Shown(m, verdict[m])
    BY <2>0 DEF MonitorInv, WritesReport, Evidence, Unspecified
  <2>5. QED BY <2>3, <2>4 DEF Shown, Stored
<1>2. Inv /\ [Next]_vars => [\A m \in Monitors : Shows(m)]_vars
  BY <1>1
<1>3. QED BY <1>2, Invariance, PTL DEF Spec, ReportsShowFailure

-----------------------------------------------------------------------------
(* Every condition has its poller.                                         *)

IsPolled(m, i) ==
  \E p \in pollers : /\ p.monitor = m /\ p.index = i
                     /\ p.pc = "unsubscribing" => p.failure # NoFailure

\* As far as its loop has come, each condition of m that has a query has a poller, until a
\* failure waits for m.
PolledInv(m) ==
  /\ monitor[m] \in {"starting", "selecting"} /\ m \notin cancelled /\ first[m] = <<>> =>
       \A i \in 1 .. at[m] : conditions[m][i].query # NoQuery => IsPolled(m, i)
  /\ monitor[m] = "selecting" => at[m] = Len(conditions[m])

\* A monitor that stays as it is keeps its pollers, if they stay or go on.
LEMMA StillPolled ==
  ASSUME NEW m \in Monitors, PolledInv(m),
         UNCHANGED <<conditions[m], at[m]>>,
         monitor'[m] \in {"starting", "selecting"} => monitor'[m] = monitor[m],
         m \in cancelled => m \in cancelled',
         m \notin cancelled' /\ first'[m] = <<>> => first[m] = <<>> /\ \A i : IsPolled(m, i) => IsPolled(m, i)'
  PROVE  PolledInv(m)'
BY DEF PolledInv

\* The steps of a monitor take no poller away, and start the one that is due.
LEMMA MonitorPolls ==
  ASSUME TypeOK, NEW m \in Monitors, \A n \in Monitors : PolledInv(n),
         \/ StartPoller(m) \/ BeginSelect(m) \/ Cancelled(m) \/ FirstFailure(m)
         \/ ReadExperiment(m) \/ WriteResult(m) \/ Conflict(m) \/ ProduceReport(m)
         \/ DurationElapses(m),
         NEW n \in Monitors
  PROVE  PolledInv(n)'
<1>1. /\ UNCHANGED conditions /\ pollers \subseteq pollers' /\ cancelled \subseteq cancelled'
      /\ \A i : IsPolled(n, i) => IsPolled(n, i)'
  BY DEF StartPoller, BeginSelect, Cancelled, FirstFailure, ReadExperiment, WriteResult, Conflict,
         ProduceReport, DurationElapses, Return, IsPolled
<1>2. CASE n # m
  <2>1. UNCHANGED <<monitor[n], at[n], first[n]>>
    BY <1>2 DEF TypeOK, StartPoller, BeginSelect, Cancelled, FirstFailure, ReadExperiment, WriteResult,
                Conflict, ProduceReport, DurationElapses, Return, Goto
  <2>2. QED BY <1>1, <2>1, StillPolled
<1>3. CASE n = m /\ StartPoller(m)
  <2>1. /\ monitor[m] = "starting" /\ first' = first /\ at[m] \in Nat
        /\ at' = [at EXCEPT ![m] = @ + 1] /\ at'[m] = at[m] + 1
    BY <1>3 DEF StartPoller, TypeOK
  <2>2. CASE NextCondition(m).query = BadQuery
    <3>1. monitor'[m] = "returned"
      BY <1>3, <2>2 DEF StartPoller, Return, Goto, TypeOK
    <3>2. QED BY <1>3, <3>1 DEF PolledInv
  <2>3. CASE NextCondition(m).query # BadQuery
    <3>1. UNCHANGED <<monitor, cancelled>>
      BY <1>3, <2>3 DEF StartPoller
    <3>2. NextCondition(m).query # NoQuery =>
            \E p \in pollers' : p.monitor = m /\ p.index = at[m] + 1 /\ p.pc = "new"
      <4>1. PICK p : p = [monitor |-> m, index |-> at[m] + 1, pc |-> "new", name |-> 0,
                          failure |-> NoFailure]
        OBVIOUS
      <4>2. p.monitor = m /\ p.index = at[m] + 1 /\ p.pc = "new"
        BY <4>1
      <4>3. NextCondition(m).query # NoQuery => p \in pollers'
        BY <1>3, <2>3, <4>1 DEF StartPoller
      <4>4. QED BY <4>2, <4>3
    <3>3. ASSUME m \notin cancelled', first'[m] = <<>>, NEW i \in 1 .. at'[m],
                 conditions[m][i].query # NoQuery
          PROVE  IsPolled(m, i)'
      <4>1. CASE i = at[m] + 1
        <5>1. NextCondition(m).query # NoQuery
          BY <3>3, <4>1 DEF NextCondition
        <5>2. QED BY <3>2, <4>1, <5>1 DEF IsPolled
      <4>2. CASE i # at[m] + 1
        <5>1. i \in 1 .. at[m]
          BY <2>1, <3>3, <4>2
        <5>2. IsPolled(m, i)
          BY <2>1, <3>1, <3>3, <5>1 DEF PolledInv
        <5>3. QED BY <1>1, <1>3, <5>2
      <4>3. QED BY <4>1, <4>2
    <3>4. monitor'[m] = "starting"
      BY <2>1, <3>1
    <3>5. QED BY <1>1, <1>3, <3>3, <3>4 DEF PolledInv
  <2>4. QED BY <2>2, <2>3
<1>4. CASE n = m /\ BeginSelect(m)
  <2>1. /\ monitor[m] = "starting" /\ at[m] = Len(conditions[m])
        /\ UNCHANGED <<at, cancelled, first, conditions>>
    BY <1>4 DEF BeginSelect
  <2>2. QED BY <1>1, <1>4, <2>1 DEF PolledInv
<1>5. CASE n = m /\ ~StartPoller(m) /\ ~BeginSelect(m)
  <2>1. monitor'[m] \notin {"starting", "selecting"}
    BY <1>5 DEF TypeOK, Cancelled, FirstFailure, ReadExperiment, WriteResult, Conflict,
                ProduceReport, DurationElapses, Return, Goto
  <2>2. QED BY <1>5, <2>1 DEF PolledInv
<1>6. QED BY <1>2, <1>3, <1>4, <1>5

\* A poller goes on with the condition it has, and ends when its monitor has a failure or
\* has been cancelled.
LEMMA PollerPolls ==
  ASSUME Inv, NEW p \in pollers, \A n \in Monitors : PolledInv(n), PollerNext(p),
         NEW n \in Monitors
  PROVE  PolledInv(n)'
<1>1. /\ TypeOK /\ p \in Poller /\ p.monitor \in Monitors
      /\ UNCHANGED <<monitor, conditions, at, cancelled>>
  BY DEF Inv, TypeOK, Poller, PollerNext, BeginPolling, TakeValue, SubscriptionCloses,
         Unsubscribe, Send, PollerCancelled, Polls, calls
<1>2. CASE BeginPolling(p) \/ TakeValue(p) \/ SubscriptionCloses(p) \/ Unsubscribe(p)
  <2>1. UNCHANGED first
    BY <1>2 DEF BeginPolling, TakeValue, SubscriptionCloses, Unsubscribe, Polls, calls
  <2>2. pollers' = pollers
        \/ \E q : /\ Becomes(p, q) /\ q.monitor = p.monitor /\ q.index = p.index
                  /\ q.pc = "unsubscribing" => q.failure # NoFailure
    <3>1. CASE BeginPolling(p) \/ SubscriptionCloses(p) \/ Unsubscribe(p)
      <4>1. PICK q1, q2, q3 : /\ q1 = [p EXCEPT !.pc = "polling", !.name = at[p.monitor]]
                              /\ q2 = [p EXCEPT !.pc = "closed", !.name = 0]
                              /\ q3 = [p EXCEPT !.pc = "found"]
        OBVIOUS
      <4>2. \A q \in {q1, q2, q3} :
              q.monitor = p.monitor /\ q.index = p.index /\ q.pc # "unsubscribing"
        BY <1>1, <4>1 DEF Poller
      <4>3. Becomes(p, q1) \/ Becomes(p, q2) \/ Becomes(p, q3)
        BY <3>1, <4>1 DEF BeginPolling, SubscriptionCloses, Unsubscribe
      <4>4. QED BY <4>2, <4>3
    <3>2. CASE TakeValue(p)
      <4>1. PICK v \in Measurement : Poll(p, v)
        BY <3>2 DEF TakeValue
      <4>2. PICK q : q = [p EXCEPT !.pc = "unsubscribing", !.name = 0,
                                   !.failure = FailureOf(Of(p), v)]
        OBVIOUS
      <4>3. pollers' = pollers \/ Becomes(p, q)
        BY <4>1, <4>2 DEF Poll, Finds
      <4>4. q.monitor = p.monitor /\ q.index = p.index /\ q.failure = FailureOf(Of(p), v)
        BY <1>1, <4>2 DEF Poller
      <4>5. FailureOf(Of(p), v) # NoFailure
        <5>1. MonitorInv(p.monitor) /\ PollerInv(p) /\ at[p.monitor] \in Nat
          BY <1>1 DEF Inv, TypeOK
        <5>2. p.index \in DOMAIN conditions[p.monitor]
          BY <1>1, <5>1, ConditionType DEF MonitorInv, PollerInv
        <5>3. Of(p) \in Condition
          BY <1>1, <5>2, ConditionType DEF Of
        <5>4. FailureOf(Of(p), v) \in Failure
          BY <5>3 DEF FailureOf, Failure, Condition, DefaultOperator, Operators
        <5>5. QED BY <5>4, SentinelsAssumption
      <4>6. QED BY <4>3, <4>4, <4>5
    <3>3. QED BY <1>2, <3>1, <3>2
  <2>3. \A i : IsPolled(n, i) => IsPolled(n, i)'
    <3>1. CASE pollers' = pollers
      BY <3>1 DEF IsPolled
    <3>2. ASSUME NEW q, Becomes(p, q), q.monitor = p.monitor, q.index = p.index,
                 q.pc = "unsubscribing" => q.failure # NoFailure
          PROVE  \A i : IsPolled(n, i) => IsPolled(n, i)'
      <4>1. pollers' = (pollers \ {p}) \cup {q}
        BY <3>2 DEF Becomes
      <4>2. ASSUME NEW i, NEW r \in pollers, r.monitor = n, r.index = i,
                   r.pc = "unsubscribing" => r.failure # NoFailure
            PROVE  IsPolled(n, i)'
        <5>1. CASE r = p
          <6>1. q \in pollers' /\ q.monitor = n /\ q.index = i
            BY <3>2, <4>1, <4>2, <5>1
          <6>2. QED BY <3>2, <6>1 DEF IsPolled
        <5>2. CASE r # p
          <6>1. r \in pollers'
            BY <4>1, <4>2, <5>2
          <6>2. QED BY <4>2, <6>1 DEF IsPolled
        <5>3. QED BY <5>1, <5>2
      <4>3. QED BY <4>2 DEF IsPolled
    <3>3. CASE \E q : /\ Becomes(p, q) /\ q.monitor = p.monitor /\ q.index = p.index
                      /\ q.pc = "unsubscribing" => q.failure # NoFailure
      BY <3>2, <3>3
    <3>4. QED BY <2>2, <3>1, <3>3
  <2>4. QED BY <1>1, <2>1, <2>3, StillPolled
<1>3. CASE Send(p) \/ PollerCancelled(p)
  <2>1. pollers' = pollers \ {p}
        \/ \E q : pollers' = (pollers \ {p}) \cup {q}
    BY <1>3 DEF Send, PollerCancelled, StopPolling, Becomes
  <2>2. n # p.monitor => \A i : IsPolled(n, i) => IsPolled(n, i)'
    BY <2>1 DEF IsPolled
  <2>3. CASE Send(p)
    <3>1. first' = [first EXCEPT ![p.monitor] = <<p.failure>>] /\ first[p.monitor] = <<>>
      BY <2>3 DEF Send
    <3>2. first'[p.monitor] # <<>> /\ (n # p.monitor => first'[n] = first[n])
      BY <1>1, <3>1 DEF TypeOK
    <3>3. QED BY <1>1, <2>2, <3>2, StillPolled
  <2>4. CASE PollerCancelled(p)
    <3>1. p.monitor \in cancelled /\ UNCHANGED first
      BY <2>4 DEF PollerCancelled, StopPolling, Polls, calls
    <3>2. QED BY <1>1, <2>2, <3>1, StillPolled
  <2>5. QED BY <1>3, <2>3, <2>4
<1>4. QED BY <1>2, <1>3 DEF PollerNext

\* A sync cancels monitors and starts others, from their first condition.
LEMMA SyncPolls ==
  ASSUME Inv, SyncChecker, NEW n \in Monitors, PolledInv(n)
  PROVE  PolledInv(n)'
<1>1. /\ TypeOK /\ MonitorInv(n) /\ UNCHANGED <<at, first, pollers>> /\ cancelled \subseteq cancelled'
      /\ syncs \in Nat /\ n[2] \in Int
  BY BoundsAssumption DEF Inv, SyncChecker, TypeOK, Monitors
<1>2. CASE monitor'[n] # monitor[n] \/ conditions'[n] # conditions[n]
  <2>1. n[2] = syncs + 1 /\ monitor'[n] \in {"starting", "reading"}
    BY <1>1, <1>2 DEF SyncChecker, TypeOK
  <2>2. n[2] > syncs
    BY <1>1, <2>1
  <2>3. at'[n] = 0
    BY <1>1, <2>2 DEF MonitorInv
  <2>4. QED BY <2>1, <2>3 DEF PolledInv
<1>3. CASE UNCHANGED <<monitor[n], conditions[n]>>
  <2>1. \A i : IsPolled(n, i) => IsPolled(n, i)'
    BY <1>1 DEF IsPolled
  <2>2. QED BY <1>1, <1>3, <2>1, StillPolled
<1>4. QED BY <1>2, <1>3

\* A monitor that waits has a poller for each of its conditions that has a query, until
\* a failure waits for it or it is cancelled.
THEOREM NoConditionIsDropped == Spec => []ConditionsArePolled
<1> DEFINE AllPolled == \A m \in Monitors : PolledInv(m)
<1>1. Init => AllPolled
  BY DEF Init, PolledInv
<1>2. Inv /\ AllPolled /\ [Next]_vars => AllPolled'
  <2> SUFFICES ASSUME Inv, AllPolled, [Next]_vars, NEW n \in Monitors PROVE PolledInv(n)'
    OBVIOUS
  <2>1. TypeOK
    BY DEF Inv
  <2>2. CASE UNCHANGED vars
    BY <2>2 DEF vars, calls, PolledInv, IsPolled
  <2>3. CASE SyncChecker
    BY <2>3, SyncPolls
  <2>4. CASE \E m \in Monitors :
               \/ StartPoller(m) \/ BeginSelect(m) \/ Cancelled(m) \/ FirstFailure(m)
               \/ ReadExperiment(m) \/ WriteResult(m) \/ Conflict(m) \/ ProduceReport(m)
               \/ DurationElapses(m)
    BY <2>1, <2>4, MonitorPolls
  <2>5. CASE \E p \in pollers : PollerNext(p)
    BY <2>5, PollerPolls
  <2>6. CASE \E m \in Monitors : Panic(m)
    <3>1. monitor'[n] \notin {"starting", "selecting"}
      BY <2>1, <2>6 DEF Panic, TypeOK
    <3>2. QED BY <3>1 DEF PolledInv
  <2>7. QED BY <2>2, <2>3, <2>4, <2>5, <2>6 DEF Next, Progress, PollerNext
<1>3. Inv /\ AllPolled => ConditionsArePolled
  <2> SUFFICES ASSUME Inv, AllPolled, NEW m \in Monitors, monitor[m] = "selecting",
                      m \notin cancelled, first[m] = <<>>, NEW i \in DOMAIN conditions[m],
                      conditions[m][i].query # NoQuery
               PROVE  IsPolled(m, i)
    BY DEF ConditionsArePolled, IsPolled
  <2>1. i \in 1 .. at[m]
    BY ConditionType DEF Inv, PolledInv
  <2>2. QED BY <2>1 DEF PolledInv
<1>4. QED BY <1>1, <1>2, <1>3, Invariance, PTL DEF Spec
=============================================================================
