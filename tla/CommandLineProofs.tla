---------------------------- MODULE CommandLineProofs ----------------------------
(***************************************************************************)
(* The commands, for any number of processes, namespaces and experiments:  *)
(* types, that a deletion that reports success is complete and stays in    *)
(* its scope, that a list misses nothing, and what registers resources.    *)
(***************************************************************************)
EXTENDS CommandLine, TLAPS

-----------------------------------------------------------------------------
(* Where a command may be, and what it has yet to do there.                *)

Places(c) ==
  IF c.verb = "create" THEN {"connect", "write"}
  ELSE IF c.verb = "register" THEN {"reports", "experiments"}
  ELSE IF c.verb = "init" THEN {"namespace", "render", "apply"}
  ELSE IF ReadsOne(c) THEN {"connect", "read"}
  ELSE IF DeletesOne(c) THEN {"connect", "delete", "next"}
  ELSE IF c.verb = "delete" THEN {"namespaces", "next", "connect", "list", "delete"}
  ELSE {"namespaces", "next", "connect", "list"}

Single(c) == ReadsOne(c) \/ DeletesOne(c)

\* The namespaces a command has yet to list.
ToList(p) == todo[p] \cup (IF pc[p] \in {"connect", "list"} THEN {current[p]} ELSE {})

\* The experiments it will still come to.
Pending(p) ==
  {x \in Experiments :
     \/ pc[p] = "namespaces"
     \/ ~Single(cmd[p]) /\ pc[p] # "idle" /\ ToList(p) \cap {x[1], NoNamespace} # {}
     \/ DeletesOne(cmd[p]) /\ pc[p] = "connect"
     \/ pc[p] = "delete" /\ x[1] = current[p] /\ x[2] \in names[p]
     \/ ReadsOne(cmd[p]) /\ pc[p] \in {"connect", "read"}}

Underway(p) == cmd[p].verb \in {"delete", "get", "stats"} /\ (pc[p] # "idle" \/ exit[p] = "ok")

\* Of the old experiments in its scope none is forgotten.
Covered(p) == Underway(p) => Old(p) \subseteq output[p] \cup Pending(p)

\* A command that deletes is in a namespace of its scope, and prints nothing.
Placed(p) ==
  /\ pc[p] # "idle" => pc[p] \in Places(cmd[p]) /\ exit[p] = "none"
  /\ pc[p] = "namespaces" => cmd[p].wide
  /\ cmd[p].verb = "delete" => output[p] = {}
  /\ pc[p] # "idle" /\ Single(cmd[p]) =>
       /\ current[p] = cmd[p].namespace
       /\ pc[p] = "next" => todo[p] = {}
       /\ DeletesOne(cmd[p]) => names[p] \subseteq {cmd[p].name}
       /\ pc[p] = "connect" /\ DeletesOne(cmd[p]) => names[p] = {cmd[p].name}
  /\ cmd[p].verb = "delete" /\ ~Single(cmd[p]) /\ pc[p] \notin {"idle", "namespaces"} =>
       /\ todo[p] \subseteq Namespaces
       /\ pc[p] # "next" => current[p] \in Namespaces
       /\ ~cmd[p].wide =>
            /\ cmd[p].all
            /\ todo[p] \subseteq {cmd[p].namespace}
            /\ pc[p] # "next" => current[p] = cmd[p].namespace

\* What the steps of "register" and "init" have done so far.
Prepared(p) ==
  /\ pc[p] = "experiments" => "reports" \in crds
  /\ cmd[p].verb = "register" /\ exit[p] = "ok" => crds = Kinds
  /\ pc[p] # "idle" /\ cmd[p].verb = "init" => cmd[p].namespace \in Namespaces
  /\ pc[p] \in {"render", "apply"} => cmd[p].namespace \in namespaces
  /\ pc[p] = "apply" => ~cmd[p].dry

Inv == TypeOK /\ \A p \in Processes : Placed(p) /\ Covered(p) /\ Prepared(p)

-----------------------------------------------------------------------------
(* Types.                                                                  *)

\* What a command is made of has its type.
LEMMA LineTypes ==
  ASSUME NEW c \in CommandLines
  PROVE  /\ c.verb \in {"delete", "get", "stats", "create", "register", "init"}
         /\ c.namespace \in Namespaces \cup {NoNamespace} /\ c.name \in Names \cup {NoName}
         /\ c.wide \in BOOLEAN /\ c.all \in BOOLEAN /\ c.dry \in BOOLEAN
         /\ FirstNamespace(c) \in Namespaces \cup {NoNamespace}
         /\ DeletesOne(c) => c.namespace \in Namespaces /\ c.name \in Names
BY SentinelsAssumption DEF CommandLines, FirstNamespace, DeletesOne, Named

\* The first command a process would run is one of the commands.
LEMMA InitType == Init => TypeOK
<1> SUFFICES ASSUME Init PROVE TypeOK
  OBVIOUS
<1>1. (CHOOSE c \in Commands : TRUE) \in CommandLines
  BY CommandsAssumption
<1>2. cmd \in [Processes -> CommandLines]
  BY <1>1 DEF Init
<1>3. store \in [Experiments -> 0 .. created] /\ created \in Nat
  BY DEF Init
<1>4. commands \in 0 .. MaxCommands /\ failures \in 0 .. MaxFailures
  BY BoundsAssumption DEF Init
<1>5. began \in [Processes -> 0 .. created]
  BY DEF Init
<1>6. QED BY <1>2, <1>3, <1>4, <1>5 DEF Init, TypeOK

\* Starting a command keeps the types.
LEMMA InvokeType ==
  ASSUME TypeOK, NEW p \in Processes, NEW c \in Commands, Invoke(p, c) PROVE TypeOK'
<1>1. c \in CommandLines
  BY CommandsAssumption
<1>2. FirstStep(c) \in {"namespaces", "next", "connect", "reports", "namespace"}
  BY DEF FirstStep
<1>3. commands' \in 0 .. MaxCommands
  BY BoundsAssumption DEF Invoke, TypeOK
<1>4. names' \in [Processes -> SUBSET Names]
  BY <1>1, LineTypes DEF Invoke, TypeOK
<1>5. began' \in [Processes -> 0 .. created]
  BY DEF Invoke, TypeOK
<1>6. QED BY <1>1, <1>2, <1>3, <1>4, <1>5, LineTypes DEF Invoke, TypeOK, Goto, cluster

\* The steps that leave the cluster as it is keep the types.
LEMMA QuietType ==
  ASSUME Inv, NEW p \in Processes,
         \/ ListNamespaces(p) \/ NextNamespace(p) \/ NoMoreNamespaces(p) \/ Connect(p)
         \/ NotRegistered(p) \/ ListToDelete(p) \/ ListToPrint(p) \/ AllDeleted(p)
         \/ (\E name \in Names : AlreadyGone(p, name)) \/ ReadOne(p) \/ RenderManifests(p)
         \/ CallFails(p)
  PROVE  TypeOK'
<1>0. TypeOK
  BY DEF Inv
<1> USE <1>0 DEF TypeOK, cluster, Goto, End
<1>1. CASE ListNamespaces(p) BY <1>1 DEF ListNamespaces
<1>2. CASE NextNamespace(p) BY <1>2 DEF NextNamespace
<1>3. CASE NoMoreNamespaces(p) BY <1>3 DEF NoMoreNamespaces
<1>4. CASE Connect(p) BY <1>4 DEF Connect
<1>5. CASE NotRegistered(p) BY <1>5 DEF NotRegistered
<1>6. CASE ListToDelete(p)
  <2>1. {x[2] : x \in In(current[p])} \subseteq Names
    BY DEF In, Experiments
  <2>2. QED BY <1>6, <2>1 DEF ListToDelete
<1>7. CASE ListToPrint(p) BY <1>7 DEF ListToPrint, In
<1>8. CASE AllDeleted(p) BY <1>8 DEF AllDeleted
<1>9. CASE \E name \in Names : AlreadyGone(p, name) BY <1>9 DEF AlreadyGone
<1>10. CASE ReadOne(p)
  <2>1. ReadsOne(cmd[p]) /\ current[p] = cmd[p].namespace
    BY <1>10 DEF ReadOne, Inv, Placed, Places, Single, DeletesOne
  <2>2. Target(p, cmd[p].name) \in Experiments
    BY <2>1 DEF Target, Experiments, ReadsOne, Named, CommandLines
  <2>3. QED BY <1>10, <2>2 DEF ReadOne
<1>11. CASE RenderManifests(p) BY <1>11 DEF RenderManifests
<1>12. CASE CallFails(p) BY <1>12, BoundsAssumption DEF CallFails
<1>13. QED BY <1>1, <1>2, <1>3, <1>4, <1>5, <1>6, <1>7, <1>8, <1>9, <1>10, <1>11, <1>12

\* The steps that write to the cluster keep the types.
LEMMA WriteType ==
  ASSUME Inv, NEW p \in Processes,
         \/ (\E name \in Names : DeleteExperiment(p, name)) \/ CreateExperiment(p)
         \/ RegisterReports(p) \/ RegisterExperiments(p) \/ CreateNamespace(p) \/ Apply(p)
  PROVE  TypeOK'
<1>0. TypeOK
  BY DEF Inv
<1> USE <1>0 DEF TypeOK, Goto, End
<1>1. ASSUME NEW name \in Names, DeleteExperiment(p, name) PROVE TypeOK'
  <2> DEFINE t == Target(p, name)
  <2>0. store' = [store EXCEPT ![t] = 0]
    BY <1>1 DEF DeleteExperiment
  <2> HIDE DEF t
  <2>1. \A x \in Experiments : store'[x] \in 0 .. created /\ (store'[x] # 0 => store[x] # 0)
    BY <2>0
  <2>2. store' \in [Experiments -> 0 .. created]
    BY <2>0, <2>1
  <2>3. QED BY <1>1, <2>1, <2>2 DEF DeleteExperiment
<1>2. CASE CreateExperiment(p)
  <2> DEFINE x == Target(p, cmd[p].name)
  <2>1. CASE store[x] = 0 /\ current[p] \in namespaces
    <3>1. store' = [store EXCEPT ![x] = created + 1] /\ created' = created + 1
      BY <1>2, <2>1 DEF CreateExperiment
    <3>2. x[1] \in namespaces
      BY <2>1 DEF Target
    <3> HIDE DEF x
    <3>3. \A y \in Experiments : store'[y] \in 0 .. created'
      BY <3>1
    <3>4. store' \in [Experiments -> 0 .. created']
      BY <3>1, <3>3
    <3>5. \A y \in Experiments : store'[y] # 0 => y[1] \in namespaces
      BY <3>1, <3>2
    <3>6. began' \in [Processes -> 0 .. created'] /\ created' \in Nat
      BY <1>2, <3>1 DEF CreateExperiment
    <3>7. QED BY <1>2, <3>1, <3>4, <3>5, <3>6 DEF CreateExperiment
  <2>2. CASE ~(store[x] = 0 /\ current[p] \in namespaces)
    <3>1. created' = created /\ store' = store
      BY <1>2, <2>2 DEF CreateExperiment
    <3> HIDE DEF x
    <3>2. QED BY <1>2, <3>1 DEF CreateExperiment
  <2>3. QED BY <2>1, <2>2
<1>3. CASE RegisterReports(p) BY <1>3 DEF RegisterReports, Kinds
<1>4. CASE RegisterExperiments(p) BY <1>4 DEF RegisterExperiments, Kinds
<1>5. CASE CreateNamespace(p)
  <2>1. cmd[p].verb = "init"
    BY <1>5 DEF CreateNamespace, Inv, Placed, Places
  <2>2. cmd[p].namespace \in Namespaces
    BY <1>5, <2>1 DEF CreateNamespace, Inv, Prepared
  <2>3. QED BY <1>5, <2>2 DEF CreateNamespace
<1>6. CASE Apply(p) BY <1>6 DEF Apply, Inv, Prepared, ChartKinds, Kinds
<1>7. QED BY <1>1, <1>2, <1>3, <1>4, <1>5, <1>6

-----------------------------------------------------------------------------
(* The steps of one process, seen by the others.                           *)

Stands(q) ==
  UNCHANGED <<cmd[q], pc[q], todo[q], current[q], names[q], output[q], exit[q], began[q]>>

\* Namespaces and resources only come, experiments that are new are of a later incarnation.
Grows ==
  /\ namespaces \subseteq namespaces' /\ crds \subseteq crds'
  /\ created \in Nat
  /\ \A x \in Experiments : store'[x] \in {store[x], 0} \/ store'[x] = created + 1

\* As long as its command is the same, no more becomes old.
LEMMA OldShrinks ==
  ASSUME TypeOK, Grows, NEW q \in Processes, UNCHANGED <<cmd[q], began[q]>>
  PROVE  /\ Old(q)' \subseteq Old(q)
         /\ \A x \in Old(q)' : store'[x] = store[x]
<1>1. began[q] \in 0 .. created
  BY DEF TypeOK
<1>2. Scope(cmd[q])' = Scope(cmd[q])
  BY DEF Scope, DeletesOne, ReadsOne, Named
<1>3. Scope(cmd[q]) \subseteq Experiments
  BY DEF Scope
<1>4. ASSUME NEW x \in Old(q)' PROVE x \in Old(q) /\ store'[x] = store[x]
  <2>1. x \in Scope(cmd[q]) /\ x \in Experiments /\ store'[x] \in 1 .. began[q]
    BY <1>2, <1>3, <1>4 DEF Old
  <2>2. store'[x] = store[x]
    BY <1>1, <2>1 DEF Grows
  <2>3. QED BY <2>1, <2>2 DEF Old
<1>5. QED BY <1>4

\* A step of another process disturbs nothing.
LEMMA OthersStand ==
  ASSUME Inv, Grows, crds' \subseteq Kinds, NEW q \in Processes, Stands(q)
  PROVE  Placed(q)' /\ Covered(q)' /\ Prepared(q)'
<1>1. TypeOK /\ Placed(q) /\ Covered(q) /\ Prepared(q)
  BY DEF Inv
<1>2. Placed(q)'
  BY <1>1 DEF Stands, Placed, Places, Single, ReadsOne, DeletesOne, Named
<1>3. Old(q)' \subseteq Old(q)
  BY <1>1, OldShrinks DEF Stands
<1>4. Pending(q)' = Pending(q)
  BY DEF Stands, Pending, ToList, Single, ReadsOne, DeletesOne, Named
<1>5. Covered(q)'
  BY <1>1, <1>3, <1>4 DEF Stands, Covered, Underway
<1>6. Prepared(q)'
  BY <1>1 DEF Stands, Prepared, Grows
<1>7. QED BY <1>2, <1>5, <1>6

\* What is to be shown of a step of a process is about that process.
LEMMA OneProcess ==
  ASSUME Inv, NEW p \in Processes, TypeOK', Grows,
         \A q \in Processes \ {p} : Stands(q),
         Placed(p)', Covered(p)', Prepared(p)'
  PROVE  Inv'
<1>1. crds' \subseteq Kinds
  BY DEF TypeOK
<1>2. \A q \in Processes \ {p} : Placed(q)' /\ Covered(q)' /\ Prepared(q)'
  BY <1>1, OthersStand
<1>3. QED BY <1>2 DEF Inv

\* A step of a process changes nothing of the others, and adds to the cluster or deletes.
LEMMA StepsAside ==
  ASSUME Inv, NEW p \in Processes,
         Step(p) \/ CallFails(p) \/ \E c \in Commands : Invoke(p, c)
  PROVE  Grows /\ \A q \in Processes \ {p} : Stands(q)
<1>0. TypeOK
  BY DEF Inv
<1> USE <1>0 DEF TypeOK, cluster, Goto, End, Stands, Grows
<1>1. ASSUME NEW c \in Commands, Invoke(p, c) PROVE Grows /\ \A q \in Processes \ {p} : Stands(q)
  BY <1>1 DEF Invoke
<1>2. CASE ListNamespaces(p) BY <1>2 DEF ListNamespaces
<1>3. CASE NextNamespace(p) BY <1>3 DEF NextNamespace
<1>4. CASE NoMoreNamespaces(p) BY <1>4 DEF NoMoreNamespaces
<1>5. CASE Connect(p) BY <1>5 DEF Connect
<1>6. CASE NotRegistered(p) BY <1>6 DEF NotRegistered
<1>7. CASE ListToDelete(p) BY <1>7 DEF ListToDelete
<1>8. CASE ListToPrint(p) BY <1>8 DEF ListToPrint
<1>9. ASSUME NEW name \in Names, DeleteExperiment(p, name) \/ AlreadyGone(p, name)
      PROVE  Grows /\ \A q \in Processes \ {p} : Stands(q)
  BY <1>9 DEF DeleteExperiment, AlreadyGone
<1>10. CASE AllDeleted(p) BY <1>10 DEF AllDeleted
<1>11. CASE ReadOne(p) BY <1>11 DEF ReadOne
<1>12. CASE CreateExperiment(p) BY <1>12 DEF CreateExperiment
<1>13. CASE RegisterReports(p) BY <1>13 DEF RegisterReports
<1>14. CASE RegisterExperiments(p) BY <1>14 DEF RegisterExperiments
<1>15. CASE CreateNamespace(p) BY <1>15 DEF CreateNamespace
<1>16. CASE RenderManifests(p) BY <1>16 DEF RenderManifests
<1>17. CASE Apply(p) BY <1>17 DEF Apply
<1>18. CASE CallFails(p) BY <1>18 DEF CallFails
<1>19. QED BY <1>1, <1>2, <1>3, <1>4, <1>5, <1>6, <1>7, <1>8, <1>9, <1>10, <1>11, <1>12, <1>13,
              <1>14, <1>15, <1>16, <1>17, <1>18 DEF Step

\* The steps of register and init come in their order.
LEMMA StepPrepared ==
  ASSUME Inv, NEW p \in Processes, Step(p) PROVE Prepared(p)'
<1>0. TypeOK /\ Placed(p) /\ Prepared(p)
  BY DEF Inv
<1> USE <1>0 DEF TypeOK, Placed, Places, Prepared, Kinds, cluster, Goto, End
<1>1. CASE ListNamespaces(p) BY <1>1 DEF ListNamespaces
<1>2. CASE NextNamespace(p) BY <1>2 DEF NextNamespace
<1>3. CASE NoMoreNamespaces(p) BY <1>3 DEF NoMoreNamespaces
<1>4. CASE Connect(p) BY <1>4 DEF Connect
<1>5. CASE NotRegistered(p) BY <1>5 DEF NotRegistered
<1>6. CASE ListToDelete(p) BY <1>6 DEF ListToDelete
<1>7. CASE ListToPrint(p) BY <1>7 DEF ListToPrint
<1>8. CASE AllDeleted(p) BY <1>8 DEF AllDeleted
<1>9. CASE ReadOne(p) BY <1>9 DEF ReadOne
<1>10. CASE CreateExperiment(p) BY <1>10 DEF CreateExperiment
<1>11. CASE RegisterReports(p) BY <1>11 DEF RegisterReports
<1>12. CASE RegisterExperiments(p) BY <1>12 DEF RegisterExperiments
<1>13. CASE CreateNamespace(p) BY <1>13 DEF CreateNamespace
<1>14. CASE RenderManifests(p) BY <1>14 DEF RenderManifests
<1>15. CASE Apply(p) BY <1>15 DEF Apply
<1>16. ASSUME NEW name \in Names, DeleteExperiment(p, name) \/ AlreadyGone(p, name) 
       PROVE  Prepared(p)'
  BY <1>16 DEF DeleteExperiment, AlreadyGone
<1>17. QED BY <1>1, <1>2, <1>3, <1>4, <1>5, <1>6, <1>7, <1>8, <1>9, <1>10, <1>11, <1>12, <1>13,
              <1>14, <1>15, <1>16 DEF Step

\* A step leads where its command may be.
LEMMA StepPlaced ==
  ASSUME Inv, NEW p \in Processes, Step(p) PROVE Placed(p)'
<1>0. TypeOK /\ Placed(p) /\ Prepared(p)
  BY DEF Inv
<1> USE <1>0 DEF TypeOK, Placed, Places, Single, ReadsOne, DeletesOne, Named, cluster, Goto, End
<1>1. CASE ListNamespaces(p) BY <1>1 DEF ListNamespaces
<1>2. CASE NextNamespace(p) BY <1>2 DEF NextNamespace
<1>3. CASE NoMoreNamespaces(p) BY <1>3 DEF NoMoreNamespaces
<1>4. CASE Connect(p) BY <1>4 DEF Connect
<1>5. CASE NotRegistered(p) BY <1>5 DEF NotRegistered
<1>6. CASE ListToDelete(p) BY <1>6 DEF ListToDelete
<1>7. CASE ListToPrint(p) BY <1>7 DEF ListToPrint
<1>8. CASE AllDeleted(p) BY <1>8 DEF AllDeleted
<1>9. CASE ReadOne(p) BY <1>9 DEF ReadOne
<1>10. CASE CreateExperiment(p) BY <1>10 DEF CreateExperiment
<1>11. CASE RegisterReports(p) BY <1>11 DEF RegisterReports
<1>12. CASE RegisterExperiments(p) BY <1>12 DEF RegisterExperiments
<1>13. CASE CreateNamespace(p) BY <1>13 DEF CreateNamespace
<1>14. CASE RenderManifests(p) BY <1>14 DEF RenderManifests
<1>15. CASE Apply(p) BY <1>15 DEF Apply
<1>16. ASSUME NEW name \in Names, DeleteExperiment(p, name) \/ AlreadyGone(p, name) 
       PROVE  Placed(p)'
  BY <1>16 DEF DeleteExperiment, AlreadyGone
<1>17. QED BY <1>1, <1>2, <1>3, <1>4, <1>5, <1>6, <1>7, <1>8, <1>9, <1>10, <1>11, <1>12, <1>13,
              <1>14, <1>15, <1>16 DEF Step

\* While its command goes on, what was to come has been shown or is still to come.
LEMMA Remains ==
  ASSUME Inv, Grows, NEW p \in Processes, UNCHANGED <<cmd[p], began[p]>>,
         Underway(p)' => /\ Underway(p) /\ output[p] \subseteq output'[p]
                         /\ \A x \in Old(p) \cap Pending(p) :
                              store'[x] # 0 => x \in output'[p] \cup Pending(p)'
  PROVE  Covered(p)'
<1>1. TypeOK /\ Covered(p)
  BY DEF Inv
<1> SUFFICES ASSUME Underway(p)', NEW x \in Old(p)' PROVE x \in output'[p] \cup Pending(p)'
  BY DEF Covered
<1>2. x \in Old(p) /\ store'[x] # 0
  <2>1. x \in Old(p)
    BY <1>1, OldShrinks
  <2>2. store'[x] # 0
    BY DEF Old
  <2>3. QED BY <2>1, <2>2
<1>3. x \in output[p] \cup Pending(p)
  BY <1>1, <1>2 DEF Covered
<1>4. QED BY <1>2, <1>3

\* None of the old experiments is forgotten on the way.
LEMMA StepCovered ==
  ASSUME Inv, Grows, NEW p \in Processes, Step(p) PROVE Covered(p)'
<1>0. TypeOK /\ Placed(p)
  BY DEF Inv
<1> USE <1>0 DEF TypeOK, cluster, Goto, End
<1>1. CASE ListNamespaces(p)
  <2>1. ~Single(cmd[p])
    BY <1>1 DEF ListNamespaces, Placed, Places, Single
  <2>2. \A x \in Old(p) \cap Pending(p) : x \in Pending(p)'
    BY <1>1, <2>1 DEF ListNamespaces, Pending, Old, Scope, ToList, Single, ReadsOne,
                      DeletesOne, Named
  <2>3. QED BY <1>1, <2>2, Remains DEF ListNamespaces, Underway
<1>2. CASE NextNamespace(p)
  <2>1. ~Single(cmd[p])
    BY <1>2 DEF NextNamespace, Placed
  <2>2. ToList(p)' = ToList(p)
    BY <1>2 DEF NextNamespace, ToList
  <2>3. Pending(p) \subseteq Pending(p)'
    BY <1>2, <2>1, <2>2 DEF NextNamespace, Pending, Single, ReadsOne, DeletesOne, Named
  <2>4. QED BY <1>2, <2>3, Remains DEF NextNamespace, Underway
<1>3. CASE NoMoreNamespaces(p)
  <2>1. Pending(p) = {}
    BY <1>3 DEF NoMoreNamespaces, Pending, ToList
  <2>2. QED BY <1>3, <2>1, Remains DEF NoMoreNamespaces, Underway
<1>4. CASE Connect(p)
  <2>1. CASE cmd[p].verb = "create"
    BY <1>4, <2>1 DEF Connect, Covered, Underway
  <2>2. CASE ReadsOne(cmd[p])
    <3>1. pc'[p] = "read"
      BY <1>4, <2>2 DEF Connect, ReadsOne, DeletesOne
    <3>2. Pending(p) \subseteq Pending(p)'
      BY <1>4, <2>2, <3>1 DEF Connect, Pending, ReadsOne, Named
    <3>3. QED BY <1>4, <3>1, <3>2, Remains DEF Connect, Underway
  <2>3. CASE DeletesOne(cmd[p])
    <3>1. pc'[p] = "delete"
      BY <1>4, <2>3 DEF Connect, DeletesOne, ReadsOne
    <3>2. names[p] = {cmd[p].name} /\ current[p] = cmd[p].namespace
      BY <1>4, <2>3 DEF Connect, Placed, Single
    <3>3. \A x \in Old(p) : x[1] = cmd[p].namespace /\ x[2] = cmd[p].name
      BY <2>3 DEF Old, Scope, DeletesOne, ReadsOne
    <3>4. \A x \in Old(p) : x \in Pending(p)'
      BY <1>4, <3>1, <3>2, <3>3 DEF Connect, Pending, Old, Scope
    <3>5. QED BY <1>4, <3>1, <3>4, Remains DEF Connect, Underway
  <2>4. CASE cmd[p].verb # "create" /\ ~Single(cmd[p])
    <3>1. pc'[p] = "list"
      BY <1>4, <2>4 DEF Connect, Single
    <3>2. ToList(p)' = ToList(p)
      BY <1>4, <3>1 DEF Connect, ToList
    <3>3. Pending(p) \subseteq Pending(p)'
      BY <1>4, <2>4, <3>1, <3>2 DEF Connect, Pending, Single, ReadsOne, DeletesOne, Named
    <3>4. QED BY <1>4, <3>1, <3>3, Remains DEF Connect, Underway
  <2>5. QED BY <2>1, <2>2, <2>3, <2>4 DEF Single
<1>5. CASE NotRegistered(p)
  BY <1>5 DEF NotRegistered, Covered, Underway
<1>6. CASE ListToDelete(p)
  <2>1. ~Single(cmd[p])
    BY <1>6 DEF ListToDelete, Placed, Places, Single, ReadsOne
  <2>2. current[p] \in Namespaces /\ todo[p] \subseteq Namespaces
    BY <1>6, <2>1 DEF ListToDelete, Placed
  <2>3. \A x \in Old(p) \cap Pending(p) : x[1] = current[p] \/ x[1] \in todo[p]
    BY <1>6, <2>1, <2>2, SentinelsAssumption
       DEF ListToDelete, Pending, ToList, Single
  <2>4. \A x \in Old(p) : x \in Experiments /\ store[x] # 0
    BY DEF Old, Scope
  <2>5. \A x \in Old(p) \cap Pending(p) : x \in Pending(p)'
    <3> SUFFICES ASSUME NEW x \in Old(p) \cap Pending(p) PROVE x \in Pending(p)'
      OBVIOUS
    <3>1. CASE x[1] = current[p]
      <4>1. x[2] \in names'[p]
        BY <1>6, <2>4, <3>1 DEF ListToDelete, In
      <4>2. QED BY <1>6, <2>4, <3>1, <4>1 DEF ListToDelete, Pending
    <3>2. CASE x[1] \in todo[p]
      <4>1. x[1] \in ToList(p)' /\ ~Single(cmd[p])'
        BY <1>6, <2>1, <3>2 DEF ListToDelete, ToList, Single, ReadsOne, DeletesOne, Named
      <4>2. QED BY <1>6, <2>4, <4>1 DEF ListToDelete, Pending
    <3>3. QED BY <2>3, <3>1, <3>2
  <2>6. QED BY <1>6, <2>5, Remains DEF ListToDelete, Underway
<1>7. CASE ListToPrint(p)
  <2>1. ~Single(cmd[p])
    BY <1>7 DEF ListToPrint, Placed, Places, Single, DeletesOne
  <2>2. \A x \in Old(p) : x \in Experiments /\ store[x] # 0
    BY DEF Old, Scope
  <2>3. \A x \in Old(p) \cap Pending(p) : x \in output'[p] \cup Pending(p)'
    <3> SUFFICES ASSUME NEW x \in Old(p) \cap Pending(p) PROVE x \in output'[p] \cup Pending(p)'
      OBVIOUS
    <3>1. CASE current[p] \in {x[1], NoNamespace}
      BY <1>7, <2>2, <3>1 DEF ListToPrint, In
    <3>2. CASE todo[p] \cap {x[1], NoNamespace} # {}
      <4>1. ToList(p)' \cap {x[1], NoNamespace} # {} /\ ~Single(cmd[p])'
        BY <1>7, <2>1, <3>2 DEF ListToPrint, ToList, Single, ReadsOne, DeletesOne, Named
      <4>2. QED BY <1>7, <2>2, <4>1 DEF ListToPrint, Pending
    <3>3. ToList(p) = todo[p] \cup {current[p]}
      BY <1>7 DEF ListToPrint, ToList
    <3>4. ToList(p) \cap {x[1], NoNamespace} # {}
      BY <1>7, <2>1 DEF ListToPrint, Pending, Single
    <3>5. QED BY <3>1, <3>2, <3>3, <3>4
  <2>4. output[p] \subseteq output'[p]
    BY <1>7 DEF ListToPrint
  <2>5. QED BY <1>7, <2>3, <2>4, Remains DEF ListToPrint, Underway
<1>8. ASSUME NEW name \in Names, DeleteExperiment(p, name) PROVE Covered(p)'
  <2>1. \A x \in Pending(p) : store'[x] # 0 => x \in Pending(p)'
    <3> SUFFICES ASSUME NEW x \in Pending(p), store'[x] # 0 PROVE x \in Pending(p)'
      OBVIOUS
    <3>1. x \in Experiments
      BY DEF Pending
    <3>2. x # Target(p, name)
      BY <1>8, <3>1 DEF DeleteExperiment
    <3>3. x[1] = current[p] /\ x[2] \in names[p] => x[2] \in names'[p]
      BY <1>8, <3>1, <3>2 DEF DeleteExperiment, Target, Experiments
    <3>4. ToList(p)' = ToList(p) /\ Single(cmd[p])' = Single(cmd[p])
      BY <1>8 DEF DeleteExperiment, ToList, Single, ReadsOne, DeletesOne, Named
    <3>5. QED BY <1>8, <3>1, <3>3, <3>4 DEF DeleteExperiment, Pending
  <2>2. QED BY <1>8, <2>1, Remains DEF DeleteExperiment, Underway
<1>9. ASSUME NEW name \in Names, AlreadyGone(p, name) PROVE Covered(p)'
  BY <1>9 DEF AlreadyGone, Covered, Underway
<1>10. CASE AllDeleted(p)
  <2>1. CASE Single(cmd[p])
    <3>1. Pending(p) = {}
      BY <1>10, <2>1 DEF AllDeleted, Pending
    <3>2. QED BY <1>10, <3>1, Remains DEF AllDeleted, Underway
  <2>2. CASE ~Single(cmd[p])
    <3>1. ToList(p)' = ToList(p) /\ ~Single(cmd[p])'
      BY <1>10, <2>2 DEF AllDeleted, ToList, Single, ReadsOne, DeletesOne, Named
    <3>2. Pending(p) \subseteq Pending(p)'
      BY <1>10, <2>2, <3>1 DEF AllDeleted, Pending, Single
    <3>3. QED BY <1>10, <3>2, Remains DEF AllDeleted, Underway
  <2>3. QED BY <2>1, <2>2
<1>11. CASE ReadOne(p)
  <2>1. ReadsOne(cmd[p]) /\ current[p] = cmd[p].namespace
    BY <1>11 DEF ReadOne, Placed, Places, Single, DeletesOne
  <2>2. \A x \in Old(p)' : x = Target(p, cmd[p].name) /\ store[x] # 0
    BY <1>11, <2>1 DEF ReadOne, Old, Scope, ReadsOne, DeletesOne, Named, Target
  <2>3. \A x \in Old(p)' : x \in output'[p]
    BY <1>11, <2>2 DEF ReadOne
  <2>4. QED BY <2>3 DEF Covered
<1>12. CASE CreateExperiment(p)
  BY <1>12 DEF CreateExperiment, Placed, Places, Covered, Underway, ReadsOne, DeletesOne
<1>13. CASE RegisterReports(p)
  BY <1>13 DEF RegisterReports, Placed, Places, Covered, Underway, ReadsOne, DeletesOne
<1>14. CASE RegisterExperiments(p)
  BY <1>14 DEF RegisterExperiments, Placed, Places, Covered, Underway, ReadsOne, DeletesOne
<1>15. CASE CreateNamespace(p)
  BY <1>15 DEF CreateNamespace, Placed, Places, Covered, Underway, ReadsOne, DeletesOne
<1>16. CASE RenderManifests(p)
  BY <1>16 DEF RenderManifests, Placed, Places, Covered, Underway, ReadsOne, DeletesOne
<1>17. CASE Apply(p)
  BY <1>17 DEF Apply, Placed, Places, Covered, Underway, ReadsOne, DeletesOne
<1>18. QED BY <1>1, <1>2, <1>3, <1>4, <1>5, <1>6, <1>7, <1>8, <1>9, <1>10, <1>11, <1>12, <1>13,
              <1>14, <1>15, <1>16, <1>17 DEF Step

\* A new command has all of its scope before it.
LEMMA InvokeCovers ==
  ASSUME TypeOK, NEW p \in Processes, NEW c \in Commands, Invoke(p, c)
  PROVE  Placed(p)' /\ Covered(p)' /\ Prepared(p)'
<1> USE DEF TypeOK, cluster, Goto
<1>1. c \in CommandLines
  BY CommandsAssumption
<1>2. /\ cmd'[p] = c /\ pc'[p] = FirstStep(c) /\ todo'[p] = {FirstNamespace(c)}
      /\ current'[p] = c.namespace /\ output'[p] = {} /\ exit'[p] = "none"
      /\ names'[p] = (IF DeletesOne(c) THEN {c.name} ELSE {})
      /\ store' = store /\ crds' = crds /\ namespaces' = namespaces
  BY DEF Invoke
<1>3. Accepted(c)
  BY DEF Invoke
<1>4. CASE Single(c)
  <2>1. FirstStep(c) = "connect"
    BY <1>4 DEF FirstStep, Single, ReadsOne, DeletesOne
  <2>2. Placed(p)'
    BY <1>2, <1>4, <2>1 DEF Placed, Places, Single, ReadsOne, DeletesOne, Named
  <2>3. \A x \in Experiments : x \in Pending(p)'
    BY <1>2, <1>4, <2>1 DEF Pending, Single, ReadsOne, DeletesOne, Named
  <2>4. Covered(p)'
    BY <2>3 DEF Covered, Old, Scope
  <2>5. Prepared(p)'
    BY <1>2, <1>4, <2>1 DEF Prepared, Single, ReadsOne, DeletesOne
  <2>6. QED BY <2>2, <2>4, <2>5
<1>5. CASE c.verb \in {"delete", "get"} /\ ~Single(c) /\ c.wide
  <2>1. FirstStep(c) = "namespaces"
    BY <1>5 DEF FirstStep, Single
  <2>2. Placed(p)'
    BY <1>2, <1>5, <2>1 DEF Placed, Places, Single, ReadsOne, DeletesOne, Named
  <2>3. \A x \in Experiments : x \in Pending(p)'
    BY <1>2, <2>1 DEF Pending
  <2>4. Covered(p)'
    BY <2>3 DEF Covered, Old, Scope
  <2>5. Prepared(p)'
    BY <1>2, <1>5, <2>1 DEF Prepared
  <2>6. QED BY <2>2, <2>4, <2>5
<1>6. CASE c.verb \in {"delete", "get", "stats"} /\ ~Single(c) /\ (c.verb = "stats" \/ ~c.wide)
  <2>1. FirstStep(c) = "next"
    BY <1>6 DEF FirstStep, Single, DeletesOne, ReadsOne
  <2>2. c.verb = "delete" => c.all /\ c.namespace \in Namespaces /\ FirstNamespace(c) = c.namespace
    BY <1>1, <1>3, <1>6 DEF Accepted, Single, DeletesOne, Named, FirstNamespace, CommandLines
  <2>3. Placed(p)'
    BY <1>2, <1>6, <2>1, <2>2 DEF Placed, Places, Single, ReadsOne, DeletesOne, Named
  <2>4. ToList(p)' = {FirstNamespace(c)} /\ ~Single(cmd[p])'
    BY <1>2, <1>6, <2>1 DEF ToList, Single, ReadsOne, DeletesOne, Named
  <2>5. \A x \in Scope(c) : x \in Experiments /\ FirstNamespace(c) \in {x[1], NoNamespace}
    BY <1>6, <2>2 DEF Scope, Single, FirstNamespace
  <2>6. \A x \in Scope(c) : x \in Pending(p)'
    BY <1>2, <2>1, <2>4, <2>5 DEF Pending
  <2>7. Covered(p)'
    BY <1>2, <2>6 DEF Covered, Old, Scope, ReadsOne, DeletesOne, Named
  <2>8. Prepared(p)'
    BY <1>2, <1>6, <2>1 DEF Prepared
  <2>9. QED BY <2>3, <2>7, <2>8
<1>7. CASE c.verb \in {"create", "register", "init"}
  <2>1. FirstStep(c) = IF c.verb = "create" THEN "connect"
                       ELSE IF c.verb = "register" THEN "reports" ELSE "namespace"
    BY <1>7 DEF FirstStep, DeletesOne, ReadsOne
  <2>2. ~Single(c)
    BY <1>7 DEF Single, DeletesOne, ReadsOne
  <2>3. Placed(p)'
    BY <1>2, <1>7, <2>1, <2>2 DEF Placed, Places, Single, ReadsOne, DeletesOne, Named
  <2>4. Covered(p)'
    BY <1>2, <1>7 DEF Covered, Underway
  <2>5. c.verb = "init" => c.namespace \in Namespaces
    BY <1>1, <1>3 DEF Accepted, CommandLines
  <2>6. Prepared(p)'
    BY <1>2, <1>7, <2>1, <2>5 DEF Prepared
  <2>7. QED BY <2>3, <2>4, <2>6
<1>8. QED BY <1>1, <1>4, <1>5, <1>6, <1>7, LineTypes

\* A call that fails ends the command, and nothing is promised of one that failed.
LEMMA FailureCovers ==
  ASSUME TypeOK, NEW p \in Processes, Placed(p), Prepared(p), CallFails(p)
  PROVE  Placed(p)' /\ Covered(p)' /\ Prepared(p)'
<1> USE DEF CallFails, TypeOK, cluster, Goto, End
<1>1. Placed(p)'
  BY DEF Placed, Single, ReadsOne, DeletesOne, Named
<1>2. Covered(p)'
  BY DEF Covered, Underway
<1>3. Prepared(p)'
  BY DEF Prepared
<1>4. QED BY <1>1, <1>2, <1>3

\* No command has begun, so nothing is asked of any.
LEMMA InitInv == Init => Inv
<1> SUFFICES ASSUME Init PROVE Inv
  OBVIOUS
<1>1. TypeOK
  BY InitType
<1>2. ASSUME NEW p \in Processes PROVE Placed(p) /\ Covered(p) /\ Prepared(p)
  <2>1. pc[p] = "idle" /\ exit[p] = "none" /\ output[p] = {}
    BY DEF Init
  <2>2. QED BY <2>1 DEF Placed, Covered, Underway, Prepared
<1>3. QED BY <1>1, <1>2 DEF Inv

\* Every step keeps the invariant.
LEMMA InvInductive == Inv /\ [Next]_vars => Inv'
<1> SUFFICES ASSUME Inv, [Next]_vars PROVE Inv'
  OBVIOUS
<1>1. CASE UNCHANGED vars
  <2> USE <1>1 DEF vars, cluster, process
  <2>1. TypeOK'
    BY DEF Inv, TypeOK
  <2>2. Grows /\ crds' \subseteq Kinds /\ \A p \in Processes : Stands(p)
    BY DEF Inv, TypeOK, Grows, Stands
  <2>3. \A p \in Processes : Placed(p)' /\ Covered(p)' /\ Prepared(p)'
    BY <2>2, OthersStand
  <2>4. QED BY <2>1, <2>3 DEF Inv
<1>2. ASSUME NEW p \in Processes, Step(p) \/ CallFails(p) \/ \E c \in Commands : Invoke(p, c)
      PROVE  Inv'
  <2>1. TypeOK /\ Placed(p) /\ Prepared(p)
    BY DEF Inv
  <2>2. TypeOK'
    BY <1>2, <2>1, InvokeType, QuietType, WriteType DEF Step
  <2>3. Grows /\ \A q \in Processes \ {p} : Stands(q)
    BY <1>2, StepsAside
  <2>4. Placed(p)' /\ Covered(p)' /\ Prepared(p)'
    BY <1>2, <2>1, <2>3, StepPlaced, StepCovered, StepPrepared, InvokeCovers, FailureCovers
  <2>5. QED BY <2>2, <2>3, <2>4, OneProcess
<1>3. QED BY <1>1, <1>2 DEF Next

\* The invariant holds throughout.
LEMMA Invariance == Spec => []Inv
BY InitInv, InvInductive, PTL DEF Spec

-----------------------------------------------------------------------------
(* What users may rely on.                                                 *)

\* Every variable keeps its type, whatever the processes do (all commands).
THEOREM CommandsTypeCorrect == Spec => []TypeOK
<1>1. Inv => TypeOK
  BY DEF Inv
<1>2. QED BY <1>1, Invariance, PTL

\* A deletion that reports success has deleted all that was in its scope when it began
\* (DeleteExperiments).
THEOREM DeletionsAreComplete == Spec => []DeletesAreComplete
<1>1. Inv => DeletesAreComplete
  <2> SUFFICES ASSUME Inv, NEW p \in Processes, cmd[p].verb = "delete", exit[p] = "ok"
               PROVE  Old(p) = {}
    BY DEF DeletesAreComplete
  <2>1. Placed(p) /\ Covered(p)
    BY DEF Inv
  <2>2. pc[p] = "idle" /\ output[p] = {}
    BY <2>1 DEF Placed
  <2>3. Pending(p) = {}
    BY <2>2 DEF Pending
  <2>4. QED BY <2>1, <2>2, <2>3 DEF Covered, Underway
<1>2. QED BY <1>1, Invariance, PTL

\* A list that is printed misses no experiment that was there all the while (GetExperiments).
THEOREM ListsMissNothing == Spec => []ListsAreComplete
<1>1. Inv => ListsAreComplete
  <2> SUFFICES ASSUME Inv, NEW p \in Processes, cmd[p].verb \in {"get", "stats"}, exit[p] = "ok"
               PROVE  Old(p) \subseteq output[p]
    BY DEF ListsAreComplete
  <2>1. Placed(p) /\ Covered(p)
    BY DEF Inv
  <2>2. pc[p] = "idle"
    BY <2>1 DEF Placed
  <2>3. Pending(p) = {}
    BY <2>2 DEF Pending
  <2>4. QED BY <2>1, <2>3 DEF Covered, Underway
<1>2. QED BY <1>1, Invariance, PTL

\* An experiment that disappears was in the scope of the command that deleted it
\* (DeleteExperiments, doDeleteExperiments).
THEOREM DeletionsInScope == Spec => DeletesAreInScope
<1> DEFINE Justified(x) ==
      store[x] # 0 /\ store'[x] = 0 =>
        \E p \in Processes : /\ cmd[p].verb = "delete" /\ x \in Scope(cmd[p])
                             /\ names'[p] # names[p]
<1>1. ASSUME Inv, [Next]_vars, NEW x \in Experiments PROVE Justified(x)
  <2> USE <1>1
  <2>0. TypeOK
    BY DEF Inv
  <2>1. ASSUME NEW p \in Processes, NEW name \in Names, DeleteExperiment(p, name)
        PROVE  Justified(x)
    <3>1. Placed(p) /\ pc[p] = "delete" /\ name \in names[p]
      BY <2>1 DEF DeleteExperiment, Inv
    <3>2. cmd[p].verb = "delete"
      BY <3>1 DEF Placed, Places, ReadsOne, DeletesOne
    <3>3. names'[p] # names[p]
      BY <2>0, <2>1, <3>1 DEF DeleteExperiment, TypeOK
    <3>4. ASSUME store[x] # 0, store'[x] = 0 PROVE x \in Scope(cmd[p])
      <4>1. x = Target(p, name)
        BY <2>0, <2>1, <3>4 DEF DeleteExperiment, TypeOK
      <4>2. CASE Single(cmd[p])
        <5>1. DeletesOne(cmd[p]) /\ current[p] = cmd[p].namespace /\ name = cmd[p].name
          BY <3>1, <3>2, <4>2 DEF Placed, Single, ReadsOne
        <5>2. QED BY <4>1, <5>1 DEF Scope, Target
      <4>3. CASE ~Single(cmd[p])
        <5>1. cmd[p].wide \/ (cmd[p].all /\ current[p] = cmd[p].namespace)
          BY <3>1, <3>2, <4>3 DEF Placed
        <5>2. QED BY <3>2, <4>1, <5>1 DEF Scope, Target
      <4>4. QED BY <4>2, <4>3
    <3>5. QED BY <3>2, <3>3, <3>4
  <2>2. ASSUME NEW p \in Processes, CreateExperiment(p) PROVE Justified(x)
    BY <2>0, <2>2 DEF CreateExperiment, TypeOK
  <2>3. CASE store' = store
    BY <2>3
  <2>4. ASSUME NEW p \in Processes, Step(p) \/ CallFails(p) \/ \E c \in Commands : Invoke(p, c)
        PROVE  \/ store' = store \/ CreateExperiment(p)
               \/ \E name \in Names : DeleteExperiment(p, name)
    BY <2>4 DEF Step, CallFails, Invoke, ListNamespaces, NextNamespace, NoMoreNamespaces, Connect,
                NotRegistered, ListToDelete, ListToPrint, AlreadyGone, AllDeleted, ReadOne,
                RegisterReports, RegisterExperiments, CreateNamespace, RenderManifests, Apply,
                cluster
  <2>5. CASE UNCHANGED vars
    BY <2>3, <2>5 DEF vars, cluster
  <2>6. QED BY <2>1, <2>2, <2>3, <2>4, <2>5 DEF Next
<1>2. Inv /\ [Next]_vars => [\A x \in Experiments : Justified(x)]_vars
  BY <1>1
<1>3. QED BY <1>2, Invariance, PTL DEF Spec, DeletesAreInScope

\* A register that succeeds has registered both resources, and no command registers more
\* than it may: "init" what its chart brings, a dry run of it nothing (CreateClientset,
\* installGlooshot).
THEOREM RegisterRegistersBoth == Spec => RegisterRegisters
<1> DEFINE Registers ==
      /\ \A p \in Processes : cmd'[p].verb = "register" /\ exit'[p] = "ok" => crds' = Kinds
      /\ crds' # crds => \E p \in Processes : crds' \ crds \subseteq MayRegister(p)
<1>1. ASSUME Inv, [Next]_vars PROVE Registers
  <2>1. \A p \in Processes : cmd'[p].verb = "register" /\ exit'[p] = "ok" => crds' = Kinds
    BY <1>1, InvInductive DEF Inv, Prepared
  <2>2. ASSUME NEW p \in Processes, Step(p) \/ CallFails(p) \/ \E c \in Commands : Invoke(p, c)
        PROVE  crds' = crds \/ RegisterReports(p) \/ RegisterExperiments(p) \/ Apply(p)
    BY <2>2 DEF Step, CallFails, Invoke, ListNamespaces, NextNamespace, NoMoreNamespaces, Connect,
                NotRegistered, ListToDelete, ListToPrint, AlreadyGone, AllDeleted, ReadOne,
                DeleteExperiment, CreateExperiment, CreateNamespace, RenderManifests, cluster
  <2>3. ASSUME NEW p \in Processes, RegisterReports(p) \/ RegisterExperiments(p)
        PROVE  crds' \ crds \subseteq MayRegister(p)
    <3>1. Placed(p) /\ pc[p] \in {"reports", "experiments"}
      BY <1>1, <2>3 DEF Inv, RegisterReports, RegisterExperiments
    <3>2. cmd[p].verb = "register" /\ pc[p] # "idle"
      BY <3>1 DEF Placed, Places
    <3>3. MayRegister(p) = Kinds
      BY <3>2 DEF MayRegister
    <3>4. QED BY <2>3, <3>3 DEF RegisterReports, RegisterExperiments, Kinds
  <2>4. ASSUME NEW p \in Processes, Apply(p)
        PROVE  crds' \ crds \subseteq MayRegister(p)
    <3>1. Placed(p) /\ Prepared(p) /\ pc[p] = "apply"
      BY <1>1, <2>4 DEF Inv, Apply
    <3>2. cmd[p].verb = "init" /\ ~cmd[p].dry
      BY <3>1 DEF Placed, Places, Prepared
    <3>3. MayRegister(p) = {"experiments"}
      BY <3>1, <3>2 DEF MayRegister
    <3>4. QED BY <2>4, <3>3 DEF Apply, ChartKinds
  <2>5. CASE UNCHANGED vars
    BY <2>1, <2>5 DEF vars, cluster
  <2>6. QED BY <1>1, <2>1, <2>2, <2>3, <2>4, <2>5 DEF Next
<1>2. Inv /\ [Next]_vars => [Registers]_vars
  BY <1>1
<1>3. QED BY <1>2, Invariance, PTL DEF Spec, RegisterRegisters
=============================================================================
