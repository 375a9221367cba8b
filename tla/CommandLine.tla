------------------------------- MODULE CommandLine -------------------------------
(***************************************************************************)
(* The commands of glooshot, and the statistics handlers of the server     *)
(* that do what "get" does, run by several processes at once against one   *)
(* cluster: the clients they make, the lists they take and then work       *)
(* through one call at a time, and where they stop when a call fails.      *)
(***************************************************************************)
EXTENDS Integers, FiniteSets

CONSTANTS
  Processes,
  Namespaces,
  Names,        \* names of experiments
  NoNamespace,  \* the empty namespace: all of them, in a list
  NoName,
  Default,      \* the namespace the statistics are about
  Commands,     \* the command lines users type
  MaxCommands,  \* bound on the commands run
  MaxFailures   \* bound on the calls that fail for reasons of their own

\* A command line: the verb and the flags of it that matter.  "wide" is --every-resource
\* of delete and --all-namespaces of get; "all" is --all of delete; "dry" is --dry-run.
CommandLines ==
  [verb : {"delete", "get", "stats", "create", "register", "init"},
   wide : BOOLEAN, all : BOOLEAN, dry : BOOLEAN,
   namespace : Namespaces \cup {NoNamespace}, name : Names \cup {NoName}]

ASSUME CommandsAssumption == Commands \subseteq CommandLines /\ Commands # {}

ASSUME SentinelsAssumption ==
  NoNamespace \notin Namespaces /\ NoName \notin Names /\ Default \in Namespaces

ASSUME BoundsAssumption == MaxCommands \in Nat /\ MaxFailures \in Nat

Experiments == Namespaces \X Names

Kinds == {"reports", "experiments"}

VARIABLES
  \* the cluster
  namespaces,  \* the namespaces there are
  crds,        \* the kinds of resources registered
  store,       \* the incarnation of each experiment, 0 when there is none
  installed,   \* namespaces Glooshot is installed in
  created,     \* experiments created so far
  commands, failures,
  \* the processes
  cmd,         \* the command each process runs, or ran last
  pc,          \* its next step
  cached,      \* processes whose options hold a client of experiments
  todo,        \* namespaces it has yet to list
  current,     \* the namespace it is in
  names,       \* experiments it has yet to delete in that namespace
  output,      \* the experiments it prints
  exit,        \* how its command has ended
  began        \* experiments created before it began

cluster == <<namespaces, crds, store, installed, created>>
process == <<cmd, pc, cached, todo, current, names, output, exit, began>>
vars    == <<cluster, commands, failures, process>>

TypeOK ==
  /\ namespaces \subseteq Namespaces /\ crds \subseteq Kinds
  /\ created \in Nat
  /\ store \in [Experiments -> 0 .. created]
  /\ \A x \in Experiments : store[x] # 0 => x[1] \in namespaces
  /\ installed \subseteq namespaces
  /\ commands \in 0 .. MaxCommands /\ failures \in 0 .. MaxFailures
  /\ cmd \in [Processes -> CommandLines]
  /\ pc \in [Processes -> {"idle", "namespaces", "next", "connect", "list", "delete", "read",
                           "write", "reports", "experiments", "namespace", "render", "apply"}]
  /\ cached \subseteq Processes
  /\ todo \in [Processes -> SUBSET (Namespaces \cup {NoNamespace})]
  /\ current \in [Processes -> Namespaces \cup {NoNamespace}]
  /\ names \in [Processes -> SUBSET Names]
  /\ output \in [Processes -> SUBSET Experiments]
  /\ exit \in [Processes -> {"none", "ok", "error"}]
  /\ began \in [Processes -> 0 .. created]

\* The experiments there are at first come from other programs.
Init ==
  /\ namespaces \in SUBSET Namespaces
  /\ crds \in SUBSET Kinds
  /\ store \in [Experiments -> {0, 1}]
  /\ \A x \in Experiments : store[x] # 0 => x[1] \in namespaces /\ "experiments" \in crds
  /\ installed = {} /\ created = 1
  /\ commands = 0 /\ failures = 0
  /\ cmd \in [Processes -> {CHOOSE c \in Commands : TRUE}]
  /\ pc = [p \in Processes |-> "idle"]
  /\ cached = {}
  /\ todo = [p \in Processes |-> {}]
  /\ current = [p \in Processes |-> NoNamespace]
  /\ names = [p \in Processes |-> {}]
  /\ output = [p \in Processes |-> {}]
  /\ exit = [p \in Processes |-> "none"]
  /\ began = [p \in Processes |-> 0]

-----------------------------------------------------------------------------
(* Starting and ending.                                                    *)

Goto(p, step) == pc' = [pc EXCEPT ![p] = step]

End(p, result) == Goto(p, "idle") /\ exit' = [exit EXCEPT ![p] = result]

Named(c) == c.namespace # NoNamespace /\ c.name # NoName

\* The command lines that are not refused before anything is done.
Accepted(c) ==
  CASE c.verb = "delete" -> c.wide \/ (c.all /\ c.namespace # NoNamespace) \/ Named(c)
    [] c.verb = "create" -> Named(c)
    [] c.verb = "init"   -> c.namespace # NoNamespace
    [] OTHER             -> TRUE

\* Every flag of "delete" takes precedence over the name, the name over every flag of "get".
DeletesOne(c) == c.verb = "delete" /\ Named(c) /\ ~c.wide /\ ~c.all

ReadsOne(c) == c.verb = "get" /\ Named(c)

\* Slip: --all is taken for --every-resource.
FirstStepAllIsWide(c) ==
  CASE DeletesOne(c) \/ ReadsOne(c) \/ c.verb = "create" -> "connect"
    [] c.verb = "delete" \/ (c.verb = "get" /\ c.wide)    -> "namespaces"
    [] c.verb = "register" -> "reports"
    [] c.verb = "init"     -> "namespace"
    [] OTHER               -> "next"

FirstStep(c) ==
  CASE DeletesOne(c) \/ ReadsOne(c) \/ c.verb = "create" -> "connect"
    [] c.verb \in {"delete", "get"} /\ c.wide /\ ~ReadsOne(c) -> "namespaces"
    [] c.verb = "register" -> "reports"
    [] c.verb = "init"     -> "namespace"
    [] OTHER               -> "next"

\* The statistics are about one namespace whatever is asked for.
FirstNamespace(c) == IF c.verb = "stats" THEN Default ELSE c.namespace

Invoke(p, c) ==
  /\ pc[p] = "idle" /\ Accepted(c)
  /\ commands < MaxCommands
  /\ commands' = commands + 1
  /\ cmd' = [cmd EXCEPT ![p] = c]
  /\ Goto(p, FirstStep(c))
  /\ cached' = cached \ {p}
  /\ todo' = [todo EXCEPT ![p] = {FirstNamespace(c)}]
  /\ current' = [current EXCEPT ![p] = c.namespace]
  /\ names' = [names EXCEPT ![p] = IF DeletesOne(c) THEN {c.name} ELSE {}]
  /\ output' = [output EXCEPT ![p] = {}]
  /\ exit' = [exit EXCEPT ![p] = "none"]
  /\ began' = [began EXCEPT ![p] = created]
  /\ UNCHANGED <<cluster, failures>>

\* A client cannot be made, which is fatal, or a call of the API fails: the command ends
\* where it is.
CallFails(p) ==
  /\ pc[p] # "idle"
  /\ failures < MaxFailures
  /\ failures' = failures + 1
  /\ End(p, "error")
  /\ UNCHANGED <<cluster, commands, cmd, cached, todo, current, names, output, began>>

-----------------------------------------------------------------------------
(* Working through namespaces.                                             *)

ListNamespaces(p) ==
  /\ pc[p] = "namespaces"
  /\ todo' = [todo EXCEPT ![p] = namespaces]
  /\ Goto(p, "next")
  /\ UNCHANGED <<cluster, commands, failures, cmd, cached, current, names, output, exit, began>>

\* The client of "get" is cached in the options; the controller caches its own in copies
\* of itself, and makes a new one for each namespace.
NextNamespace(p) ==
  /\ pc[p] = "next" /\ todo[p] # {}
  /\ \E n \in todo[p] : /\ current' = [current EXCEPT ![p] = n]
                        /\ todo' = [todo EXCEPT ![p] = @ \ {n}]
  /\ Goto(p, IF p \in cached THEN "list" ELSE "connect")
  /\ UNCHANGED <<cluster, commands, failures, cmd, cached, names, output, exit, began>>

\* Nothing is printed before all namespaces are listed.
NoMoreNamespaces(p) ==
  /\ pc[p] = "next" /\ todo[p] = {}
  /\ End(p, "ok")
  /\ UNCHANGED <<cluster, commands, failures, cmd, cached, todo, current, names, output, began>>

\* The client does not register its resource.
Connect(p) ==
  /\ pc[p] = "connect"
  /\ Goto(p, CASE cmd[p].verb = "create" -> "write"
               [] ReadsOne(cmd[p])        -> "read"
               [] DeletesOne(cmd[p])      -> "delete"
               [] OTHER                   -> "list")
  /\ cached' = IF cmd[p].verb = "delete" THEN cached ELSE cached \cup {p}
  /\ UNCHANGED <<cluster, commands, failures, cmd, todo, current, names, output, exit, began>>

Registered == "experiments" \in crds

NotRegistered(p) ==
  /\ pc[p] \in {"list", "delete", "read", "write"} /\ ~Registered
  /\ End(p, "error")
  /\ UNCHANGED <<cluster, commands, failures, cmd, cached, todo, current, names, output, began>>

In(n) == {x \in Experiments : store[x] # 0 /\ n \in {x[1], NoNamespace}}

ListToDelete(p) ==
  /\ pc[p] = "list" /\ Registered /\ cmd[p].verb = "delete"
  /\ names' = [names EXCEPT ![p] = {x[2] : x \in In(current[p])}]
  /\ Goto(p, "delete")
  /\ UNCHANGED <<cluster, commands, failures, cmd, cached, todo, current, output, exit, began>>

\* Slip: the list of a namespace takes the place of those before it.
ListToPrintLast(p) ==
  /\ pc[p] = "list" /\ Registered /\ cmd[p].verb # "delete"
  /\ output' = [output EXCEPT ![p] = In(current[p])]
  /\ Goto(p, "next")
  /\ UNCHANGED <<cluster, commands, failures, cmd, cached, todo, current, names, exit, began>>

ListToPrint(p) ==
  /\ pc[p] = "list" /\ Registered /\ cmd[p].verb # "delete"
  /\ output' = [output EXCEPT ![p] = @ \cup In(current[p])]
  /\ Goto(p, "next")
  /\ UNCHANGED <<cluster, commands, failures, cmd, cached, todo, current, names, exit, began>>

-----------------------------------------------------------------------------
(* Single resources.                                                       *)

Target(p, name) == <<current[p], name>>

DeleteExperiment(p, name) ==
  /\ pc[p] = "delete" /\ Registered /\ name \in names[p]
  /\ store[Target(p, name)] # 0
  /\ store' = [store EXCEPT ![Target(p, name)] = 0]
  /\ names' = [names EXCEPT ![p] = @ \ {name}]
  /\ UNCHANGED <<namespaces, crds, installed, created, commands, failures, cmd, pc, cached, todo,
                 current, output, exit, began>>

\* Slip: an experiment that is gone ends the command as if all were done.
AlreadyGoneIsFine(p, name) ==
  /\ pc[p] = "delete" /\ Registered /\ name \in names[p]
  /\ store[Target(p, name)] = 0
  /\ End(p, "ok")
  /\ UNCHANGED <<cluster, commands, failures, cmd, cached, todo, current, names, output, began>>

\* Somebody else has deleted it: the rest is left as it is.
AlreadyGone(p, name) ==
  /\ pc[p] = "delete" /\ Registered /\ name \in names[p]
  /\ store[Target(p, name)] = 0
  /\ End(p, "error")
  /\ UNCHANGED <<cluster, commands, failures, cmd, cached, todo, current, names, output, began>>

AllDeleted(p) ==
  /\ pc[p] = "delete" /\ Registered /\ names[p] = {}
  /\ Goto(p, "next")
  /\ todo' = [todo EXCEPT ![p] = IF DeletesOne(cmd[p]) THEN {} ELSE @]
  /\ UNCHANGED <<cluster, commands, failures, cmd, cached, current, names, output, exit, began>>

ReadOne(p) ==
  /\ pc[p] = "read" /\ Registered
  /\ LET x == Target(p, cmd[p].name) IN
       /\ End(p, IF store[x] # 0 THEN "ok" ELSE "error")
       /\ output' = [output EXCEPT ![p] = IF store[x] # 0 THEN {x} ELSE {}]
  /\ UNCHANGED <<cluster, commands, failures, cmd, cached, todo, current, names, began>>

\* An experiment that is there is not overwritten, and one in no namespace not written.
CreateExperiment(p) ==
  /\ pc[p] = "write" /\ Registered
  /\ LET x == Target(p, cmd[p].name) IN
       IF store[x] = 0 /\ current[p] \in namespaces
       THEN /\ created' = created + 1
            /\ store' = [store EXCEPT ![x] = created + 1]
            /\ End(p, "ok")
       ELSE UNCHANGED <<created, store>> /\ End(p, "error")
  /\ UNCHANGED <<namespaces, crds, installed, commands, failures, cmd, cached, todo, current, names,
                 output, began>>

-----------------------------------------------------------------------------
(* register and init.                                                      *)

\* Slip: one client is enough.
RegisterReportsOnly(p) ==
  /\ pc[p] = "reports"
  /\ crds' = crds \cup {"reports"}
  /\ End(p, "ok")
  /\ UNCHANGED <<namespaces, store, installed, created, commands, failures, cmd, cached, todo,
                 current, names, output, began>>

\* The clients of this command register their resources.
RegisterReports(p) ==
  /\ pc[p] = "reports"
  /\ crds' = crds \cup {"reports"}
  /\ Goto(p, "experiments")
  /\ UNCHANGED <<namespaces, store, installed, created, commands, failures, cmd, cached, todo,
                 current, names, output, exit, began>>

RegisterExperiments(p) ==
  /\ pc[p] = "experiments"
  /\ crds' = crds \cup {"experiments"}
  /\ End(p, "ok")
  /\ UNCHANGED <<namespaces, store, installed, created, commands, failures, cmd, cached, todo,
                 current, names, output, began>>

\* A namespace that is there already is no error.
CreateNamespace(p) ==
  /\ pc[p] = "namespace"
  /\ namespaces' = namespaces \cup {cmd[p].namespace}
  /\ Goto(p, "render")
  /\ UNCHANGED <<crds, store, installed, created, commands, failures, cmd, cached, todo, current,
                 names, output, exit, began>>

\* A dry run ends here; the chart may be missing or wrong.
RenderManifests(p) ==
  /\ pc[p] = "render"
  /\ \/ cmd[p].dry /\ End(p, "ok")
     \/ ~cmd[p].dry /\ Goto(p, "apply") /\ UNCHANGED exit
     \/ End(p, "error")
  /\ UNCHANGED <<cluster, commands, failures, cmd, cached, todo, current, names, output, began>>

\* The chart brings the definition of experiments, unless the values say not to.
ChartKinds == {"experiments"}

\* Slip: the manifests are applied without a look at the namespace they are for.
ApplyElsewhere(p) ==
  /\ pc[p] = "apply"
  /\ \E applied \in SUBSET ChartKinds : crds' = crds \cup applied
  /\ \/ installed' = installed \cup {Default} /\ End(p, "ok")
     \/ UNCHANGED installed /\ End(p, "error")
  /\ UNCHANGED <<namespaces, store, created, commands, failures, cmd, cached, todo, current, names,
                 output, began>>

\* One manifest may be refused when others have been applied.
Apply(p) ==
  /\ pc[p] = "apply"
  /\ \E applied \in SUBSET ChartKinds : crds' = crds \cup applied
  /\ \/ installed' = installed \cup {cmd[p].namespace} /\ End(p, "ok")
     \/ UNCHANGED installed /\ End(p, "error")
  /\ UNCHANGED <<namespaces, store, created, commands, failures, cmd, cached, todo, current, names,
                 output, began>>

-----------------------------------------------------------------------------

Step(p) ==
  \/ ListNamespaces(p) \/ NextNamespace(p) \/ NoMoreNamespaces(p) \/ Connect(p)
  \/ NotRegistered(p) \/ ListToDelete(p) \/ ListToPrint(p)
  \/ (\E name \in Names : DeleteExperiment(p, name) \/ AlreadyGone(p, name)) \/ AllDeleted(p)
  \/ ReadOne(p) \/ CreateExperiment(p)
  \/ RegisterReports(p) \/ RegisterExperiments(p)
  \/ CreateNamespace(p) \/ RenderManifests(p) \/ Apply(p)

Next ==
  \E p \in Processes : (\E c \in Commands : Invoke(p, c)) \/ Step(p) \/ CallFails(p)

Spec == Init /\ [][Next]_vars

-----------------------------------------------------------------------------
(* Properties.                                                             *)

\* What the flags of a command say it is about.
Scope(c) ==
  {x \in Experiments :
     \/ c.verb = "delete" /\ (c.wide \/ (c.all /\ x[1] = c.namespace))
     \/ (DeletesOne(c) \/ ReadsOne(c)) /\ x = <<c.namespace, c.name>>
     \/ c.verb = "get" /\ ~Named(c) /\ (c.wide \/ c.namespace \in {x[1], NoNamespace})
     \/ c.verb = "stats" /\ x[1] = Default}

\* The experiments in scope that have been there since before the command began.
Old(p) == {x \in Scope(cmd[p]) : store[x] \in 1 .. began[p]}

\* When "delete" says it is done, nothing is left of what there was in its scope when it
\* began, whatever others create, delete and create again meanwhile (DeleteExperiments,
\* DeleteAllExperiments).
DeletesAreComplete ==
  \A p \in Processes : cmd[p].verb = "delete" /\ exit[p] = "ok" => Old(p) = {}

\* No command deletes an experiment outside the scope its own flags give, whatever it
\* listed (DeleteExperiments, doDeleteExperiments).
DeletesAreInScope ==
  [][\A x \in Experiments :
       store[x] # 0 /\ store'[x] = 0 =>
         \E p \in Processes : /\ cmd[p].verb = "delete" /\ x \in Scope(cmd[p])
                              /\ names'[p] # names[p]]_vars

\* What "get" and the statistics show misses none of the experiments in scope that have
\* been there all the while, though it is listed namespace by namespace.
ListsAreComplete ==
  \A p \in Processes : cmd[p].verb \in {"get", "stats"} /\ exit[p] = "ok" => Old(p) \subseteq output[p]

\* What a command may register: "register" both resources, "init" what the chart brings,
\* when it is no dry run, and all others nothing.
MayRegister(p) ==
  CASE pc[p] = "idle"             -> {}
    [] cmd[p].verb = "register"   -> Kinds
    [] cmd[p].verb = "init"       -> IF cmd[p].dry THEN {} ELSE {"experiments"}
    [] OTHER                      -> {}

\* A "register" that succeeds leaves both resources registered, whatever else runs, and no
\* command registers more than it may, though all go through the same clients
\* (CreateClientset, ClientCache, installGlooshot).
RegisterRegisters ==
  [][/\ \A p \in Processes : cmd'[p].verb = "register" /\ exit'[p] = "ok" => crds' = Kinds
     /\ crds' # crds => \E p \in Processes : crds' \ crds \subseteq MayRegister(p)]_vars
=============================================================================
