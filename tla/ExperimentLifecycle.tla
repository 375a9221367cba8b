--------------------------- MODULE ExperimentLifecycle ---------------------------
(***************************************************************************)
(* What Glooshot promises for the experiments users submit, when nobody    *)
(* edits or deletes them: one with a timeout is concluded, and once one is *)
(* concluded its faults are taken out of the mesh and stay out.  Faults    *)
(* are put in place only once the experiment is known to be started.       *)
(***************************************************************************)
EXTENDS Naturals

CONSTANT Names

VARIABLES
  status,  \* the state of each experiment
  limited, \* the experiments with a timeout
  faulty   \* the experiments whose faults are in the mesh

vars == <<status, limited, faulty>>

Absent == "absent"
Final  == {"Failed", "Succeeded"}

Init == status = [n \in Names |-> Absent] /\ limited = {} /\ faulty = {}

Submit(n) ==
  /\ status[n] = Absent
  /\ status' = [status EXCEPT ![n] = "Pending"]
  /\ limited' \in {limited, limited \cup {n}}
  /\ UNCHANGED faulty

Start(n) ==
  /\ status[n] = "Pending"
  /\ status' = [status EXCEPT ![n] = "Started"]
  /\ UNCHANGED <<limited, faulty>>

\* A concluded experiment may be concluded again, and differently: two monitors
\* of it, one of them of an older sync, may both report.
Conclude(n) ==
  /\ status[n] \in Final \cup {"Started"}
  /\ \E result \in Final : status' = [status EXCEPT ![n] = result]
  /\ UNCHANGED <<limited, faulty>>

\* All the faults are brought in line at once, perhaps from an old snapshot.
Route ==
  /\ faulty' \in SUBSET Names
  /\ \A n \in faulty' \ faulty : status[n] \in Final \cup {"Started"}
  /\ UNCHANGED <<status, limited>>

Next == Route \/ \E n \in Names : Submit(n) \/ Start(n) \/ Conclude(n)

Spec == Init /\ [][Next]_vars

\* Stated without ENABLED, so that a refinement of it can be checked.
Liveness ==
  \A n \in Names :
    /\ (n \in limited) ~> (status[n] \in Final)
    /\ (status[n] \in Final) ~> [](n \notin faulty)
=============================================================================
