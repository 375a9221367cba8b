-------------------------------- MODULE RuleSync --------------------------------
(***************************************************************************)
(* What the translator promises about the routing rules, fault by fault:   *)
(* whatever is injected was asked for.  The users ask, the emitter offers  *)
(* what was asked at one moment, a pass aims at what was offered, and the  *)
(* only way a fault changes is to become what the pass aims at, one fault  *)
(* at a time.  A restart forgets what was offered and aimed at, and leaves *)
(* the faults as they are.                                                 *)
(***************************************************************************)
CONSTANTS Keys,      \* a fault: its experiment and its index
          Nothing    \* no fault

VARIABLES asked,     \* what the experiments in the API ask for
          offered,   \* what they asked for when the last snapshot was emitted
          aim,       \* what the pass under way wants
          injected   \* what the rules in the mesh do

vars == <<asked, offered, aim, injected>>

Init == /\ asked = [k \in Keys |-> Nothing]
        /\ offered = asked /\ aim = asked /\ injected = asked

Ask == UNCHANGED <<offered, aim, injected>>

Offer == offered' = asked /\ UNCHANGED <<asked, aim, injected>>

Aim == aim' = offered /\ UNCHANGED <<asked, offered, injected>>

Move(k) == /\ injected' = [injected EXCEPT ![k] = aim[k]]
           /\ UNCHANGED <<asked, offered, aim>>

Forget == /\ offered' = [k \in Keys |-> Nothing]
          /\ aim' = [k \in Keys |-> Nothing]
          /\ UNCHANGED <<asked, injected>>

Next == Ask \/ Offer \/ Aim \/ (\E k \in Keys : Move(k)) \/ Forget

Spec == Init /\ [][Next]_vars
=============================================================================
