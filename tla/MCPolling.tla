-------------------------------- MODULE MCPolling --------------------------------
(* Small instances of Polling for TLC. *)
EXTENDS Polling

CONSTANTS e1, c1, c2, rate, latency

Condition_(name, query, operator, threshold) ==
  [name |-> name, query |-> query, operator |-> operator, threshold |-> threshold]

\* Two conditions of different queries and thresholds; one that is met below its
\* threshold with "==", and one with a trigger of another kind after it; one that
\* MonitorExperiment gives up on, and one that it panics on.
Two       == <<Condition_(c1, rate, "", 1), Condition_(c2, latency, "<=", 0)>>
Equal     == <<Condition_(c2, rate, "==", 1), Condition_(c1, NoQuery, "", 0)>>
Rejected  == <<Condition_(c1, rate, ">=", 1), Condition_(c2, BadQuery, ">", 0)>>
Panicking == <<Condition_(c1, rate, ">", 0), Condition_(c2, NoTrigger, "<", 0)>>

MCUserSpecs == {Two, Equal, Rejected, Panicking, NoSpec}
OneSpec     == {Two}
=============================================================================
