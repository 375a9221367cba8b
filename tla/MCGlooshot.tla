------------------------------ MODULE MCGlooshot ------------------------------
(* Small instances of Glooshot for TLC. *)
EXTENDS Glooshot

CONSTANTS
  none, named, unnamed, doubled, badQuery, untriggered, webhook, \* conditions
  noFaults, delay, abort, badFault                               \* faults

MCConditions == {none, named, unnamed, doubled, badQuery, untriggered, webhook}
MCPolled == {named, unnamed, doubled, badQuery}
MCFaults == {noFaults, delay, abort, badFault}

Of(conditions, duration, faults) ==
  [conditions |-> conditions, names |-> NoTime, duration |-> duration, faults |-> faults]

\* Specs that the code accepts and can translate.
Plain     == Of(named, NoDuration, delay)
Short     == Of(named, 0, delay)
Brief     == Of(named, 1, delay)
Long      == Of(named, 2, delay)
Anonymous == Of(unnamed, NoDuration, abort)
Timed     == Of(none, 1, delay)
Webhooked == Of(webhook, 1, noFaults)

\* Specs that it does not.
Doubled  == Of(doubled, NoDuration, delay)
BadQuery == Of(badQuery, NoDuration, abort)
BadFault == Of(none, NoDuration, badFault)
Deadly   == Of(untriggered, NoDuration, noFaults)

OneSpec        == {Brief}
LifecycleSpecs == {Long, Short, Anonymous, Webhooked, NoSpec}
FaultySpecs    == {Timed, BadFault}
EditedSpecs    == {Plain, Doubled, BadQuery, Deadly, NoSpec}
=============================================================================
