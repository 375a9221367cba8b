------------------------------ MODULE MCCommandLine ------------------------------
(* A small instance of CommandLine for TLC. *)
EXTENDS CommandLine

CONSTANTS p1, p2, n1, n2, a, b

Command(verb, wide, all, dry, namespace, name) ==
  [verb |-> verb, wide |-> wide, all |-> all, dry |-> dry, namespace |-> namespace, name |-> name]

MCCommands ==
  {Command("delete", TRUE, FALSE, FALSE, n1, NoName), Command("delete", FALSE, TRUE, FALSE, n1, NoName),
   Command("delete", FALSE, FALSE, FALSE, n1, a), Command("delete", FALSE, TRUE, FALSE, NoNamespace, NoName),
   Command("get", TRUE, FALSE, FALSE, n1, NoName), Command("get", FALSE, FALSE, FALSE, NoNamespace, NoName),
   Command("get", TRUE, FALSE, FALSE, n1, a), Command("stats", FALSE, FALSE, FALSE, NoNamespace, NoName),
   Command("create", FALSE, FALSE, FALSE, n1, a), Command("register", FALSE, FALSE, FALSE, n1, NoName),
   Command("init", FALSE, FALSE, TRUE, n2, NoName), Command("init", FALSE, FALSE, FALSE, n2, NoName)}
=============================================================================
