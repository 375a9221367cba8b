------------------------------ MODULE MCTranslator ------------------------------
(* A small instance of Translator for TLC. *)
EXTENDS Translator

CONSTANTS e1, e2, delay, abort, m1, m2

Of(mesh, faults) == [mesh |-> mesh, faults |-> faults]

\* One fault for the only mesh, two for a mesh that is named, and one of two that
\* cannot be translated.
MCUserSpecs == {Of(NoMesh, <<delay>>), Of(m1, <<abort, delay>>), Of(NoMesh, <<delay, BadFault>>)}

MCForeign == {<<e2, 2>>}
=============================================================================
