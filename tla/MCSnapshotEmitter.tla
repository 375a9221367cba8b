---------------------------- MODULE MCSnapshotEmitter ----------------------------
(* A small instance of SnapshotEmitter for TLC. *)
EXTENDS SnapshotEmitter

CONSTANTS n1, n2, Some
=============================================================================
