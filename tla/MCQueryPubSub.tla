----------------------------- MODULE MCQueryPubSub -----------------------------
(* Small instances of QueryPubSub for TLC. *)
EXTENDS QueryPubSub
=============================================================================
