----------------------------- MODULE MCSharding -----------------------------
(* Small instances of Sharding for TLC. *)
EXTENDS Sharding

CONSTANTS r1, r2

\* A cluster that does not change and two requests; a cluster that does, and one.
MCScenarios ==
    {[changes |-> {}, requests |-> {r1, r2}],
     [changes |-> {"join", "leave", "rebalance"}, requests |-> {r1}]}
=============================================================================
