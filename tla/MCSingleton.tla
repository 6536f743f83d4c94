---------------------------- MODULE MCSingleton -----------------------------
(* Small instances of Singleton for TLC. *)
EXTENDS Singleton

CONSTANT r1

\* A cluster of two that a third node joins and in which a node may fail; a
\* complete one in which the leader may be suspected wrongly; and one in which
\* both may happen, without clients.
MCClusters ==
    {[members |-> {1, 2}, crashes |-> 1, flaps |-> 0, requests |-> {r1}],
     [members |-> {1, 2, 3}, crashes |-> 0, flaps |-> 1, requests |-> {r1}],
     [members |-> {1, 2, 3}, crashes |-> 1, flaps |-> 1, requests |-> {}]}
=============================================================================
