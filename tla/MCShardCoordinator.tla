------------------------- MODULE MCShardCoordinator -------------------------
(* Small instances of ShardCoordinator for TLC. *)
EXTENDS ShardCoordinator, TLC

\* No action, and no property, treats one shard or one node differently.
Symmetry == Permutations(Shards) \cup Permutations(Nodes)
=============================================================================
