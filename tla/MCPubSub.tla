------------------------------ MODULE MCPubSub ------------------------------
(* A small instance of PubSub for TLC: a publishes to b and c, b publishes  *)
(* to a, and the subscriber is on b.                                        *)
EXTENDS PubSub, TLC

CONSTANTS a, b, c, s, m1, m2, m3

MCHome == s :> b

MCOrigin == m1 :> a @@ m2 :> b @@ m3 :> b

MCReach == m1 :> "Cluster" @@ m2 :> "Cluster" @@ m3 :> "Local"

MCLinks == {<<a, b>>, <<a, c>>, <<b, a>>}
=============================================================================
