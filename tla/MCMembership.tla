---------------------------- MODULE MCMembership ----------------------------
(* A small instance of Membership for TLC. *)
EXTENDS Membership, TLC

CONSTANTS p

MCAge == p :> 1 @@ Self :> 2
=============================================================================
