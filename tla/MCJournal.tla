----------------------------- MODULE MCJournal ------------------------------
EXTENDS Journal

(* Every storage call of the in-memory provider succeeds, so longer         *)
(* histories fit.                                                           *)
MCMaxIssued == [memory |-> 5, redis |-> 3]

MCMaxIssuedShort == [memory |-> 3]
=============================================================================
