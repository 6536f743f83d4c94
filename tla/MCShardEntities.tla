-------------------------- MODULE MCShardEntities ---------------------------
(* A small instance of ShardEntities for TLC. *)
EXTENDS ShardEntities, TLC

CONSTANTS e1, e2, r1, r2, r3

MCKind(entity, recipe, remote, supported) ==
    [entity |-> entity, recipe |-> recipe, remote |-> remote, supported |-> supported]

\* Two requests for one entity and a third for the other, without a handler
\* or without a recipe.
MCScenarios ==
    {r1 :> MCKind(e1, TRUE, FALSE, TRUE) @@ r2 :> MCKind(e1, recipe, TRUE, TRUE)
        @@ r3 :> third : recipe \in BOOLEAN,
            third \in {MCKind(e1, TRUE, FALSE, TRUE), MCKind(e2, TRUE, TRUE, FALSE)}}
=============================================================================
