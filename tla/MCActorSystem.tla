--------------------------- MODULE MCActorSystem ----------------------------
(* A small instance of ActorSystem for TLC. *)
EXTENDS ActorSystem, TLC

CONSTANTS a1, a2, c, r1, r2, r3

\* Two incarnations of one id and a child of the first.
MCIdOf == a1 :> "a" @@ a2 :> "a" @@ c :> "c"
MCParent == a1 :> NoActor @@ a2 :> NoActor @@ c :> a1

\* A message that may stop or break the parent, a stop of the parent and one of
\* the child; the second incarnation watches the first.
MCTo == r1 :> a1 @@ r2 :> a1 @@ r3 :> c
MCKind == r1 :> "send" @@ r2 :> "stop" @@ r3 :> "stop"
MCWatches == {<<a2, a1>>}
MCScenarios ==
    {[actors |-> {a1}, requests |-> {r1, r2}], [actors |-> {a1}, requests |-> {r2, r3}],
     [actors |-> {a1, a2}, requests |-> {r2}]}
=============================================================================
