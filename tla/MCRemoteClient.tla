--------------------------- MODULE MCRemoteClient ---------------------------
(* A small instance of RemoteClient for TLC. *)
EXTENDS RemoteClient, TLC

CONSTANTS r1, r2

MCScenarios ==
    {r1 :> "call" @@ r2 :> "call",
     r1 :> "call" @@ r2 :> "handshake",
     r1 :> "missing" @@ r2 :> "identify",
     r1 :> "call" @@ r2 :> "ping"}
=============================================================================
