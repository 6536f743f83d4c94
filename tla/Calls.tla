------------------------------- MODULE Calls --------------------------------
(***************************************************************************)
(* What every request/reply path of the framework promises a caller:       *)
(* LocalActorRef::send and ::stop, a request to a sharded entity, a call   *)
(* over the network.  A request is made once, gets at most one answer, is  *)
(* refused only if its callee cannot serve it, and is answered in the end  *)
(* unless the callee is cut off.                                           *)
(***************************************************************************)
CONSTANT Requests

VARIABLES
    outcome,   \* request -> unsent | waiting | ok | err
    impaired,  \* the requests whose callee cannot (or may not) serve them
    cut_off    \* the requests whose callee may never answer

vars == <<outcome, impaired, cut_off>>

Init ==
    /\ outcome = [r \in Requests |-> "unsent"]
    /\ impaired \subseteq Requests /\ cut_off \subseteq Requests

(* What becomes of the callees is not the callers' doing.                   *)
Fate == impaired' \subseteq Requests /\ cut_off' \subseteq Requests

Become(S, now) == outcome' = [r \in Requests |-> IF r \in S THEN now ELSE outcome[r]]

Send(r) == outcome[r] = "unsent" /\ Become({r}, "waiting")

(* Several requests can be answered at once: all who wait for an actor to   *)
(* stop are, and all whose messages are dropped with its mailbox.           *)
Reply(S) ==
    /\ \A r \in S : outcome[r] = "waiting"
    /\ Become(S, "ok")

Refuse(S) ==
    /\ \A r \in S : outcome[r] \in {"unsent", "waiting"}
    /\ S \subseteq impaired
    /\ Become(S, "err")

Next ==
    /\ \/ \E r \in Requests : Send(r)
       \/ \E S \in SUBSET Requests : Reply(S) \/ Refuse(S)
    /\ Fate

Answered(r) == outcome[r] \in {"ok", "err"}

Spec == /\ Init /\ [][Next]_vars
        /\ \A r \in Requests : outcome[r] = "waiting" ~> Answered(r) \/ r \in cut_off
=============================================================================
