------------------------- MODULE ActorSystemProofs --------------------------
(***************************************************************************)
(* Proofs about ActorSystem, for any actors, supervisors, ids, requests    *)
(* and watches: that a stop which was answered is final, and that every    *)
(* local call is answered at most once and refused only for a reason, the  *)
(* safety of Calls.                                                        *)
(***************************************************************************)
EXTENDS ActorSystem, TLAPS

\* Few steps need arithmetic or sequences; those name the SMT solver.
USE Zenon

Senders == Actors \cup Requests \cup {Scheduler}
Messages == [type : {"Request", "Stop", "Watch", "Unwatch", "Terminated", "ActorTerminated"},
             from : Senders]
Notices == [type : {"RegisterActor", "DeregisterActor", "Stop"}, from : Actors \cup {NoActor}]

Types ==
    /\ stage \in [Actors -> Stages]
    /\ mailbox \in [Actors -> Seq(Messages)]
    /\ on_stopped \in [Actors -> SUBSET Senders]
    /\ creator \in [Actors -> {"none", "spawned", "registering", "registered", "ok", "failed"}]
    /\ actors \in [Ids -> Actors \cup {NoActor}]
    /\ inbox \in Seq(Notices)
    /\ outcome \in [Requests -> {"unsent", "waiting", "ok", "err"}]

-----------------------------------------------------------------------------
(* The scheduler's mailbox: whoever has a message in it waits for it to be  *)
(* handled, and has one.                                                    *)
Awaited ==
    \A i \in DOMAIN inbox :
        LET a == inbox[i].from
        IN  /\ inbox[i].type = "RegisterActor" => a \in Actors /\ creator[a] = "registering"
            /\ inbox[i].type = "DeregisterActor" => a \in Actors /\ stage[a] = "deregistering"
            /\ inbox[i].type # "Stop" => \A j \in DOMAIN inbox : inbox[j] = inbox[i] => j = i

(* Only tracked actors are created by a creator and are registered, and the *)
(* scheduler stops only after the system was marked as terminated.          *)
Tracking ==
    /\ \A a \in Actors : creator[a] # "none" => Tracked(a) /\ stage[a] # "new"
    /\ \A i \in Ids : actors[i] # NoActor => Tracked(actors[i])
    /\ \/ scheduler # "running" \/ shutdown # "no"
       \/ \E i \in DOMAIN inbox : inbox[i].type = "Stop"
       => is_terminated

(* The caller of a stop has the actor's reference, so that an actor which   *)
(* is tracked has been registered.                                          *)
Referenced(r) == Kind[r] = "stop" /\ Tracked(To[r]) => creator[To[r]] = "ok"

(* A request in a mailbox is in that of its actor, and its caller waits ... *)
Posted(a, i) ==
    LET m == mailbox[a][i]
    IN  /\ m.type = "Request" => m.from \in Requests
        /\ m.from \in Requests =>
             /\ To[m.from] = a /\ outcome[m.from] = "waiting" /\ Referenced(m.from)
             /\ m.type = IF Kind[m.from] = "stop" THEN "Stop" ELSE "Request"
             /\ m.from \notin on_stopped[a]
             /\ \A j \in DOMAIN mailbox[a] : mailbox[a][j].from = m.from => j = i

(* ... and so does that of a stop that was taken from it.                   *)
Stopping(a, r) == To[r] = a /\ outcome[r] = "waiting" /\ Referenced(r) /\ Kind[r] = "stop"

InFlight ==
    \A a \in Actors :
        /\ \A i \in DOMAIN mailbox[a] : Posted(a, i)
        /\ \A r \in on_stopped[a] \cap Requests : Stopping(a, r)

(* The scheduler does not hand a out, unless the system is terminated.      *)
Unlisted(a) == ~is_terminated => actors[IdOf[a]] # a

(* An actor that is about to answer those who stopped it is deregistered,   *)
(* and remains so once it has.                                              *)
Deregistered ==
    /\ \A a \in Actors :
         stage[a] = "finishing" /\ on_stopped[a] \cap Requests # {} => Unlisted(a)
    /\ \A r \in Requests : Kind[r] = "stop" /\ outcome[r] = "ok" =>
         stage[To[r]] \in {"dropping", "gone"} /\ Unlisted(To[r]) /\ Referenced(r)

IInv == Types /\ Awaited /\ Tracking /\ InFlight /\ Deregistered

-----------------------------------------------------------------------------
(* Helpers.                                                                 *)

(* Appending to a sequence, and taking its head, entry by entry.            *)
LEMMA AppendEntries ==
    ASSUME NEW S, NEW s \in Seq(S), NEW x \in S
    PROVE  /\ Append(s, x) \in Seq(S)
           /\ DOMAIN Append(s, x) = DOMAIN s \cup {Len(s) + 1}
           /\ Len(s) + 1 \notin DOMAIN s
           /\ \A i \in DOMAIN s : Append(s, x)[i] = s[i]
           /\ Append(s, x)[Len(s) + 1] = x
BY SMT

\* Popping a message leaves the other entries of the mailbox, one place earlier.
LEMMA TailEntries ==
    ASSUME NEW S, NEW s \in Seq(S), s # <<>>
    PROVE  /\ Tail(s) \in Seq(S) /\ Head(s) \in S
           /\ 1 \in DOMAIN s /\ Head(s) = s[1]
           /\ \A i \in DOMAIN Tail(s) : i + 1 \in DOMAIN s /\ i + 1 # 1 /\ Tail(s)[i] = s[i + 1]
           /\ \A i, j \in DOMAIN Tail(s) : i + 1 = j + 1 => i = j
BY SMT

(* The message kinds.                                                       *)
LEMMA MsgFields ==
    ASSUME NEW t, NEW x
    PROVE  Msg(t, x).type = t /\ Msg(t, x).from = x
BY DEF Msg

\* A message from a request or from an actor may be in a mailbox.
LEMMA MsgIsMessage ==
    ASSUME NEW t \in {"Request", "Stop", "Watch", "Unwatch", "Terminated", "ActorTerminated"},
           NEW x \in Senders
    PROVE  Msg(t, x) \in Messages
BY DEF Msg, Messages

\* A notice about an actor may be in the scheduler's inbox.
LEMMA MsgIsNotice ==
    ASSUME NEW t \in {"RegisterActor", "DeregisterActor", "Stop"},
           NEW x \in Actors \cup {NoActor}
    PROVE  Msg(t, x) \in Notices
BY DEF Msg, Notices

(* Sending a message to several actors.                                     *)
LEMMA NotifiedEntries ==
    ASSUME Types, NEW S, NEW m \in Messages
    PROVE  /\ Notified(S, m) \in [Actors -> Seq(Messages)]
           /\ \A a \in Actors : Notified(S, m)[a] \in {mailbox[a], Append(mailbox[a], m)}
           /\ \A a \in Actors : a \notin S => Notified(S, m)[a] = mailbox[a]
           /\ \A a \in Actors : ~Open(a) => Notified(S, m)[a] = mailbox[a]
           /\ \A a \in Actors : a \in S /\ Open(a) => Notified(S, m)[a] = Append(mailbox[a], m)
<1>1. \A a \in Actors : Append(mailbox[a], m) \in Seq(Messages) /\ mailbox[a] \in Seq(Messages)
      BY AppendEntries DEF Types
<1> QED BY <1>1 DEF Notified

-----------------------------------------------------------------------------
(* The scheduler's mailbox.                                                 *)

(* It does not change, and those who wait still do.                         *)
LEMMA AwaitedKept ==
    ASSUME Awaited, inbox' = inbox,
           \A a \in Actors : creator[a] = "registering" => creator'[a] = "registering",
           \A a \in Actors : stage[a] = "deregistering" => stage'[a] = "deregistering"
    PROVE  Awaited'
BY DEF Awaited

(* Its first message is taken: only its sender goes on.                     *)
LEMMA AwaitedTaken ==
    ASSUME Types, Awaited, inbox # <<>>, inbox' = Tail(inbox),
           \A a \in Actors : creator[a] = "registering" =>
               creator'[a] = "registering" \/ Head(inbox) = Msg("RegisterActor", a),
           \A a \in Actors : stage[a] = "deregistering" =>
               stage'[a] = "deregistering" \/ Head(inbox) = Msg("DeregisterActor", a)
    PROVE  Awaited'
<1>0. inbox \in Seq(Notices) BY DEF Types
<1>1. /\ 1 \in DOMAIN inbox /\ Head(inbox) = inbox[1]
      /\ \A i \in DOMAIN inbox' : i + 1 \in DOMAIN inbox /\ i + 1 # 1 /\ inbox'[i] = inbox[i + 1]
      /\ \A i, j \in DOMAIN inbox' : i + 1 = j + 1 => i = j
      BY <1>0, TailEntries
<1>2. SUFFICES ASSUME NEW i \in DOMAIN inbox', NEW m \in Notices, m = inbox'[i],
                      NEW k \in DOMAIN inbox, k = i + 1, k # 1, inbox[k] = m
               PROVE  /\ m.type = "RegisterActor" => m.from \in Actors /\ creator'[m.from] = "registering"
                      /\ m.type = "DeregisterActor" => m.from \in Actors /\ stage'[m.from] = "deregistering"
                      /\ m.type # "Stop" => \A j \in DOMAIN inbox' : inbox'[j] = m => j = i
  <2>1. \A j \in DOMAIN inbox : inbox[j] \in Notices BY SMT, <1>0
  <2> QED BY SMT, <1>1, <1>2, <2>1 DEF Awaited
<1>3. /\ m.type = "RegisterActor" => m.from \in Actors /\ creator[m.from] = "registering"
      /\ m.type = "DeregisterActor" => m.from \in Actors /\ stage[m.from] = "deregistering"
      /\ m.type # "Stop" => \A j \in DOMAIN inbox : inbox[j] = m => j = k
      BY <1>2 DEF Awaited
<1>4. m.type # "Stop" => Head(inbox) # m BY <1>1, <1>2, <1>3
<1>5. m = Msg(m.type, m.from) BY DEF Notices, Msg
<1>6. \A j \in DOMAIN inbox' : inbox'[j] = m /\ m.type # "Stop" => j = i
      BY <1>1, <1>2, <1>3
<1> QED BY <1>3, <1>4, <1>5, <1>6

(* A message of one who did not wait yet is added.                          *)
LEMMA AwaitedAdded ==
    ASSUME Types, Awaited, NEW m \in Notices, inbox' = Append(inbox, m),
           m.type = "RegisterActor" =>
               m.from \in Actors /\ creator[m.from] # "registering" /\ creator'[m.from] = "registering",
           m.type = "DeregisterActor" =>
               m.from \in Actors /\ stage[m.from] # "deregistering" /\ stage'[m.from] = "deregistering",
           \A a \in Actors : creator[a] = "registering" => creator'[a] = "registering",
           \A a \in Actors : stage[a] = "deregistering" => stage'[a] = "deregistering"
    PROVE  Awaited'
<1>0. inbox \in Seq(Notices) BY DEF Types
<1>1. PICK n : n = Len(inbox) + 1 OBVIOUS
<1>2. /\ DOMAIN inbox' = DOMAIN inbox \cup {n} /\ n \notin DOMAIN inbox
      /\ \A i \in DOMAIN inbox : inbox'[i] = inbox[i]
      /\ inbox'[n] = m
      BY SMT, <1>0, <1>1, AppendEntries
<1>3. m.type # "Stop" => \A i \in DOMAIN inbox : inbox[i] # m
      BY DEF Awaited, Notices
<1> QED BY SMT, <1>2, <1>3 DEF Awaited

-----------------------------------------------------------------------------
(* Steps of the actors' own tasks, which leave the scheduler and the        *)
(* creators alone.                                                          *)

(* Where an actor may go: nothing turns it back, or takes it away from the  *)
(* scheduler that it waits for.                                             *)
Moves ==
    \A a \in Actors :
        /\ stage[a] # "new" => stage'[a] # "new"
        /\ stage[a] = "deregistering" => stage'[a] = "deregistering"
        /\ stage[a] \in {"dropping", "gone"} => stage'[a] \in {"dropping", "gone"}

\* Steps of an actor that leave the system alone keep Awaited and Tracking.
LEMMA LocalTracking ==
    ASSUME Awaited, Tracking, UNCHANGED system, Moves
    PROVE  Awaited' /\ Tracking'
<1>1. Awaited' BY AwaitedKept DEF Moves, system
<1>2. Tracking' BY DEF Tracking, Moves, system
<1> QED BY <1>1, <1>2

(* ... and which answer no stop.                                            *)
LEMMA LocalDeregistered ==
    ASSUME Tracking, Deregistered, UNCHANGED system, Moves,
           \A a \in Actors : stage'[a] = "finishing" =>
               stage[a] = "finishing" \/ ~Tracked(a) \/ is_terminated,
           \A a \in Actors : stage'[a] = "finishing" =>
               on_stopped'[a] \cap Requests \subseteq on_stopped[a],
           \A r \in Requests : Kind[r] = "stop" /\ outcome'[r] = "ok" => outcome[r] = "ok"
    PROVE  Deregistered'
<1>0. \A a \in Actors : IdOf[a] \in Ids BY ActorsAssumption
<1>1. \A a \in Actors : ~Tracked(a) => Unlisted(a)
      BY SMT, <1>0, ActorsAssumption DEF Tracking, Unlisted, Tracked
<1>2. \A a \in Actors : Unlisted(a) <=> Unlisted(a)' BY DEF Unlisted, system
<1>3. \A a \in Actors : is_terminated => Unlisted(a) BY DEF Unlisted
<1>4. \A r \in Requests : Referenced(r) <=> Referenced(r)' BY DEF Referenced, system
<1>5. \A r \in Requests : To[r] \in Actors BY ActorsAssumption
<1>6. \A a \in Actors : stage'[a] = "finishing" /\ on_stopped'[a] \cap Requests # {} => Unlisted(a)'
      BY <1>1, <1>2, <1>3 DEF Deregistered
<1>7. \A r \in Requests : Kind[r] = "stop" /\ outcome'[r] = "ok" =>
         stage'[To[r]] \in {"dropping", "gone"} /\ Unlisted(To[r])' /\ Referenced(r)'
      BY <1>2, <1>4, <1>5 DEF Deregistered, Moves
<1> QED BY <1>6, <1>7 DEF Deregistered

-----------------------------------------------------------------------------
(* Requests in flight.                                                      *)

\* A reference that a caller has is not taken back.
ReferencesKept == \A a \in Actors : creator[a] = "ok" => creator'[a] = "ok"

\* The target of a request that was referenced still is.
LEMMA ReferencedKept ==
    ASSUME ReferencesKept, NEW r \in Requests, Referenced(r)
    PROVE  Referenced(r)'
BY ActorsAssumption DEF ReferencesKept, Referenced, Tracked

(* One message in a mailbox after a step, if it was in it before: when its  *)
(* caller still waits.                                                      *)
LEMMA PostedKept ==
    ASSUME NEW a \in Actors, NEW i \in DOMAIN mailbox[a], Posted(a, i), ReferencesKept,
           NEW k \in DOMAIN mailbox'[a], mailbox'[a][k] = mailbox[a][i],
           mailbox[a][i].from \in Requests =>
               /\ outcome'[mailbox[a][i].from] = "waiting"
               /\ mailbox[a][i].from \notin on_stopped'[a]
               /\ \A j \in DOMAIN mailbox'[a] : mailbox'[a][j].from = mailbox[a][i].from => j = k
    PROVE  Posted(a, k)'
<1> PICK m : m = mailbox[a][i] OBVIOUS
<1>1. m.from \in Requests => Referenced(m.from)' BY ReferencedKept DEF Posted
<1> QED BY <1>1 DEF Posted

(* Nothing is sent or received, and callers still wait.                     *)
LEMMA InFlightKept ==
    ASSUME InFlight, ReferencesKept, UNCHANGED <<mailbox, on_stopped, outcome>>
    PROVE  InFlight'
<1>1. ASSUME NEW a \in Actors, NEW i \in DOMAIN mailbox[a] PROVE Posted(a, i)'
  <2>1. Posted(a, i) BY DEF InFlight
  <2>2. mailbox[a][i].from \in Requests =>
            /\ outcome[mailbox[a][i].from] = "waiting"
            /\ mailbox[a][i].from \notin on_stopped[a]
            /\ \A j \in DOMAIN mailbox[a] : mailbox[a][j].from = mailbox[a][i].from => j = i
        BY <2>1 DEF Posted
  <2> QED BY <2>1, <2>2, PostedKept
<1>2. ASSUME NEW a \in Actors, NEW r \in on_stopped[a] \cap Requests PROVE Stopping(a, r)'
  <2>1. Stopping(a, r) BY DEF InFlight
  <2> QED BY <2>1, ReferencedKept DEF Stopping
<1> QED BY <1>1, <1>2 DEF InFlight

(* A message that is no request is sent to some actors.                     *)
LEMMA InFlightNotified ==
    ASSUME Types, InFlight, ReferencesKept, NEW S, NEW m \in Messages,
           m.type # "Request", m.from \notin Requests, mailbox' = Notified(S, m),
           \A a \in Actors : on_stopped'[a] \cap Requests \subseteq on_stopped[a],
           \A a \in Actors : \A r \in on_stopped'[a] \cap Requests : outcome'[r] = outcome[r],
           \A a \in Actors : \A i \in DOMAIN mailbox[a] :
               mailbox[a][i].from \in Requests => outcome'[mailbox[a][i].from] = "waiting"
    PROVE  InFlight'
<1>1. ASSUME NEW a \in Actors, NEW i \in DOMAIN mailbox'[a] PROVE Posted(a, i)'
  <2>1. mailbox[a] \in Seq(Messages) /\ mailbox'[a] \in {mailbox[a], Append(mailbox[a], m)}
        BY NotifiedEntries DEF Types
  <2>2. \A j \in DOMAIN mailbox'[a] :
            \/ j \in DOMAIN mailbox[a] /\ mailbox'[a][j] = mailbox[a][j]
            \/ mailbox'[a][j] = m
        BY SMT, <2>1, AppendEntries
  <2>3. CASE mailbox'[a][i] = m BY <2>3 DEF Posted
  <2>4. CASE i \in DOMAIN mailbox[a] /\ mailbox'[a][i] = mailbox[a][i]
    <3>1. Posted(a, i) BY <2>4 DEF InFlight
    <3>2. mailbox[a][i].from \in Requests =>
            /\ mailbox[a][i].from \notin on_stopped[a]
            /\ \A j \in DOMAIN mailbox[a] : mailbox[a][j].from = mailbox[a][i].from => j = i
          BY <3>1 DEF Posted
    <3>3. mailbox[a][i].from \in Requests =>
            /\ outcome'[mailbox[a][i].from] = "waiting"
            /\ mailbox[a][i].from \notin on_stopped'[a]
            /\ \A j \in DOMAIN mailbox'[a] : mailbox'[a][j].from = mailbox[a][i].from => j = i
          BY <2>2, <2>4, <3>2
    <3> QED BY <2>4, <3>1, <3>3, PostedKept
  <2> QED BY <2>2, <2>3, <2>4
<1>2. ASSUME NEW a \in Actors, NEW r \in on_stopped'[a] \cap Requests PROVE Stopping(a, r)'
  <2>1. Stopping(a, r) BY DEF InFlight
  <2> QED BY <2>1, ReferencedKept DEF Stopping
<1> QED BY <1>1, <1>2 DEF InFlight

(* The first message of a mailbox is taken: if it is a stop, its caller may *)
(* be remembered, and if it is a request, it may be answered.               *)
LEMMA InFlightTaken ==
    ASSUME Types, InFlight, ReferencesKept, NEW a \in Actors, mailbox[a] # <<>>, Took(a),
           NEW h, h = Head(mailbox[a]),
           \/ on_stopped' = on_stopped
           \/ /\ on_stopped' = [on_stopped EXCEPT ![a] = @ \cup {h.from}]
              /\ h.type = "Stop" /\ outcome' = outcome,
           \A r \in Requests : r # h.from => outcome'[r] = outcome[r]
    PROVE  InFlight'
<1>0. mailbox[a] \in Seq(Messages) BY DEF Types
<1>1. /\ mailbox'[a] = Tail(mailbox[a])
      /\ \A b \in Actors \ {a} : mailbox'[b] = mailbox[b]
      BY DEF Took, Types
<1>2. /\ 1 \in DOMAIN mailbox[a] /\ h = mailbox[a][1]
      /\ \A i \in DOMAIN mailbox'[a] :
             i + 1 \in DOMAIN mailbox[a] /\ i + 1 # 1 /\ mailbox'[a][i] = mailbox[a][i + 1]
      /\ \A i, j \in DOMAIN mailbox'[a] : i + 1 = j + 1 => i = j
      BY SMT, <1>0, <1>1, TailEntries
<1>3. Posted(a, 1) BY <1>2 DEF InFlight
<1>4. h.from \in Requests =>
        /\ To[h.from] = a /\ outcome[h.from] = "waiting" /\ Referenced(h.from)
        /\ h.type = "Stop" => Kind[h.from] = "stop"
        /\ h.from \notin on_stopped[a]
        /\ \A j \in DOMAIN mailbox[a] : mailbox[a][j].from = h.from => j = 1
      BY <1>2, <1>3 DEF Posted
<1>5. ASSUME NEW b \in Actors, NEW i \in DOMAIN mailbox'[b] PROVE Posted(b, i)'
  <2>1. CASE b = a
    <3>0. PICK k \in DOMAIN mailbox[a] : k = i + 1 BY <1>2, <1>5, <2>1
    <3>1. k # 1 /\ mailbox'[a][i] = mailbox[a][k] BY <1>2, <1>5, <2>1, <3>0
    <3>2. Posted(a, k) BY DEF InFlight
    <3>3. mailbox[a][k].from \in Requests =>
            /\ mailbox[a][k].from # h.from
            /\ outcome[mailbox[a][k].from] = "waiting"
            /\ mailbox[a][k].from \notin on_stopped[a]
            /\ \A j \in DOMAIN mailbox[a] : mailbox[a][j].from = mailbox[a][k].from => j = k
          BY <1>2, <3>1, <3>2 DEF Posted
    <3>4. mailbox[a][k].from \in Requests => \A j \in DOMAIN mailbox'[a] :
            mailbox'[a][j].from = mailbox[a][k].from => j = i
          BY <1>2, <1>5, <2>1, <3>0, <3>3
    <3>5. mailbox[a][k].from \in Requests =>
            /\ outcome'[mailbox[a][k].from] = "waiting"
            /\ mailbox[a][k].from \notin on_stopped'[a]
          BY SMT, <3>3 DEF Types
    <3> QED BY <1>5, <2>1, <3>1, <3>2, <3>4, <3>5, PostedKept
  <2>2. CASE b # a
    <3>1. i \in DOMAIN mailbox[b] /\ mailbox'[b] = mailbox[b] BY <1>1, <1>5, <2>2
    <3>2. Posted(b, i) BY <3>1 DEF InFlight
    <3>3. mailbox[b][i].from \in Requests =>
            /\ mailbox[b][i].from # h.from
            /\ outcome[mailbox[b][i].from] = "waiting"
            /\ mailbox[b][i].from \notin on_stopped[b]
            /\ \A j \in DOMAIN mailbox[b] : mailbox[b][j].from = mailbox[b][i].from => j = i
          BY <1>4, <2>2, <3>2 DEF Posted
    <3>4. mailbox[b][i].from \in Requests =>
            /\ outcome'[mailbox[b][i].from] = "waiting"
            /\ mailbox[b][i].from \notin on_stopped'[b]
          BY <2>2, <3>3 DEF Types
    <3> QED BY <3>1, <3>2, <3>3, <3>4, PostedKept
  <2> QED BY <2>1, <2>2
<1>6. ASSUME NEW b \in Actors, NEW r \in on_stopped'[b] \cap Requests PROVE Stopping(b, r)'
  <2>1. CASE r \in on_stopped[b]
    <3>1. Stopping(b, r) BY <2>1 DEF InFlight
    <3>2. r # h.from BY <1>4, <2>1, <3>1 DEF Stopping
    <3> QED BY <3>1, <3>2, ReferencedKept DEF Stopping
  <2>2. CASE r \notin on_stopped[b]
    <3>1. b = a /\ r = h.from /\ h.type = "Stop" /\ outcome' = outcome BY SMT, <1>6, <2>2 DEF Types
    <3> QED BY <1>4, <3>1, ReferencedKept DEF Stopping
  <2> QED BY <2>1, <2>2
<1> QED BY <1>5, <1>6 DEF InFlight

(* A message that a handler answers is a request of a caller who waits.     *)
LEMMA RequestTaken ==
    ASSUME Types, InFlight, NEW a \in Actors, mailbox[a] # <<>>,
           NEW h, h = Head(mailbox[a]), h.type = "Request"
    PROVE  /\ h.from \in Requests /\ To[h.from] = a
           /\ outcome[h.from] = "waiting" /\ Kind[h.from] # "stop"
<1>1. 1 \in DOMAIN mailbox[a] /\ h = mailbox[a][1] BY SMT, TailEntries DEF Types
<1>2. Posted(a, 1) BY <1>1 DEF InFlight
<1> QED BY <1>1, <1>2 DEF Posted

(* The mailbox of an actor is dropped with all that it holds.               *)
LEMMA InFlightDropped ==
    ASSUME Types, InFlight, ReferencesKept, NEW a \in Actors,
           mailbox' = [mailbox EXCEPT ![a] = <<>>],
           on_stopped' = [on_stopped EXCEPT ![a] = {}],
           Answer(Held(a) \cap Requests, "err")
    PROVE  InFlight'
<1>1. /\ mailbox'[a] = <<>> /\ on_stopped'[a] = {}
      /\ \A b \in Actors \ {a} : mailbox'[b] = mailbox[b] /\ on_stopped'[b] = on_stopped[b]
      BY DEF Types
<1>2. \A r \in Held(a) \cap Requests : To[r] = a BY SMT DEF InFlight, Held, Posted, Stopping
<1>3. \A r \in Requests : To[r] # a => outcome'[r] = outcome[r] BY <1>2 DEF Answer
<1>4. ASSUME NEW b \in Actors, NEW i \in DOMAIN mailbox'[b] PROVE Posted(b, i)'
  <2>1. b # a
    <3>1. DOMAIN <<>> = {} BY SMT
    <3> QED BY <1>1, <1>4, <3>1
  <2>2. Posted(b, i) BY <1>1, <1>4, <2>1 DEF InFlight
  <2>3. mailbox[b][i].from \in Requests =>
            /\ outcome'[mailbox[b][i].from] = "waiting"
            /\ mailbox[b][i].from \notin on_stopped[b]
            /\ \A j \in DOMAIN mailbox[b] : mailbox[b][j].from = mailbox[b][i].from => j = i
        BY <1>3, <2>1, <2>2 DEF Posted
  <2> QED BY <1>1, <1>4, <2>1, <2>2, <2>3, PostedKept
<1>5. ASSUME NEW b \in Actors, NEW r \in on_stopped'[b] \cap Requests PROVE Stopping(b, r)'
  <2>1. b # a /\ r \in on_stopped[b] BY <1>1, <1>5
  <2>2. Stopping(b, r) BY <2>1 DEF InFlight
  <2> QED BY <1>3, <2>1, <2>2, ReferencedKept DEF Stopping
<1> QED BY <1>4, <1>5 DEF InFlight

(* A call: the mailbox of its actor gets the message, if there is one.      *)
LEMMA InFlightCalled ==
    ASSUME Types, InFlight, ReferencesKept, NEW r \in Requests, Call(r)
    PROVE  InFlight'
<1> PICK t : t = IF Kind[r] = "stop" THEN "Stop" ELSE "Request" OBVIOUS
<1> PICK m : m = Msg(t, r) OBVIOUS
<1> PICK a \in Actors : a = To[r] BY ActorsAssumption
<1>0. m \in Messages /\ m.type = t /\ m.from = r BY MsgIsMessage, MsgFields DEF Senders
<1>1. mailbox' = Notified({a}, m) /\ outcome[r] = "unsent" /\ on_stopped' = on_stopped BY DEF Call
<1>2. \A x \in Requests : x # r => outcome'[x] = outcome[x] BY DEF Call, Answer
<1>3. Open(a) => outcome'[r] = "waiting" BY DEF Call, Answer
<1>4. Referenced(r)
  <2>1. Kind[r] = "stop" => r \notin SelfStops BY ActorsAssumption
  <2> QED BY <2>1 DEF Call, HasRef, Referenced
<1>5. ASSUME NEW b \in Actors, NEW i \in DOMAIN mailbox[b], mailbox[b][i].from \in Requests
      PROVE  /\ mailbox[b][i].from # r /\ outcome'[mailbox[b][i].from] = "waiting"
             /\ mailbox[b][i].from \notin on_stopped[b]
             /\ \A j \in DOMAIN mailbox[b] : mailbox[b][j].from = mailbox[b][i].from => j = i
  <2>1. Posted(b, i) BY <1>5 DEF InFlight
  <2> QED BY <1>1, <1>2, <1>5, <2>1 DEF Posted
<1>6. \A b \in Actors : r \notin on_stopped[b] BY <1>1 DEF InFlight, Stopping
<1>7. ASSUME NEW b \in Actors, NEW i \in DOMAIN mailbox'[b] PROVE Posted(b, i)'
  <2>0. mailbox[b] \in Seq(Messages) BY DEF Types
  <2>1. mailbox'[b] = mailbox[b] \/ (b = a /\ Open(a) /\ mailbox'[b] = Append(mailbox[b], m))
    <3> PICK S : S = {a} BY Zenon
    <3>1. /\ b \notin S => Notified(S, m)[b] = mailbox[b]
          /\ ~Open(b) => Notified(S, m)[b] = mailbox[b]
          /\ b \in S /\ Open(b) => Notified(S, m)[b] = Append(mailbox[b], m)
          BY SMT, <1>0, NotifiedEntries
    <3> QED BY <1>1, <3>1
  <2>2. \A j \in DOMAIN mailbox'[b] :
            \/ j \in DOMAIN mailbox[b] /\ mailbox'[b][j] = mailbox[b][j]
            \/ j = Len(mailbox[b]) + 1 /\ mailbox'[b][j] = m /\ b = a /\ Open(a)
        BY SMT, <1>0, <2>0, <2>1, AppendEntries
  <2>3. CASE i \in DOMAIN mailbox[b] /\ mailbox'[b][i] = mailbox[b][i]
    <3>1. Posted(b, i) BY <2>3 DEF InFlight
    <3>2. mailbox[b][i].from \in Requests =>
            /\ outcome'[mailbox[b][i].from] = "waiting"
            /\ mailbox[b][i].from \notin on_stopped'[b]
            /\ \A j \in DOMAIN mailbox'[b] : mailbox'[b][j].from = mailbox[b][i].from => j = i
      <4>1. HAVE mailbox[b][i].from \in Requests
      <4>2. /\ mailbox[b][i].from # r /\ outcome'[mailbox[b][i].from] = "waiting"
            /\ mailbox[b][i].from \notin on_stopped[b]
            /\ \A j \in DOMAIN mailbox[b] : mailbox[b][j].from = mailbox[b][i].from => j = i
            BY <1>5, <2>3, <4>1
      <4>3. ASSUME NEW j \in DOMAIN mailbox'[b], mailbox'[b][j].from = mailbox[b][i].from
            PROVE  j = i
        <5>1. mailbox'[b][j] # m BY <1>0, <4>2, <4>3
        <5> QED BY <2>2, <4>2, <4>3, <5>1
      <4> QED BY <1>1, <4>2, <4>3
    <3> QED BY <1>7, <2>3, <3>1, <3>2, PostedKept
  <2>4. CASE i = Len(mailbox[b]) + 1 /\ mailbox'[b][i] = m /\ b = a /\ Open(a)
    <3>1. \A j \in DOMAIN mailbox'[b] : mailbox'[b][j].from = r => j = i
          BY SMT, <1>5, <2>2, <2>4
    <3>2. Referenced(r)' BY <1>4, ReferencedKept
    <3>3. /\ mailbox'[b][i].type = IF Kind[r] = "stop" THEN "Stop" ELSE "Request"
          /\ mailbox'[b][i].from = r /\ r \notin on_stopped'[b] /\ outcome'[r] = "waiting"
          /\ To[r] = b
          BY <1>0, <1>1, <1>3, <1>6, <2>4
    <3> QED BY <3>1, <3>2, <3>3 DEF Posted
  <2> QED BY <1>7, <2>2, <2>3, <2>4
<1>8. ASSUME NEW b \in Actors, NEW x \in on_stopped'[b] \cap Requests PROVE Stopping(b, x)'
  <2>1. Stopping(b, x) BY <1>1, <1>8 DEF InFlight
  <2> QED BY <1>1, <1>2, <1>6, <1>8, <2>1, ReferencedKept DEF Stopping
<1> QED BY <1>7, <1>8 DEF InFlight

-----------------------------------------------------------------------------
(* The actions of actors and callers.                                       *)

(* What such an action has to show.                                         *)
LEMMA LocalIInv ==
    ASSUME IInv, UNCHANGED system, Moves, InFlight',
           stage' \in [Actors -> Stages], mailbox' \in [Actors -> Seq(Messages)],
           on_stopped' \in [Actors -> SUBSET Senders],
           outcome' \in [Requests -> {"unsent", "waiting", "ok", "err"}],
           \A a \in Actors : stage'[a] = "finishing" =>
               stage[a] = "finishing" \/ ~Tracked(a) \/ is_terminated,
           \A a \in Actors : stage'[a] = "finishing" =>
               on_stopped'[a] \cap Requests \subseteq on_stopped[a],
           \A r \in Requests : Kind[r] = "stop" /\ outcome'[r] = "ok" => outcome[r] = "ok"
    PROVE  IInv'
<1>1. Awaited' /\ Tracking' BY LocalTracking DEF IInv
<1>2. Deregistered' BY LocalDeregistered DEF IInv
<1>3. Types' BY DEF IInv, Types, system
<1> QED BY <1>1, <1>2, <1>3 DEF IInv

(* An actor moves on, and nothing else happens.                             *)
LEMMA StageIInv ==
    ASSUME IInv, NEW a \in Actors, NEW from, NEW to \in Stages, At(a, from), Go(a, to),
           from \notin {"deregistering", "dropping", "gone"}, to # "new",
           to = "finishing" => ~Tracked(a) \/ is_terminated,
           UNCHANGED <<mailbox, on_stopped, outcome, system>>
    PROVE  IInv'
<1>1. stage' \in [Actors -> Stages] BY DEF IInv, Types, Go
<1>2. Moves BY DEF IInv, Types, Go, Moves, At
<1>3. InFlight' BY InFlightKept DEF IInv, ReferencesKept, system
<1>4. \A b \in Actors : stage'[b] = "finishing" =>
               stage[b] = "finishing" \/ ~Tracked(b) \/ is_terminated
      BY DEF IInv, Types, Go
<1> QED BY <1>1, <1>2, <1>3, <1>4, LocalIInv DEF IInv, Types

\* Spawning an actor (start_actor) keeps the invariant.
LEMMA SpawnIInv == ASSUME IInv, NEW p \in Actors, NEW c \in Actors, spawn(p, c) PROVE IInv'
<1>1. "starting" \in Stages BY DEF Stages
<1> QED BY <1>1, StageIInv DEF spawn, CanSpawn, sent

\* The loop reaching Started (ActorLoop::run) keeps the invariant.
LEMMA StartIInv == ASSUME IInv, NEW a \in Actors, Start(a) PROVE IInv'
<1>1. "running" \in Stages /\ "stopping" \in Stages BY DEF Stages
<1> QED BY <1>1, StageIInv DEF Start, sent

\* The end of the loop (actor_stopped) keeps the invariant.
LEMMA StoppedIInv == ASSUME IInv, NEW a \in Actors, Stopped(a) PROVE IInv'
<1> PICK to : to = IF Tracked(a) /\ ~is_terminated THEN "checked" ELSE "finishing" OBVIOUS
<1>1. to \in Stages BY DEF Stages
<1>2. At(a, "stopping") /\ Go(a, to) /\ UNCHANGED <<mailbox, on_stopped, outcome, system>>
      BY DEF Stopped, sent
<1> QED BY <1>1, <1>2, StageIInv

(* A message that is no request is sent, and nothing else happens.          *)
LEMMA NotifyIInv ==
    ASSUME IInv, NEW S, NEW m \in Messages, m.type # "Request", m.from \notin Requests,
           mailbox' = Notified(S, m), UNCHANGED <<stage, on_stopped, outcome, system>>
    PROVE  IInv'
<1>1. mailbox' \in [Actors -> Seq(Messages)] BY NotifiedEntries DEF IInv
<1>2. \A a \in Actors : \A i \in DOMAIN mailbox[a] :
          mailbox[a][i].from \in Requests => outcome'[mailbox[a][i].from] = "waiting"
      BY DEF IInv, InFlight, Posted
<1>3. ReferencesKept BY DEF ReferencesKept, system
<1>4. InFlight' BY <1>2, <1>3, InFlightNotified DEF IInv
<1>5. Moves BY DEF Moves
<1> QED BY <1>1, <1>4, <1>5, LocalIInv DEF IInv, Types

\* Asking the children to stop keeps the invariant.
LEMMA StopAllIInv == ASSUME IInv, NEW p \in Actors, stop_all(p) PROVE IInv'
<1> PICK m : m = Msg("Stop", p) OBVIOUS
<1>1. m \in Messages /\ m.type = "Stop" /\ m.from = p BY MsgIsMessage, MsgFields DEF Senders
<1>2. p \notin Requests BY ActorsAssumption
<1>3. mailbox' = Notified(children[p], m) /\ UNCHANGED <<stage, on_stopped, outcome, system>>
      BY DEF stop_all, sent
<1> QED BY <1>1, <1>2, <1>3, NotifyIInv

\* Telling the parent that a child is gone (on_context_dropped) keeps the invariant.
LEMMA ContextDroppedIInv == ASSUME IInv, NEW p \in Actors, on_context_dropped(p) PROVE IInv'
<1> PICK m : m = Msg("Terminated", p) OBVIOUS
<1>1. m \in Messages /\ m.type = "Terminated" /\ m.from = p BY MsgIsMessage, MsgFields DEF Senders
<1>2. p \notin Requests BY ActorsAssumption
<1>3. mailbox' = Notified({Parent[p]}, m) /\ UNCHANGED <<stage, on_stopped, outcome, system>>
      BY DEF on_context_dropped, sent
<1> QED BY <1>1, <1>2, <1>3, NotifyIInv

\* Asking to watch an actor, or no longer to, keeps the invariant.
LEMMA WatchIInv == ASSUME IInv, NEW p \in Watches, Watch(p[1], p[2]) PROVE IInv'
<1> PICK w \in Actors : w = p[1] BY ActorsAssumption
<1>0. UNCHANGED <<stage, on_stopped, outcome, system>> BY DEF Watch
<1>1. PICK t \in {"Watch", "Unwatch"} : mailbox' = Notified({p[2]}, Msg(t, w)) BY DEF Watch
<1> PICK m : m = Msg(t, w) OBVIOUS
<1>2. m \in Messages /\ m.type = t /\ m.from = w BY SMT, MsgIsMessage, MsgFields DEF Senders
<1>3. w \notin Requests BY ActorsAssumption
<1> QED BY <1>0, <1>1, <1>2, <1>3, NotifyIInv

-----------------------------------------------------------------------------
(* The mailbox loop.                                                        *)

(* The types after a message was taken.                                     *)
LEMMA TookTypes ==
    ASSUME Types, NEW a \in Actors, mailbox[a] # <<>>, Took(a)
    PROVE  mailbox' \in [Actors -> Seq(Messages)] /\ Head(mailbox[a]) \in Messages
<1>1. mailbox[a] \in Seq(Messages) BY DEF Types
<1>2. Tail(mailbox[a]) \in Seq(Messages) /\ Head(mailbox[a]) \in Messages BY <1>1, TailEntries
<1> QED BY <1>2 DEF Types, Took

(* The handlers of a stop, and of what is no request.                       *)
LEMMA HandleSystemMessageIInv ==
    ASSUME IInv, NEW a \in Actors,
           HandleStop(a) \/ HandleWatch(a) \/ HandleTerminated(a) \/ HandleActorTerminated(a)
    PROVE  IInv'
<1> PICK h : h = Head(mailbox[a]) OBVIOUS
<1>0. Types /\ InFlight BY DEF IInv
<1>1. /\ At(a, "running") /\ mailbox[a] # <<>> /\ Took(a)
      /\ UNCHANGED <<outcome, system>>
      BY DEF HandleStop, HandleWatch, HandleTerminated, HandleActorTerminated, Receive, sent
<1>2. mailbox' \in [Actors -> Seq(Messages)] /\ h \in Messages BY <1>0, <1>1, TookTypes
<1>3. ReferencesKept BY <1>1 DEF ReferencesKept, system
<1>4. CASE HandleStop(a)
  <2>1. /\ on_stopped' = [on_stopped EXCEPT ![a] = @ \cup {h.from}] /\ h.type = "Stop"
        /\ Go(a, "stopping")
        BY <1>4 DEF HandleStop, Receive
  <2>2. InFlight' BY <1>0, <1>1, <1>3, <2>1, InFlightTaken
  <2>3. on_stopped' \in [Actors -> SUBSET Senders]
    <3>1. h.from \in Senders BY <1>2 DEF Messages
    <3> QED BY <1>0, <2>1, <3>1 DEF Types
  <2>4. stage' \in [Actors -> Stages] BY <1>0, <2>1 DEF Types, Go, Stages
  <2>5. Moves BY <1>0, <1>1, <2>1 DEF Types, Go, At, Moves
  <2>6. \A b \in Actors : stage'[b] = "finishing" =>
            stage[b] = "finishing" /\ on_stopped'[b] = on_stopped[b]
        BY <1>0, <2>1 DEF Types, Go
  <2> QED BY <1>0, <1>1, <1>2, <2>2, <2>3, <2>4, <2>5, <2>6, LocalIInv DEF Types
<1>5. CASE HandleWatch(a) \/ HandleTerminated(a) \/ HandleActorTerminated(a)
  <2>1. UNCHANGED <<stage, on_stopped>>
        BY <1>5 DEF HandleWatch, HandleTerminated, HandleActorTerminated
  <2>2. InFlight' BY <1>0, <1>1, <1>3, <2>1, InFlightTaken
  <2>3. Moves BY <2>1 DEF Moves
  <2> QED BY <1>0, <1>1, <1>2, <2>1, <2>2, <2>3, LocalIInv DEF Types
<1> QED BY <1>4, <1>5

(* A handler of the actor's own; its request is answered, but is no stop.   *)
LEMMA HandleRequestIInv == ASSUME IInv, NEW a \in Actors, HandleRequest(a) PROVE IInv'
<1> PICK h : h = Head(mailbox[a]) OBVIOUS
<1>0. Types /\ InFlight BY DEF IInv
<1>1. /\ At(a, "running") /\ mailbox[a] # <<>> /\ h.type = "Request" /\ Took(a)
      /\ UNCHANGED <<on_stopped, system>>
      BY DEF HandleRequest, Receive
<1>2. mailbox' \in [Actors -> Seq(Messages)] /\ h \in Messages BY <1>0, <1>1, TookTypes
<1>3. h.from \in Requests /\ Kind[h.from] # "stop" BY <1>0, <1>1, RequestTaken
<1>4. PICK res \in {"ok", "err"} : Answer({h.from}, res) BY DEF HandleRequest
<1>5. /\ \A r \in Requests : r # h.from => outcome'[r] = outcome[r]
      /\ outcome' \in [Requests -> {"unsent", "waiting", "ok", "err"}]
      BY <1>0, <1>4 DEF Answer, Types
<1>6. InFlight'
  <2>1. ReferencesKept BY <1>1 DEF ReferencesKept, system
  <2> QED BY <1>0, <1>1, <1>5, <2>1, InFlightTaken
<1>7. \/ stage' = stage
      \/ \E b \in Actors, to \in {"starting", "stopping", "dropping"} :
            stage[b] \in {"new", "running"} /\ Go(b, to)
      BY <1>1 DEF HandleRequest, CanSpawn, At
<1>8. stage' \in [Actors -> Stages] /\ Moves
      BY ZenonT(30), <1>0, <1>7 DEF Types, Go, Moves, Stages
<1>9. \A b \in Actors : stage'[b] = "finishing" => stage[b] = "finishing"
      BY <1>0, <1>7 DEF Types, Go
<1> QED BY <1>0, <1>1, <1>2, <1>3, <1>5, <1>6, <1>8, <1>9, LocalIInv DEF Types

\* A call on a LocalActorRef keeps the invariant.
LEMMA CallIInv == ASSUME IInv, NEW r \in Requests, Call(r) PROVE IInv'
<1> PICK t : t = IF Kind[r] = "stop" THEN "Stop" ELSE "Request" OBVIOUS
<1> PICK m : m = Msg(t, r) OBVIOUS
<1>0. m \in Messages BY MsgIsMessage DEF Senders
<1>1. /\ mailbox' = Notified({To[r]}, m) /\ UNCHANGED <<stage, on_stopped, system>>
      /\ \E res \in {"waiting", "err"} : Answer({r}, res)
      BY DEF Call
<1>2. mailbox' \in [Actors -> Seq(Messages)] BY <1>0, <1>1, NotifiedEntries DEF IInv
<1>3. /\ outcome' \in [Requests -> {"unsent", "waiting", "ok", "err"}]
      /\ \A x \in Requests : outcome'[x] = "ok" => outcome[x] = "ok"
      BY <1>1 DEF IInv, Types, Answer
<1>4. InFlight'
  <2>1. ReferencesKept BY <1>1 DEF ReferencesKept, system
  <2> QED BY <2>1, InFlightCalled DEF IInv
<1>5. Moves BY <1>1 DEF Moves
<1> QED BY <1>1, <1>2, <1>3, <1>4, <1>5, LocalIInv DEF IInv, Types

\* Dropping a reference keeps the invariant.
LEMMA DropIInv == ASSUME IInv, NEW a \in Actors, Drop(a) PROVE IInv'
<1>0. Types /\ InFlight BY DEF IInv
<1>1. /\ At(a, "dropping") /\ Go(a, "gone") /\ UNCHANGED system
      /\ on_stopped' = [on_stopped EXCEPT ![a] = {}]
      /\ mailbox' = [mailbox EXCEPT ![a] = <<>>]
      /\ Answer(Held(a) \cap Requests, "err")
      BY DEF Drop
<1>2. InFlight'
  <2>1. ReferencesKept BY <1>1 DEF ReferencesKept, system
  <2> QED BY <1>0, <1>1, <2>1, InFlightDropped
<1>3. /\ stage' \in [Actors -> Stages] /\ Moves
      /\ \A b \in Actors : stage'[b] = "finishing" => stage[b] = "finishing"
      BY <1>0, <1>1 DEF Types, Go, At, Moves, Stages
<1>4. mailbox' \in [Actors -> Seq(Messages)] /\ on_stopped' \in [Actors -> SUBSET Senders]
      BY SMT, <1>0, <1>1 DEF Types
<1>5. \A b \in Actors : on_stopped'[b] \subseteq on_stopped[b] BY <1>0, <1>1 DEF Types
<1>6. /\ outcome' \in [Requests -> {"unsent", "waiting", "ok", "err"}]
      /\ \A x \in Requests : outcome'[x] = "ok" => outcome[x] = "ok"
      BY <1>0, <1>1 DEF Types, Answer
<1> QED BY <1>1, <1>2, <1>3, <1>4, <1>5, <1>6, LocalIInv

(* The stops are answered: all of this actor, which is deregistered.        *)
LEMMA FinishIInv == ASSUME IInv, NEW a \in Actors, Finish(a) PROVE IInv'
<1> PICK m : m = Msg("ActorTerminated", a) OBVIOUS
<1>0. Types /\ InFlight BY DEF IInv
<1>1. /\ At(a, "finishing") /\ Go(a, "dropping") /\ UNCHANGED system
      /\ on_stopped' = [on_stopped EXCEPT ![a] = {}]
      /\ mailbox' = Notified(watchers[a], m)
      /\ Answer(on_stopped[a] \cap Requests, "ok")
      BY DEF Finish
<1>2. m \in Messages /\ m.type = "ActorTerminated" /\ m.from = a /\ a \notin Requests
      BY MsgIsMessage, MsgFields, ActorsAssumption DEF Senders
<1>3. /\ stage' \in [Actors -> Stages] /\ Moves
      /\ \A b \in Actors : stage'[b] = "finishing" => stage[b] = "finishing"
      /\ stage'[a] = "dropping"
      BY <1>0, <1>1 DEF Types, Go, At, Moves, Stages
<1>4. mailbox' \in [Actors -> Seq(Messages)] BY <1>0, <1>1, <1>2, NotifiedEntries
<1>5. /\ on_stopped' \in [Actors -> SUBSET Senders] /\ on_stopped'[a] = {}
      /\ \A b \in Actors : on_stopped'[b] \subseteq on_stopped[b]
      BY <1>0, <1>1 DEF Types
<1>6. \A r \in on_stopped[a] \cap Requests : To[r] = a /\ Referenced(r) BY <1>0 DEF InFlight, Stopping
<1>7. /\ outcome' \in [Requests -> {"unsent", "waiting", "ok", "err"}]
      /\ \A r \in Requests : r \notin on_stopped[a] => outcome'[r] = outcome[r]
      BY <1>0, <1>1 DEF Types, Answer
<1>8. ReferencesKept BY <1>1 DEF ReferencesKept, system
<1>9. InFlight'
  <2>1. \A b \in Actors : \A r \in on_stopped'[b] \cap Requests : outcome'[r] = outcome[r]
    <3>1. \A b \in Actors : \A r \in on_stopped[b] \cap Requests : To[r] = b
          BY <1>0 DEF InFlight, Stopping
    <3> QED BY <1>5, <1>6, <1>7, <3>1
  <2>2. \A b \in Actors : \A i \in DOMAIN mailbox[b] :
            mailbox[b][i].from \in Requests => outcome'[mailbox[b][i].from] = "waiting"
    <3>1. \A b \in Actors : \A i \in DOMAIN mailbox[b] : mailbox[b][i].from \in Requests =>
             /\ To[mailbox[b][i].from] = b /\ mailbox[b][i].from \notin on_stopped[b]
             /\ outcome[mailbox[b][i].from] = "waiting"
          BY <1>0 DEF InFlight, Posted
    <3> QED BY SMT, <1>6, <1>7, <3>1
  <2> QED BY SMT, <1>0, <1>1, <1>2, <1>5, <1>8, <2>1, <2>2, InFlightNotified
<1>10. Awaited' /\ Tracking' BY <1>1, <1>3, LocalTracking DEF IInv
<1>11. Types' BY <1>0, <1>1, <1>3, <1>4, <1>5, <1>7 DEF Types, system
<1>12. Deregistered'
  <2>1. \A b \in Actors : Unlisted(b) <=> Unlisted(b)' BY <1>1 DEF Unlisted, system
  <2>2. \A b \in Actors : stage'[b] = "finishing" /\ on_stopped'[b] \cap Requests # {} => Unlisted(b)'
        BY <1>3, <1>5, <2>1 DEF IInv, Deregistered
  <2>3. ASSUME NEW r \in Requests, Kind[r] = "stop", outcome'[r] = "ok"
        PROVE  stage'[To[r]] \in {"dropping", "gone"} /\ Unlisted(To[r])' /\ Referenced(r)'
    <3>1. CASE r \in on_stopped[a]
      <4>1. To[r] = a /\ Unlisted(a) /\ Referenced(r) BY <1>1, <1>6, <3>1 DEF IInv, Deregistered, At
      <4>2. Referenced(r)' BY <1>8, <4>1, ReferencedKept
      <4> QED BY <1>3, <2>1, <4>1, <4>2
    <3>2. CASE r \notin on_stopped[a]
      <4>1. stage[To[r]] \in {"dropping", "gone"} /\ Unlisted(To[r]) /\ Referenced(r)
            BY <1>7, <2>3, <3>2 DEF IInv, Deregistered
      <4>2. Referenced(r)' BY <1>8, <4>1, ReferencedKept
      <4>3. To[r] \in Actors BY ActorsAssumption
      <4> QED BY <1>3, <2>1, <4>1, <4>2, <4>3 DEF Moves
    <3> QED BY <3>1, <3>2
  <2> QED BY <2>2, <2>3 DEF Deregistered
<1> QED BY <1>9, <1>10, <1>11, <1>12 DEF IInv

-----------------------------------------------------------------------------
(* Creators and the scheduler.                                              *)

(* A step that sends and answers nothing, and does not turn a reference or  *)
(* an actor back, keeps what is said of requests if it lists no actor that  *)
(* was stopped.                                                             *)
LEMMA SystemIInv ==
    ASSUME IInv, Types', Awaited', Tracking', ReferencesKept,
           UNCHANGED <<mailbox, on_stopped, outcome>>,
           \A a \in Actors : stage[a] \in {"dropping", "gone"} => stage'[a] \in {"dropping", "gone"},
           \A a \in Actors : stage'[a] = "finishing" => stage[a] = "finishing" \/ Unlisted(a)',
           \A a \in Actors : Unlisted(a) =>
               Unlisted(a)' \/ (Tracked(a) /\ creator[a] # "ok")
    PROVE  IInv'
<1>1. InFlight' BY InFlightKept DEF IInv
<1>2. \A a \in Actors : stage'[a] = "finishing" /\ on_stopped'[a] \cap Requests # {} => Unlisted(a)'
  <2> SUFFICES ASSUME NEW a \in Actors, stage[a] = "finishing",
                      NEW r \in on_stopped[a] \cap Requests
               PROVE  Unlisted(a)'
      OBVIOUS
  <2>1. Stopping(a, r) BY DEF IInv, InFlight
  <2>2. Unlisted(a) BY DEF IInv, Deregistered
  <2> QED BY <2>1, <2>2 DEF Stopping, Referenced
<1>3. ASSUME NEW r \in Requests, Kind[r] = "stop", outcome'[r] = "ok"
      PROVE  stage'[To[r]] \in {"dropping", "gone"} /\ Unlisted(To[r])' /\ Referenced(r)'
  <2>1. stage[To[r]] \in {"dropping", "gone"} /\ Unlisted(To[r]) /\ Referenced(r)
        BY <1>3 DEF IInv, Deregistered
  <2>2. Referenced(r)' BY <2>1, ReferencedKept
  <2>3. To[r] \in Actors BY ActorsAssumption
  <2>4. ~(Tracked(To[r]) /\ creator[To[r]] # "ok") BY <1>3, <2>1 DEF Referenced
  <2> QED BY <2>1, <2>2, <2>3, <2>4
<1>4. Deregistered' BY <1>2, <1>3 DEF Deregistered
<1> QED BY <1>1, <1>4 DEF IInv

(* What the scheduler's mailbox holds after a message was sent to it.       *)
LEMMA InboxAdded ==
    ASSUME Types, NEW m \in Notices, inbox' \in {inbox, Append(inbox, m)}
    PROVE  /\ inbox' \in Seq(Notices)
           /\ \A i \in DOMAIN inbox' :
                 (i \in DOMAIN inbox /\ inbox'[i] = inbox[i]) \/ inbox'[i] = m
<1>1. inbox \in Seq(Notices) BY DEF Types
<1> QED BY SMT, <1>1, AppendEntries

\* ActorSystem::new_actor keeps the invariant.
LEMMA NewActorIInv == ASSUME IInv, NEW a \in Actors, new_actor(a) PROVE IInv'
<1>0. Types BY DEF IInv
<1>1. /\ At(a, "new") /\ Tracked(a) /\ Go(a, "starting")
      /\ creator' = [creator EXCEPT ![a] = "spawned"]
      /\ UNCHANGED <<mailbox, on_stopped, outcome, actors, scheduler, inbox, is_terminated, shutdown>>
      BY DEF new_actor, sent
<1>2. creator[a] = "none" BY <1>1 DEF IInv, Tracking, At
<1>3. Types' BY <1>0, <1>1 DEF Types, Go, Stages
<1>4. /\ \A b \in Actors : creator[b] # "none" => creator'[b] = creator[b]
      /\ \A b \in Actors : stage[b] # "new" => stage'[b] = stage[b]
      /\ \A b \in Actors : stage'[b] = "finishing" => stage[b] = "finishing"
      BY <1>0, <1>1, <1>2 DEF Types, Go, At
<1>5. Awaited' BY <1>1, <1>4, AwaitedKept DEF IInv
<1>6. Tracking'
  <2>1. \A b \in Actors : creator'[b] # "none" => Tracked(b) /\ stage'[b] # "new"
        BY <1>0, <1>1, <1>4 DEF IInv, Tracking, Types, Go
  <2> QED BY <1>1, <2>1 DEF IInv, Tracking
<1>7. \A b \in Actors : Unlisted(b) => Unlisted(b)' BY <1>1 DEF Unlisted
<1> QED BY <1>1, <1>3, <1>4, <1>5, <1>6, <1>7, SystemIInv DEF ReferencesKept

\* Sending RegisterActor to the scheduler keeps the invariant.
LEMMA SendRegisterIInv == ASSUME IInv, NEW a \in Actors, SendRegister(a) PROVE IInv'
<1> PICK m : m = Msg("RegisterActor", a) OBVIOUS
<1>0. Types BY DEF IInv
<1>1. /\ creator[a] = "spawned"
      /\ UNCHANGED <<stage, mailbox, on_stopped, outcome, actors, scheduler, is_terminated, shutdown>>
      BY DEF SendRegister, sent, loop
<1>2. \/ creator' = [creator EXCEPT ![a] = "registered"] /\ inbox' = inbox
      \/ creator' = [creator EXCEPT ![a] = "registering"] /\ inbox' = Append(inbox, m)
      BY DEF SendRegister
<1>3. m \in Notices /\ m.type = "RegisterActor" /\ m.from = a BY MsgIsNotice, MsgFields
<1>4. Types'
  <2>1. inbox' \in Seq(Notices) BY <1>0, <1>2, <1>3, InboxAdded
  <2> QED BY <1>0, <1>1, <1>2, <2>1 DEF Types
<1>5. \A b \in Actors : b # a => creator'[b] = creator[b] BY <1>0, <1>2 DEF Types
<1>6. Awaited'
  <2>1. CASE inbox' = inbox BY <1>1, <1>5, <2>1, AwaitedKept DEF IInv
  <2>2. CASE creator' = [creator EXCEPT ![a] = "registering"] /\ inbox' = Append(inbox, m)
    <3>1. creator'[a] = "registering" BY <1>0, <2>2 DEF Types
    <3> QED BY <1>0, <1>1, <1>3, <1>5, <2>2, <3>1, AwaitedAdded DEF IInv
  <2> QED BY <1>2, <2>1, <2>2
<1>7. Tracking'
  <2>1. \A b \in Actors : creator'[b] # "none" => creator[b] # "none" BY <1>1, <1>5
  <2>2. \A i \in DOMAIN inbox' : inbox'[i].type = "Stop" => i \in DOMAIN inbox /\ inbox[i].type = "Stop"
        BY <1>0, <1>2, <1>3, InboxAdded
  <2> QED BY <1>1, <2>1, <2>2 DEF IInv, Tracking
<1>8. \A b \in Actors : Unlisted(b) => Unlisted(b)' BY <1>1 DEF Unlisted
<1>9. ReferencesKept BY <1>1, <1>5 DEF ReferencesKept
<1> QED BY <1>1, <1>4, <1>6, <1>7, <1>8, <1>9, SystemIInv

\* The end of new_actor keeps the invariant.
LEMMA CreatedIInv == ASSUME IInv, NEW a \in Actors, Created(a) PROVE IInv'
<1>0. Types BY DEF IInv
<1>1. /\ creator[a] = "registered"
      /\ \E res \in {"ok", "failed"} : creator' = [creator EXCEPT ![a] = res]
      /\ UNCHANGED <<stage, mailbox, on_stopped, outcome, actors, scheduler, inbox, is_terminated,
                     shutdown>>
      BY DEF Created, sent, loop
<1>2. Types' BY <1>0, <1>1 DEF Types
<1>3. \A b \in Actors : b # a => creator'[b] = creator[b] BY <1>0, <1>1 DEF Types
<1>4. Awaited' BY <1>1, <1>3, AwaitedKept DEF IInv
<1>5. Tracking'
  <2>1. \A b \in Actors : creator'[b] # "none" => creator[b] # "none" BY <1>1, <1>3
  <2> QED BY <1>1, <2>1 DEF IInv, Tracking
<1>6. \A b \in Actors : Unlisted(b) => Unlisted(b)' BY <1>1 DEF Unlisted
<1>7. ReferencesKept BY <1>1, <1>3 DEF ReferencesKept
<1> QED BY <1>1, <1>2, <1>4, <1>5, <1>6, <1>7, SystemIInv

(* An actor waits to be deregistered, or panics.                            *)
LEMMA SendDeregisterIInv == ASSUME IInv, NEW a \in Actors, SendDeregister(a) PROVE IInv'
<1> PICK m : m = Msg("DeregisterActor", a) OBVIOUS
<1>0. Types BY DEF IInv
<1>1. /\ At(a, "checked")
      /\ UNCHANGED <<creator, mailbox, on_stopped, outcome, actors, scheduler, is_terminated, shutdown>>
      BY DEF SendDeregister, sent
<1>2. \/ Go(a, "dropping") /\ inbox' = inbox
      \/ Go(a, "deregistering") /\ inbox' = Append(inbox, m)
      BY DEF SendDeregister
<1>3. m \in Notices /\ m.type = "DeregisterActor" /\ m.from = a BY MsgIsNotice, MsgFields
<1>4. Types'
  <2>1. inbox' \in Seq(Notices) BY <1>0, <1>2, <1>3, InboxAdded
  <2>2. stage' \in [Actors -> Stages] BY <1>0, <1>2 DEF Types, Go, Stages
  <2> QED BY <1>0, <1>1, <2>1, <2>2 DEF Types
<1>5. /\ \A b \in Actors : b # a => stage'[b] = stage[b]
      /\ stage[a] = "checked" /\ stage'[a] \in {"dropping", "deregistering"}
      BY <1>0, <1>1, <1>2 DEF Types, Go, At
<1>6. Awaited'
  <2>1. CASE inbox' = inbox BY <1>1, <1>5, <2>1, AwaitedKept DEF IInv
  <2>2. CASE Go(a, "deregistering") /\ inbox' = Append(inbox, m)
    <3>1. stage'[a] = "deregistering" BY <1>0, <2>2 DEF Types, Go
    <3> QED BY <1>0, <1>1, <1>3, <1>5, <2>2, <3>1, AwaitedAdded DEF IInv
  <2> QED BY <1>2, <2>1, <2>2
<1>7. Tracking'
  <2>1. \A b \in Actors : stage[b] # "new" => stage'[b] # "new" BY <1>5
  <2>2. \A i \in DOMAIN inbox' : inbox'[i].type = "Stop" => i \in DOMAIN inbox /\ inbox[i].type = "Stop"
        BY <1>0, <1>2, <1>3, InboxAdded
  <2> QED BY <1>1, <2>1, <2>2 DEF IInv, Tracking
<1>8. \A b \in Actors : Unlisted(b) => Unlisted(b)' BY <1>1 DEF Unlisted
<1>9. ReferencesKept BY <1>1 DEF ReferencesKept
<1> QED BY <1>1, <1>4, <1>5, <1>6, <1>7, <1>8, <1>9, SystemIInv

(* The scheduler takes a message of someone who waits for it.               *)
LEMMA SchedulerTakes ==
    ASSUME IInv, NEW t, SchedulerReceives(t), inbox' = Tail(inbox)
    PROVE  /\ inbox # <<>> /\ inbox' \in Seq(Notices)
           /\ Head(inbox) = Msg(t, Head(inbox).from)
           /\ t = "RegisterActor" => Head(inbox).from \in Actors /\ creator[Head(inbox).from] = "registering"
           /\ t = "DeregisterActor" => Head(inbox).from \in Actors /\ stage[Head(inbox).from] = "deregistering"
           /\ \A i \in DOMAIN inbox' : \E j \in DOMAIN inbox : inbox'[i] = inbox[j]
<1>0. inbox \in Seq(Notices) /\ inbox # <<>> BY DEF IInv, Types, SchedulerReceives
<1>1. /\ Tail(inbox) \in Seq(Notices) /\ Head(inbox) \in Notices
      /\ 1 \in DOMAIN inbox /\ Head(inbox) = inbox[1]
      /\ \A i \in DOMAIN Tail(inbox) : i + 1 \in DOMAIN inbox /\ Tail(inbox)[i] = inbox[i + 1]
      BY <1>0, TailEntries
<1>2. Head(inbox) = Msg(t, Head(inbox).from) BY <1>1 DEF SchedulerReceives, Notices, Msg
<1>3. /\ t = "RegisterActor" => Head(inbox).from \in Actors /\ creator[Head(inbox).from] = "registering"
      /\ t = "DeregisterActor" => Head(inbox).from \in Actors /\ stage[Head(inbox).from] = "deregistering"
      BY <1>1 DEF IInv, Awaited, SchedulerReceives
<1> QED BY <1>0, <1>1, <1>2, <1>3

(* The actor that is registered has a creator, who has not returned its     *)
(* reference yet.                                                           *)
LEMMA RegisterActorIInv == ASSUME IInv, RegisterActor PROVE IInv'
<1> PICK a : a = Head(inbox).from OBVIOUS
<1>0. Types BY DEF IInv
<1>1. /\ SchedulerReceives("RegisterActor") /\ inbox' = Tail(inbox)
      /\ actors' = [actors EXCEPT ![IdOf[a]] = a]
      /\ creator' = [creator EXCEPT ![a] = "registered"]
      /\ UNCHANGED <<stage, mailbox, on_stopped, outcome, scheduler, is_terminated, shutdown>>
      BY DEF RegisterActor, loop, sent
<1>2. /\ inbox # <<>> /\ inbox' \in Seq(Notices) /\ Head(inbox) = Msg("RegisterActor", a)
      /\ a \in Actors /\ creator[a] = "registering"
      /\ \A i \in DOMAIN inbox' : \E j \in DOMAIN inbox : inbox'[i] = inbox[j]
      BY <1>1, SchedulerTakes
<1>3. Types'
  <2>1. actors' \in [Ids -> Actors \cup {NoActor}] BY <1>0, <1>1, <1>2 DEF Types
  <2>2. creator' \in [Actors -> {"none", "spawned", "registering", "registered", "ok", "failed"}]
        BY <1>0, <1>1 DEF Types
  <2> QED BY <1>0, <1>1, <1>2, <2>1, <2>2 DEF Types
<1>4. \A b \in Actors : b # a => creator'[b] = creator[b] BY <1>0, <1>1 DEF Types
<1>5. Awaited' BY <1>0, <1>1, <1>2, <1>4, AwaitedTaken DEF IInv
<1>6. Tracking'
  <2>1. \A b \in Actors : creator'[b] # "none" => creator[b] # "none" BY <1>2, <1>4
  <2>2. \A i \in Ids : actors'[i] # NoActor => Tracked(actors'[i])
    <3>1. Tracked(a) BY <1>2 DEF IInv, Tracking
    <3>2. \A i \in Ids : actors'[i] = a \/ actors'[i] = actors[i] BY <1>0, <1>1 DEF Types
    <3> QED BY <3>1, <3>2 DEF IInv, Tracking
  <2> QED BY <1>1, <1>2, <2>1, <2>2 DEF IInv, Tracking
<1>7. \A b \in Actors : Unlisted(b) => Unlisted(b)' \/ (Tracked(b) /\ creator[b] # "ok")
  <2>1. \A b \in Actors : IdOf[b] \in Ids BY ActorsAssumption
  <2>2. \A b \in Actors : b # a /\ Unlisted(b) => Unlisted(b)' BY <1>0, <1>1, <2>1 DEF Types, Unlisted
  <2>3. Tracked(a) BY <1>2 DEF IInv, Tracking
  <2> QED BY <1>2, <2>2, <2>3
<1>8. ReferencesKept BY <1>2, <1>4 DEF ReferencesKept
<1> QED BY <1>1, <1>3, <1>5, <1>6, <1>7, <1>8, SystemIInv

\* Handling DeregisterActor keeps the invariant.
LEMMA DeregisterActorIInv == ASSUME IInv, DeregisterActor PROVE IInv'
<1> PICK a : a = Head(inbox).from OBVIOUS
<1>0. Types BY DEF IInv
<1>1. /\ SchedulerReceives("DeregisterActor") /\ inbox' = Tail(inbox)
      /\ actors' = [actors EXCEPT ![IdOf[a]] = NoActor]
      /\ Go(a, "finishing")
      /\ UNCHANGED <<creator, mailbox, on_stopped, outcome, scheduler, is_terminated, shutdown>>
      BY DEF DeregisterActor, sent
<1>2. /\ inbox # <<>> /\ inbox' \in Seq(Notices) /\ Head(inbox) = Msg("DeregisterActor", a)
      /\ a \in Actors /\ stage[a] = "deregistering"
      /\ \A i \in DOMAIN inbox' : \E j \in DOMAIN inbox : inbox'[i] = inbox[j]
      BY <1>1, SchedulerTakes
<1>3. Types'
  <2>1. actors' \in [Ids -> Actors \cup {NoActor}] BY <1>0, <1>1 DEF Types
  <2>2. stage' \in [Actors -> Stages] BY <1>0, <1>1 DEF Types, Go, Stages
  <2> QED BY <1>0, <1>1, <1>2, <2>1, <2>2 DEF Types
<1>4. (\A b \in Actors : b # a => stage'[b] = stage[b]) /\ stage'[a] = "finishing"
      BY <1>0, <1>1, <1>2 DEF Types, Go
<1>5. Awaited' BY <1>0, <1>1, <1>2, <1>4, AwaitedTaken DEF IInv
<1>6. \A i \in Ids : actors'[i] = NoActor \/ actors'[i] = actors[i] BY <1>0, <1>1 DEF Types
<1>7. Tracking'
  <2>1. \A b \in Actors : stage[b] # "new" => stage'[b] # "new" BY <1>4
  <2> QED BY <1>1, <1>2, <1>6, <2>1 DEF IInv, Tracking
<1>8. \A b \in Actors : IdOf[b] \in Ids /\ b # NoActor BY ActorsAssumption
<1>9. \A b \in Actors : Unlisted(b) => Unlisted(b)' BY <1>1, <1>6, <1>8 DEF Unlisted
<1>10. Unlisted(a)' BY <1>0, <1>1, <1>2, <1>8 DEF Unlisted, Types
<1>11. ReferencesKept BY <1>1 DEF ReferencesKept
<1> QED BY <1>1, <1>2, <1>3, <1>4, <1>5, <1>7, <1>9, <1>10, <1>11, SystemIInv

\* The stop of the scheduler, with every actor it tracks, keeps the invariant.
LEMMA SchedulerStopIInv == ASSUME IInv, SchedulerStop PROVE IInv'
<1> PICK m : m = Msg("Stop", Scheduler) OBVIOUS
<1> PICK S : S = {actors[i] : i \in Ids} BY Zenon
<1>0. Types BY DEF IInv
<1>1. /\ SchedulerReceives("Stop") /\ inbox' = Tail(inbox) /\ scheduler' = "stopping"
      /\ mailbox' = Notified(S, m)
      /\ UNCHANGED <<stage, on_stopped, outcome, creator, actors, is_terminated, shutdown>>
      BY DEF SchedulerStop, sent
<1>2. /\ inbox # <<>> /\ inbox' \in Seq(Notices)
      /\ \A i \in DOMAIN inbox' : \E j \in DOMAIN inbox : inbox'[i] = inbox[j]
      BY <1>1, SchedulerTakes
<1>3. m \in Messages /\ m.type = "Stop" /\ m.from = Scheduler /\ Scheduler \notin Requests
      BY MsgIsMessage, MsgFields, ActorsAssumption DEF Senders
<1>4. Types'
  <2>1. mailbox' \in [Actors -> Seq(Messages)] BY <1>0, <1>1, <1>3, NotifiedEntries
  <2> QED BY <1>0, <1>1, <1>2, <2>1 DEF Types
<1>5. Awaited' BY <1>0, <1>1, <1>2, AwaitedTaken DEF IInv
<1>6. Tracking'
  <2>1. is_terminated
    <3>1. 1 \in DOMAIN inbox /\ inbox[1].type = "Stop"
          BY <1>0, <1>1, <1>2, TailEntries DEF Types, SchedulerReceives
    <3> QED BY <3>1 DEF IInv, Tracking
  <2> QED BY <1>1, <2>1 DEF IInv, Tracking
<1>7. ReferencesKept BY <1>1 DEF ReferencesKept
<1>8. InFlight'
  <2>1. \A a \in Actors : \A i \in DOMAIN mailbox[a] :
            mailbox[a][i].from \in Requests => outcome'[mailbox[a][i].from] = "waiting"
        BY <1>1 DEF IInv, InFlight, Posted
  <2> QED BY <1>0, <1>1, <1>3, <1>7, <2>1, InFlightNotified DEF IInv
<1>9. Deregistered' BY <1>1 DEF IInv, Deregistered, Unlisted, Referenced
<1> QED BY <1>4, <1>5, <1>6, <1>8, <1>9 DEF IInv

(* The scheduler is gone: whoever waits for it goes on.                     *)
LEMMA SchedulerStoppedIInv == ASSUME IInv, SchedulerStopped PROVE IInv'
<1> PICK R : R = {a \in Actors : \E i \in DOMAIN inbox : inbox[i] = Msg("RegisterActor", a)} BY Zenon
<1> PICK D : D = {a \in Actors : \E i \in DOMAIN inbox : inbox[i] = Msg("DeregisterActor", a)} BY Zenon
<1>0. Types BY DEF IInv
<1>1. /\ scheduler = "stopping" /\ inbox' = <<>>
      /\ creator' = [a \in Actors |-> IF a \in R THEN "registered" ELSE creator[a]]
      /\ stage' = [a \in Actors |-> IF a \in D THEN "dropping" ELSE stage[a]]
      /\ UNCHANGED <<mailbox, on_stopped, outcome, actors, is_terminated>>
      BY DEF SchedulerStopped, sent
<1>2. \A a \in R : a \in Actors /\ creator[a] = "registering" BY SMT, MsgFields DEF IInv, Awaited
<1>3. \A a \in D : a \in Actors /\ stage[a] = "deregistering" BY SMT, MsgFields DEF IInv, Awaited
<1>4. is_terminated BY <1>1 DEF IInv, Tracking
<1>5. Types' BY SMT, <1>0, <1>1 DEF Types, Stages
<1>6. DOMAIN inbox' = {} BY SMT, <1>1
<1>7. Awaited' BY <1>6 DEF Awaited
<1>8. Tracking' BY <1>0, <1>1, <1>2, <1>4 DEF IInv, Tracking, Types
<1>9. \A a \in Actors : Unlisted(a)' BY <1>1, <1>4 DEF Unlisted
<1>10. ReferencesKept BY <1>1, <1>2 DEF ReferencesKept
<1>11. \A a \in Actors : stage[a] \in {"dropping", "gone"} => stage'[a] \in {"dropping", "gone"}
      BY <1>1
<1> QED BY <1>1, <1>5, <1>7, <1>8, <1>9, <1>10, <1>11, SystemIInv

\* ActorSystem::shutdown keeps the invariant.
LEMMA ShutdownIInv == ASSUME IInv, Shutdown PROVE IInv'
<1>1. /\ is_terminated' = TRUE
      /\ UNCHANGED <<stage, mailbox, on_stopped, outcome, creator, actors, scheduler, inbox>>
      BY DEF Shutdown, sent, loop
<1>2. Types' BY <1>1 DEF IInv, Types
<1>3. Awaited' BY <1>1, AwaitedKept DEF IInv
<1>4. Tracking' BY <1>1 DEF IInv, Tracking
<1>5. \A a \in Actors : Unlisted(a)' BY <1>1 DEF Unlisted
<1>6. ReferencesKept BY <1>1 DEF ReferencesKept
<1> QED BY <1>1, <1>2, <1>3, <1>4, <1>5, <1>6, SystemIInv

\* Telling the scheduler to stop keeps the invariant.
LEMMA StopSchedulerIInv == ASSUME IInv, StopScheduler PROVE IInv'
<1> PICK m : m = Msg("Stop", NoActor) OBVIOUS
<1>0. m \in Notices /\ m.type = "Stop" BY MsgIsNotice, MsgFields
<1>1. /\ shutdown = "flagged" /\ inbox' = Append(inbox, m)
      /\ UNCHANGED <<stage, mailbox, on_stopped, outcome, creator, actors, scheduler, is_terminated>>
      BY DEF StopScheduler, sent, loop
<1>2. Types'
  <2>1. inbox' \in Seq(Notices) BY <1>0, <1>1, InboxAdded DEF IInv
  <2> QED BY <1>1, <2>1 DEF IInv, Types
<1>3. Awaited' BY <1>0, <1>1, AwaitedAdded DEF IInv
<1>4. Tracking' BY <1>1 DEF IInv, Tracking
<1>5. \A a \in Actors : Unlisted(a) => Unlisted(a)' BY <1>1 DEF Unlisted
<1>6. ReferencesKept BY <1>1 DEF ReferencesKept
<1> QED BY <1>1, <1>2, <1>3, <1>4, <1>5, <1>6, SystemIInv

-----------------------------------------------------------------------------
(* The invariant.                                                           *)

\* The invariant holds initially.
LEMMA InitIInv == Init => IInv
<1> SUFFICES ASSUME Init PROVE IInv OBVIOUS
<1>0. \A a \in Actors : mailbox[a] = <<>> /\ on_stopped[a] = {} BY DEF Init
<1>1. Types BY SMT DEF Init, Types, Stages
<1>2. DOMAIN inbox = {} BY SMT DEF Init
<1>3. Awaited BY <1>2 DEF Awaited
<1>4. Tracking BY <1>2 DEF Init, Tracking
<1>5. InFlight
  <2>0. DOMAIN <<>> = {} BY SMT
  <2>1. \A a \in Actors : DOMAIN mailbox[a] = {} BY <1>0, <2>0
  <2> QED BY <1>0, <2>1 DEF InFlight
<1>6. Deregistered BY <1>0 DEF Init, Deregistered
<1> QED BY <1>1, <1>3, <1>4, <1>5, <1>6 DEF IInv

\* A step that changes nothing keeps the invariant.
LEMMA StutterIInv == ASSUME IInv, UNCHANGED vars PROVE IInv'
<1> USE DEF vars, loop, system, sent
<1>1. Types' BY DEF IInv, Types
<1>2. Awaited' BY AwaitedKept DEF IInv
<1>3. Tracking' BY DEF IInv, Tracking
<1>4. \A a \in Actors : Unlisted(a) => Unlisted(a)' BY DEF Unlisted
<1>5. ReferencesKept BY DEF ReferencesKept
<1> QED BY <1>1, <1>2, <1>3, <1>4, <1>5, SystemIInv

\* Every step keeps the invariant.
LEMMA NextIInv == IInv /\ [Next]_vars => IInv'
<1> SUFFICES ASSUME IInv, [Next]_vars PROVE IInv' OBVIOUS
<1>1. ASSUME NEW a \in Actors, ActorTask(a) PROVE IInv'
      BY <1>1, StartIInv, HandleRequestIInv, HandleSystemMessageIInv, StoppedIInv,
         SendDeregisterIInv, FinishIInv, DropIInv DEF ActorTask, Handle
<1>2. ASSUME NEW a \in Actors, CreatorTask(a) \/ ReaperTask(a) \/ new_actor(a) PROVE IInv'
      BY <1>2, SendRegisterIInv, CreatedIInv, StopAllIInv, ContextDroppedIInv, NewActorIInv
      DEF CreatorTask, ReaperTask
<1>3. ASSUME SchedulerTask \/ StopScheduler \/ Shutdown PROVE IInv'
      BY <1>3, RegisterActorIInv, DeregisterActorIInv, SchedulerStopIInv, SchedulerStoppedIInv,
         StopSchedulerIInv, ShutdownIInv DEF SchedulerTask
<1> QED BY <1>1, <1>2, <1>3, SpawnIInv, CallIInv, WatchIInv, StutterIInv DEF Next, TaskStep

(* The invariant holds in every reachable state.                            *)
THEOREM ActorInvariance == Spec => []IInv
BY InitIInv, NextIInv, PTL DEF Spec

(* A stop that returned Ok is final: the actor has left its loop, and the   *)
(* scheduler does not hand it out, unless the system is terminated and does *)
(* not deregister actors any more.  The caller of a stop has the actor's    *)
(* reference, so that its registration was handled before the stop was.     *)
THEOREM StopsAreFinal == Spec => []StopIsFinal
<1>1. IInv => StopIsFinal BY DEF IInv, Deregistered, Unlisted, StopIsFinal
<1> QED BY <1>1, ActorInvariance, PTL

-----------------------------------------------------------------------------
(* Local calls implement Calls.                                             *)

(* Whose callee cannot serve them, as Caller has it.                        *)
Impaired == {r \in Requests : r \in Panics \/ stage[To[r]] \notin {"new", "starting", "running"}}

(* A step that answers nobody is a step of Calls.                           *)
LEMMA SilentStep ==
    ASSUME Types, outcome' = outcome
    PROVE  Caller!Next
<1>1. Caller!Reply({})
  <2>1. outcome' = [r \in Requests |-> IF r \in {} THEN "ok" ELSE outcome[r]] BY DEF Types
  <2> QED BY <2>1 DEF Caller!Reply, Caller!Become
<1>2. Caller!Fate BY DEF Caller!Fate
<1> QED BY <1>1, <1>2 DEF Caller!Next

(* ... and so are one that answers those who wait, ...                      *)
LEMMA ReplyStep ==
    ASSUME NEW S \in SUBSET Requests, Answer(S, "ok"), \A r \in S : outcome[r] = "waiting"
    PROVE  Caller!Next
<1>1. Caller!Reply(S) BY DEF Answer, Caller!Reply, Caller!Become
<1>2. Caller!Fate BY DEF Caller!Fate
<1> QED BY <1>1, <1>2 DEF Caller!Next

(* ... and one that refuses requests of callees that are impaired.          *)
LEMMA RefuseStep ==
    ASSUME NEW S \in SUBSET Requests, Answer(S, "err"), S \subseteq Impaired,
           \A r \in S : outcome[r] \in {"unsent", "waiting"}
    PROVE  Caller!Next
<1>1. Caller!Refuse(S) BY DEF Answer, Caller!Refuse, Caller!Become, Impaired
<1>2. Caller!Fate BY DEF Caller!Fate
<1> QED BY <1>1, <1>2 DEF Caller!Next

\* A call is a send of Calls, answered at once when the mailbox is gone.
LEMMA CallStep == ASSUME IInv, NEW r \in Requests, Call(r) PROVE Caller!Next
<1> PICK a \in Actors : a = To[r] BY ActorsAssumption
<1>1. CASE Open(a)
  <2>1. Caller!Send(r) BY <1>1 DEF Call, Answer, Caller!Send, Caller!Become
  <2>2. Caller!Fate BY DEF Caller!Fate
  <2> QED BY <2>1, <2>2 DEF Caller!Next
<1>2. CASE ~Open(a)
  <2>1. stage[a] # "new"
    <3>1. Tracked(a) /\ creator[a] = "ok" => stage[a] # "new" BY DEF IInv, Tracking
    <3> QED BY <3>1 DEF Call, HasRef, At
  <2>2. {r} \subseteq Impaired BY <1>2, <2>1 DEF Open, Impaired
  <2>3. Answer({r}, "err") /\ outcome[r] = "unsent" BY <1>2 DEF Call
  <2> QED BY SMT, <2>2, <2>3, RefuseStep
<1> QED BY <1>1, <1>2

\* Handling a request is an answer of Calls.
LEMMA HandleRequestStep == ASSUME IInv, NEW a \in Actors, HandleRequest(a) PROVE Caller!Next
<1> PICK h : h = Head(mailbox[a]) OBVIOUS
<1>1. h.from \in Requests /\ outcome[h.from] = "waiting"
      BY RequestTaken DEF IInv, HandleRequest, Receive
<1>2. CASE Answer({h.from}, "ok") BY SMT, <1>1, <1>2, ReplyStep
<1>3. CASE h.from \in Panics /\ Answer({h.from}, "err")
  <2>1. {h.from} \subseteq Impaired BY <1>1, <1>3 DEF Impaired
  <2> QED BY SMT, <1>1, <1>3, <2>1, RefuseStep
<1> QED BY <1>2, <1>3 DEF HandleRequest

\* Finishing the stop is an answer of Calls to those that waited for it.
LEMMA FinishStep == ASSUME IInv, NEW a \in Actors, Finish(a) PROVE Caller!Next
<1> PICK S \in SUBSET Requests : S = on_stopped[a] \cap Requests BY Zenon
<1>1. \A r \in S : outcome[r] = "waiting" BY DEF IInv, InFlight, Stopping
<1>2. Answer(S, "ok") BY DEF Finish
<1> QED BY <1>1, <1>2, ReplyStep

(* What a mailbox still held is refused when its actor is dropped.          *)
LEMMA DropStep == ASSUME IInv, NEW a \in Actors, Drop(a) PROVE Caller!Next
<1> PICK S \in SUBSET Requests : S = Held(a) \cap Requests BY Zenon
<1>1. ASSUME NEW r \in S PROVE To[r] = a /\ outcome[r] = "waiting"
  <2>1. r \in on_stopped[a] \/ \E i \in DOMAIN mailbox[a] : mailbox[a][i].from = r BY DEF Held
  <2>2. CASE r \in on_stopped[a] BY <2>2 DEF IInv, InFlight, Stopping
  <2>3. ASSUME NEW i \in DOMAIN mailbox[a], mailbox[a][i].from = r
        PROVE  To[r] = a /\ outcome[r] = "waiting"
    <3>1. Posted(a, i) BY DEF IInv, InFlight
    <3> QED BY <2>3, <3>1 DEF Posted
  <2> QED BY <2>1, <2>2, <2>3
<1>2. Answer(S, "err") /\ stage[a] = "dropping" BY DEF Drop, At
<1>3. S \subseteq Impaired BY <1>1, <1>2 DEF Impaired
<1> QED BY <1>1, <1>2, <1>3, RefuseStep

\* Every step is a step of Calls, or leaves its variables alone.
LEMMA NextIsCalls == IInv /\ [Next]_vars => [Caller!Next]_(Caller!vars)
<1> SUFFICES ASSUME IInv, [Next]_vars PROVE Caller!Next OBVIOUS
<1>0. outcome' = outcome => Caller!Next BY SilentStep DEF IInv
<1>1. ASSUME NEW a \in Actors, ActorTask(a) PROVE Caller!Next
  <2>1. CASE Start(a) \/ Stopped(a) \/ SendDeregister(a)
        BY <1>0, <2>1 DEF Start, Stopped, SendDeregister, sent
  <2>2. CASE HandleStop(a) \/ HandleWatch(a) \/ HandleTerminated(a) \/ HandleActorTerminated(a)
        BY <1>0, <2>2 DEF HandleStop, HandleWatch, HandleTerminated, HandleActorTerminated, sent
  <2> QED BY <1>1, <2>1, <2>2, HandleRequestStep, FinishStep, DropStep DEF ActorTask, Handle
<1>2. ASSUME NEW a \in Actors, CreatorTask(a) \/ ReaperTask(a) \/ new_actor(a) PROVE Caller!Next
      BY <1>0, <1>2 DEF CreatorTask, SendRegister, Created, ReaperTask, stop_all,
                        on_context_dropped, new_actor, sent
<1>3. ASSUME SchedulerTask \/ StopScheduler \/ Shutdown PROVE Caller!Next
      BY <1>0, <1>3 DEF SchedulerTask, RegisterActor, DeregisterActor, SchedulerStop,
                        SchedulerStopped, StopScheduler, Shutdown, sent
<1>4. ASSUME NEW p \in Actors, NEW c \in Actors, spawn(p, c) PROVE Caller!Next
      BY <1>0, <1>4 DEF spawn, sent
<1>5. ASSUME NEW p \in Watches, Watch(p[1], p[2]) PROVE Caller!Next BY <1>0, <1>5 DEF Watch
<1>6. CASE UNCHANGED vars BY <1>0, <1>6 DEF vars, sent
<1> QED BY <1>1, <1>2, <1>3, <1>4, <1>5, <1>6, CallStep DEF Next, TaskStep

(* Every local call, a send or a stop, is made once and gets at most one    *)
(* answer, and it is refused only if its actor has left its loop or panics  *)
(* over it: ActorSystem implements the safety of Calls, which says what     *)
(* LocalActorRef::send and ::stop promise.  That an answer comes is left to *)
(* the model checker (CallsAreAnswered).                                    *)
THEOREM LocalCallsAreSafe == Spec => Caller!Init /\ [][Caller!Next]_(Caller!vars)
<1>1. Init => Caller!Init BY DEF Init, Caller!Init
<1> QED BY <1>1, NextIsCalls, ActorInvariance, PTL DEF Spec
=============================================================================
