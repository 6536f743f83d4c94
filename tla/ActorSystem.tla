---------------------------- MODULE ActorSystem -----------------------------
(***************************************************************************)
(* Local actors (coerce/src/actor): creation and registration with the     *)
(* ActorScheduler, the mailbox loop, stopping and what follows it,         *)
(* supervision, watches, panics and the shutdown of the system.            *)
(*                                                                         *)
(* Every actor, every creator and every stop_all is a task; tasks run      *)
(* interleaved.  Mailboxes are unbounded and first in, first out.  An      *)
(* actor here is one incarnation: two of them may have the same ActorId.   *)
(***************************************************************************)
EXTENDS Naturals, Sequences

CONSTANTS
    Actors,      \* incarnations of actors
    Ids, IdOf,   \* ActorIds, and the one of each actor
    Parent,      \* its supervisor; NoActor: the actor is Tracked, else Anonymous
    NoActor,
    Scheduler,   \* the ActorScheduler, as one who waits for actors to stop
    Requests,    \* calls made through an actor's reference
    To, Kind,    \* the actor each call is for, and whether it is a send or a stop
    SelfStops,   \* the requests whose handler calls ctx.stop
    Panics,      \* the requests whose handler may panic
    StartFails,  \* the actors whose `started' may call ctx.stop
    Watches,     \* pairs: the first actor may watch the second
    Scenarios    \* which tracked actors are created, and which calls are made

ASSUME ActorsAssumption ==
    /\ IdOf \in [Actors -> Ids]
    /\ Parent \in [Actors -> Actors \cup {NoActor}]
    /\ NoActor \notin Actors \cup Requests /\ Scheduler \notin Actors \cup Requests
    /\ Actors \cap Requests = {}
    /\ To \in [Requests -> Actors] /\ Kind \in [Requests -> {"send", "stop"}]
    /\ \A r \in SelfStops \cap Requests : Kind[r] = "send"
    /\ Watches \subseteq Actors \X Actors

VARIABLES
    stage,          \* actor -> where its task is, see Stages
    started,        \* the actors whose `started' returned with the actor going on
    mailbox,        \* actor -> messages
    on_stopped,     \* actor -> who waits for it to stop (on_actor_stopped)
    watchers,       \* actor -> its watchers
    children,       \* actor -> the actors it supervises
    reaping,        \* actor -> no | due | waiting: the stop_all task of its context
    creator,        \* tracked actor -> where the task that creates it is
    actors,         \* the scheduler's map from ActorId to actor
    scheduler,      \* running | stopping | gone
    inbox,          \* the scheduler's mailbox
    is_terminated,  \* of the system
    shutdown,       \* no | flagged | waiting | done
    outcome,        \* request -> unsent | waiting | ok | err
    watching,       \* pair of Watches -> no | watch | unwatch: what was sent last
    told,           \* actor -> the actors whose ActorTerminated it has handled
    panicked,       \* the actors whose task panicked
    scenario,       \* the member of Scenarios that unfolds, fixed from the start
    late            \* the actors about to deregister when the system was terminated

loop == <<stage, started, mailbox, on_stopped, watchers, children>>
system == <<creator, actors, scheduler, inbox, is_terminated, shutdown>>
sent == <<outcome, watching>>
history == <<told, panicked, late, scenario>>
vars == <<loop, reaping, system, sent, history>>

Stages == {"new", "starting", "running", "stopping", "checked", "deregistering",
           "finishing", "dropping", "gone"}

Tracked(a) == Parent[a] = NoActor
Msg(type, from) == [type |-> type, from |-> from]

Init ==
    /\ stage = [a \in Actors |-> "new"] /\ started = {}
    /\ mailbox = [a \in Actors |-> <<>>]
    /\ on_stopped = [a \in Actors |-> {}]
    /\ watchers = [a \in Actors |-> {}]
    /\ children = [a \in Actors |-> {}]
    /\ reaping = [a \in Actors |-> "no"]
    /\ creator = [a \in Actors |-> "none"]
    /\ actors = [i \in Ids |-> NoActor]
    /\ scheduler = "running" /\ inbox = <<>>
    /\ is_terminated = FALSE /\ shutdown = "no"
    /\ outcome = [r \in Requests |-> "unsent"]
    /\ watching = [p \in Watches |-> "no"]
    /\ told = [a \in Actors |-> {}] /\ panicked = {} /\ late = {}
    /\ scenario \in Scenarios

At(a, from) == stage[a] = from
Go(a, to) == stage' = [stage EXCEPT ![a] = to]

(* The receiving half of a's mailbox exists.                                *)
Open(a) == stage[a] \notin {"new", "gone"}

(* The mailboxes after a message was sent to each of S.                     *)
Notified(S, msg) ==
    [a \in Actors |-> IF a \in S /\ Open(a) THEN Append(mailbox[a], msg) ELSE mailbox[a]]

Answer(S, res) == outcome' = [r \in Requests |-> IF r \in S THEN res ELSE outcome[r]]

-----------------------------------------------------------------------------
(* Creating an actor.                                                       *)

(* new_actor spawns the actor's task, sends RegisterActor to the scheduler  *)
(* and waits for it to be handled, then waits for on_start.                 *)
new_actor(a) ==
    /\ At(a, "new") /\ Tracked(a) /\ a \in scenario.actors
    /\ Go(a, "starting")
    /\ creator' = [creator EXCEPT ![a] = "spawned"]
    /\ UNCHANGED <<started, mailbox, on_stopped, watchers, children, reaping, actors, scheduler,
                   inbox, is_terminated, shutdown, sent, history>>

SendRegister(a) ==
    /\ creator[a] = "spawned"
    /\ IF scheduler = "gone"
       THEN creator' = [creator EXCEPT ![a] = "registered"] /\ UNCHANGED inbox
       ELSE /\ creator' = [creator EXCEPT ![a] = "registering"]
            /\ inbox' = Append(inbox, Msg("RegisterActor", a))
    /\ UNCHANGED <<loop, reaping, actors, scheduler, is_terminated, shutdown, sent, history>>

(* on_start was sent, or dropped with the task.                             *)
Resolved(a) == a \in started \/ At(a, "gone")

Created(a) ==
    /\ creator[a] = "registered" /\ Resolved(a)
    /\ creator' = [creator EXCEPT ![a] = IF a \in started THEN "ok" ELSE "failed"]
    /\ UNCHANGED <<loop, reaping, actors, scheduler, inbox, is_terminated, shutdown, sent, history>>

(* Supervised::spawn and spawn_deferred: AlreadyExists while the table has  *)
(* a child of that id.                                                      *)
CanSpawn(p, c) ==
    /\ Parent[c] = p /\ At(c, "new")
    /\ \A x \in children[p] : IdOf[x] # IdOf[c]

(* In `started', spawn waits until the child's on_start is resolved.        *)
Waits(p) == \E c \in children[p] : ~Resolved(c)

spawn(p, c) ==
    /\ At(p, "starting") /\ ~Waits(p)
    /\ CanSpawn(p, c)
    /\ Go(c, "starting")
    /\ children' = [children EXCEPT ![p] = @ \cup {c}]
    /\ UNCHANGED <<started, mailbox, on_stopped, watchers, reaping, system, sent, history>>

(* ActorLoop::run up to the loop: `started', which may call ctx.stop.       *)
Start(a) ==
    /\ At(a, "starting") /\ ~Waits(a)
    /\ \/ Go(a, "running") /\ started' = started \cup {a}
       \/ a \in StartFails /\ Go(a, "stopping") /\ UNCHANGED started
    /\ UNCHANGED <<mailbox, on_stopped, watchers, children, reaping, system, sent, history>>

-----------------------------------------------------------------------------
(* The mailbox loop: one message at a time.                                 *)

Took(a) == mailbox' = [mailbox EXCEPT ![a] = Tail(@)]

Receive(a, type) == At(a, "running") /\ mailbox[a] # <<>> /\ Head(mailbox[a]).type = type

(* A message of the actor's own: its handler may spawn a child (deferred),  *)
(* stop the actor, or panic, which drops the result channel.                *)
HandleRequest(a) ==
    LET r == Head(mailbox[a]).from
    IN  /\ Receive(a, "Request") /\ Took(a)
        /\ \/ /\ Answer({r}, "ok")
              /\ UNCHANGED <<stage, children, panicked>>
           \/ \E c \in Actors :
                 /\ CanSpawn(a, c) /\ Go(c, "starting")
                 /\ children' = [children EXCEPT ![a] = @ \cup {c}]
                 /\ Answer({r}, "ok")
                 /\ UNCHANGED panicked
           \/ /\ r \in SelfStops /\ Answer({r}, "ok") /\ Go(a, "stopping")
              /\ UNCHANGED <<children, panicked>>
           \/ /\ r \in Panics /\ Answer({r}, "err") /\ Go(a, "dropping")
              /\ panicked' = panicked \cup {a}
              /\ UNCHANGED children
        /\ UNCHANGED <<started, on_stopped, watchers, reaping, system, watching, told, late,
                       scenario>>

HandleStop(a) ==
    /\ Receive(a, "Stop") /\ Took(a)
    /\ on_stopped' = [on_stopped EXCEPT ![a] = @ \cup {Head(mailbox[a]).from}]
    /\ Go(a, "stopping")
    /\ UNCHANGED <<started, watchers, children, reaping, system, sent, history>>

(* Watch and Unwatch; watchers are kept by the id of the watcher.           *)
HandleWatch(a) ==
    LET w == Head(mailbox[a]).from
        others == {x \in watchers[a] : IdOf[x] # IdOf[w]}
    IN  /\ \/ Receive(a, "Watch") /\ watchers' = [watchers EXCEPT ![a] = others \cup {w}]
           \/ Receive(a, "Unwatch") /\ watchers' = [watchers EXCEPT ![a] = others]
        /\ Took(a)
        /\ UNCHANGED <<stage, started, on_stopped, children, reaping, system, sent, history>>

(* Terminated: on_child_stopped removes the child, by id.                   *)
HandleTerminated(a) ==
    /\ Receive(a, "Terminated") /\ Took(a)
    /\ children' = [children EXCEPT ![a] = {x \in @ : IdOf[x] # IdOf[Head(mailbox[a]).from]}]
    /\ UNCHANGED <<stage, started, on_stopped, watchers, reaping, system, sent, history>>

HandleActorTerminated(a) ==
    /\ Receive(a, "ActorTerminated") /\ Took(a)
    /\ told' = [told EXCEPT ![a] = @ \cup {Head(mailbox[a]).from}]
    /\ UNCHANGED <<stage, started, on_stopped, watchers, children, reaping, system, sent, panicked,
                   late, scenario>>

(* The built-in messages and the actor's own.                               *)
Handle(a) ==
    \/ HandleRequest(a) \/ HandleStop(a) \/ HandleWatch(a)
    \/ HandleTerminated(a) \/ HandleActorTerminated(a)

-----------------------------------------------------------------------------
(* After the loop: actor_stopped, then the task's values are dropped.       *)

(* Mutants: nothing is deregistered; it is, although the system terminates.  *)
MutantStopped(a) ==
    /\ At(a, "stopping") /\ Go(a, "finishing")
    /\ UNCHANGED <<started, mailbox, on_stopped, watchers, children, reaping, system, sent,
                   history>>

MutantStoppedAlways(a) ==
    /\ At(a, "stopping") /\ Go(a, IF Tracked(a) THEN "checked" ELSE "finishing")
    /\ UNCHANGED <<started, mailbox, on_stopped, watchers, children, reaping, system, sent,
                   history>>

(* The `stopped' hook, then the decision whether to deregister.             *)
Stopped(a) ==
    /\ At(a, "stopping")
    /\ Go(a, IF Tracked(a) /\ ~is_terminated THEN "checked" ELSE "finishing")
    /\ UNCHANGED <<started, mailbox, on_stopped, watchers, children, reaping, system, sent,
                   history>>

(* DeregisterActor to the scheduler; expect() panics if it is gone.         *)
SendDeregister(a) ==
    /\ At(a, "checked")
    /\ IF scheduler = "gone"
       THEN /\ Go(a, "dropping") /\ panicked' = panicked \cup {a}
            /\ UNCHANGED inbox
       ELSE /\ Go(a, "deregistering") /\ inbox' = Append(inbox, Msg("DeregisterActor", a))
            /\ UNCHANGED panicked
    /\ UNCHANGED <<started, mailbox, on_stopped, watchers, children, reaping, creator, actors,
                   scheduler, is_terminated, shutdown, sent, told, late, scenario>>

(* Mutant: the watchers are forgotten.                                      *)
MutantFinish(a) ==
    /\ At(a, "finishing") /\ Go(a, "dropping")
    /\ Answer(on_stopped[a] \cap Requests, "ok")
    /\ on_stopped' = [on_stopped EXCEPT ![a] = {}]
    /\ UNCHANGED <<started, mailbox, watchers, children, reaping, system, watching, history>>

(* Those who wait for the stop are answered, the watchers are notified.     *)
Finish(a) ==
    /\ At(a, "finishing") /\ Go(a, "dropping")
    /\ Answer(on_stopped[a] \cap Requests, "ok")
    /\ on_stopped' = [on_stopped EXCEPT ![a] = {}]
    /\ mailbox' = Notified(watchers[a], Msg("ActorTerminated", a))
    /\ watchers' = [watchers EXCEPT ![a] = {}]
    /\ UNCHANGED <<started, children, reaping, system, watching, history>>

(* The requests whose messages or stop channels a still holds.              *)
Held(a) == on_stopped[a] \cup {mailbox[a][i].from : i \in DOMAIN mailbox[a]}

(* Mutant: the children of an actor that panicked are not stopped.          *)
MutantDrop(a) ==
    /\ At(a, "dropping") /\ Go(a, "gone")
    /\ reaping' = [reaping EXCEPT ![a] = IF a \in panicked THEN "no" ELSE "due"]
    /\ Answer(Held(a) \cap Requests, "err")
    /\ on_stopped' = [on_stopped EXCEPT ![a] = {}]
    /\ mailbox' = [mailbox EXCEPT ![a] = <<>>]
    /\ UNCHANGED <<started, watchers, children, system, watching, history>>

(* The context is dropped, so that a task of its own stops the children,    *)
(* then on_start and the receiver with all that is still in the mailbox.    *)
Drop(a) ==
    /\ At(a, "dropping") /\ Go(a, "gone")
    /\ reaping' = [reaping EXCEPT ![a] = "due"]
    /\ Answer(Held(a) \cap Requests, "err")
    /\ on_stopped' = [on_stopped EXCEPT ![a] = {}]
    /\ mailbox' = [mailbox EXCEPT ![a] = <<>>]
    /\ UNCHANGED <<started, watchers, children, system, watching, history>>

(* w's stop().await on some actor has not returned.                         *)
AwaitsStop(w) ==
    \E a \in Actors :
        w \in on_stopped[a] \/ \E i \in DOMAIN mailbox[a] : mailbox[a][i] = Msg("Stop", w)

stop_all(p) ==
    /\ reaping[p] = "due"
    /\ reaping' = [reaping EXCEPT ![p] = "waiting"]
    /\ mailbox' = Notified(children[p], Msg("Stop", p))
    /\ UNCHANGED <<stage, started, on_stopped, watchers, children, system, sent, history>>

(* All children have stopped: on_context_dropped tells p's own parent.      *)
on_context_dropped(p) ==
    /\ reaping[p] = "waiting" /\ ~AwaitsStop(p)
    /\ reaping' = [reaping EXCEPT ![p] = "no"]
    /\ mailbox' = Notified({Parent[p]}, Msg("Terminated", p))
    /\ UNCHANGED <<stage, started, on_stopped, watchers, children, system, sent, history>>

-----------------------------------------------------------------------------
(* The scheduler and the shutdown.                                          *)

SchedulerReceives(type) ==
    scheduler = "running" /\ inbox # <<>> /\ Head(inbox).type = type

RegisterActor ==
    LET a == Head(inbox).from
    IN  /\ SchedulerReceives("RegisterActor") /\ inbox' = Tail(inbox)
        /\ actors' = [actors EXCEPT ![IdOf[a]] = a]
        /\ creator' = [creator EXCEPT ![a] = "registered"]
        /\ UNCHANGED <<loop, reaping, scheduler, is_terminated, shutdown, sent, history>>

(* By id: whoever is registered under it is removed.                        *)
DeregisterActor ==
    LET a == Head(inbox).from
    IN  /\ SchedulerReceives("DeregisterActor") /\ inbox' = Tail(inbox)
        /\ actors' = [actors EXCEPT ![IdOf[a]] = NoActor]
        /\ Go(a, "finishing")
        /\ UNCHANGED <<started, mailbox, on_stopped, watchers, children, reaping, creator,
                       scheduler, is_terminated, shutdown, sent, history>>

(* Its `stopped' hook stops all registered actors and waits for them.       *)
SchedulerStop ==
    /\ SchedulerReceives("Stop") /\ inbox' = Tail(inbox)
    /\ scheduler' = "stopping"
    /\ mailbox' = Notified({actors[i] : i \in Ids}, Msg("Stop", Scheduler))
    /\ UNCHANGED <<stage, started, on_stopped, watchers, children, reaping, creator, actors,
                   is_terminated, shutdown, sent, history>>

(* What is left in its mailbox is dropped: a creator goes on regardless, an *)
(* actor that waits to be deregistered panics.                              *)
SchedulerStopped ==
    LET left(type) == {a \in Actors : \E i \in DOMAIN inbox : inbox[i] = Msg(type, a)}
    IN  /\ scheduler = "stopping" /\ ~AwaitsStop(Scheduler)
        /\ scheduler' = "gone" /\ inbox' = <<>> /\ shutdown' = "done"
        /\ creator' = [a \in Actors |->
                         IF a \in left("RegisterActor") THEN "registered" ELSE creator[a]]
        /\ stage' = [a \in Actors |-> IF a \in left("DeregisterActor") THEN "dropping" ELSE stage[a]]
        /\ panicked' = panicked \cup left("DeregisterActor")
        /\ UNCHANGED <<started, mailbox, on_stopped, watchers, children, reaping, actors,
                       is_terminated, sent, told, late, scenario>>

(* ActorSystem::shutdown: the flag, then Stop to the scheduler.             *)
Shutdown ==
    /\ shutdown = "no" /\ shutdown' = "flagged"
    /\ is_terminated' = TRUE
    /\ late' = {a \in Actors : At(a, "checked")}
    /\ UNCHANGED <<loop, reaping, creator, actors, scheduler, inbox, sent, told, panicked,
                   scenario>>

StopScheduler ==
    /\ shutdown = "flagged" /\ shutdown' = "waiting"
    /\ inbox' = Append(inbox, Msg("Stop", NoActor))
    /\ UNCHANGED <<loop, reaping, creator, actors, scheduler, is_terminated, sent, history>>

-----------------------------------------------------------------------------
(* Users of references.                                                     *)

(* The creator has returned the reference, a supervisor has its children's, *)
(* and a live actor can have a message sent to itself.                      *)
HasRef(r) ==
    LET a == To[r]
    IN  \/ IF Tracked(a) THEN creator[a] = "ok" ELSE ~At(a, "new")
        \/ r \in SelfStops /\ stage[a] \in {"starting", "running"}

(* Mutant: an actor that has not started yet has no mailbox.                *)
MutantCall(r) ==
    /\ outcome[r] = "unsent" /\ r \in scenario.requests /\ HasRef(r)
    /\ Answer({r}, IF Open(To[r]) /\ ~At(To[r], "starting") THEN "waiting" ELSE "err")
    /\ mailbox' = Notified({To[r]}, Msg(IF Kind[r] = "stop" THEN "Stop" ELSE "Request", r))
    /\ UNCHANGED <<stage, started, on_stopped, watchers, children, reaping, system, watching,
                   history>>

(* send, and stop with its own channel: InvalidRef if the mailbox is gone.  *)
Call(r) ==
    /\ outcome[r] = "unsent" /\ r \in scenario.requests /\ HasRef(r)
    /\ Answer({r}, IF Open(To[r]) THEN "waiting" ELSE "err")
    /\ mailbox' = Notified({To[r]}, Msg(IF Kind[r] = "stop" THEN "Stop" ELSE "Request", r))
    /\ UNCHANGED <<stage, started, on_stopped, watchers, children, reaping, system, watching,
                   history>>

(* watch and unwatch notify the subject from a handler of the watcher.      *)
Watch(w, a) ==
    /\ At(w, "running") /\ ~At(a, "new")
    /\ \/ /\ watching[<<w, a>>] = "no"
          /\ watching' = [watching EXCEPT ![<<w, a>>] = "watch"]
          /\ mailbox' = Notified({a}, Msg("Watch", w))
       \/ /\ watching[<<w, a>>] = "watch"
          /\ watching' = [watching EXCEPT ![<<w, a>>] = "unwatch"]
          /\ mailbox' = Notified({a}, Msg("Unwatch", w))
    /\ UNCHANGED <<stage, started, on_stopped, watchers, children, reaping, system, outcome,
                   history>>

-----------------------------------------------------------------------------
ActorTask(a) ==
    \/ Start(a) \/ Handle(a) \/ Stopped(a) \/ SendDeregister(a)
    \/ Finish(a) \/ Drop(a)

CreatorTask(a) == SendRegister(a) \/ Created(a)

ReaperTask(a) == stop_all(a) \/ on_context_dropped(a)

SchedulerTask == RegisterActor \/ DeregisterActor \/ SchedulerStop \/ SchedulerStopped

TaskStep ==
    \/ \E a \in Actors : ActorTask(a) \/ CreatorTask(a) \/ ReaperTask(a)
    \/ SchedulerTask \/ StopScheduler

Next ==
    \/ TaskStep \/ Shutdown
    \/ \E a \in Actors : new_actor(a)
    \/ \E p, c \in Actors : spawn(p, c)
    \/ \E r \in Requests : Call(r)
    \/ \E p \in Watches : Watch(p[1], p[2])

(* The runtime polls every task that can go on, and handlers return.  Every *)
(* task ends, so that fairness of all of them together is enough.           *)
Fairness == WF_vars(TaskStep)

Spec == Init /\ [][Next]_vars /\ Fairness

-----------------------------------------------------------------------------
(* Properties.                                                              *)

(* stop().await that returned Ok means the actor has run its `stopped' hook *)
(* and handles nothing more, and the scheduler does not hand it out any     *)
(* more, although a second actor may be registered under its id.            *)
StopIsFinal ==
    \A r \in Requests : Kind[r] = "stop" /\ outcome[r] = "ok" =>
        /\ stage[To[r]] \in {"dropping", "gone"}
        /\ ~is_terminated => actors[IdOf[To[r]]] # To[r]

(* However a supervisor ends, by a stop, a failed start or a panic, and     *)
(* whenever it spawned them, its children end too (ActorContext::drop).     *)
NoOrphans ==
    \A c \in Actors : ~Tracked(c) =>
        (~At(c, "new") /\ At(Parent[c], "gone") ~> At(c, "gone"))

(* A watcher whose Watch was handled hears of the subject's orderly end, if *)
(* it is still there to hear it.                                            *)
WatchersAreTold ==
    \A p \in Watches :
        (p[1] \in watchers[p[2]] /\ At(p[2], "stopping") ~>
            \/ p[2] \in told[p[1]]
            \/ ~At(p[1], "running") \/ p[2] \in late \cup panicked)

(* shutdown() returns, whatever actors are being created, stopped and       *)
(* supervised, unless an actor had already decided to deregister when the   *)
(* system was marked as terminated.                                         *)
ShutdownEnds == shutdown = "flagged" ~> shutdown = "done" \/ late # {}

(* send and stop as the callers see them: refused only if the actor has     *)
(* left its loop (or the request itself makes it panic), and answered       *)
(* unless the actor waits for a scheduler that is stopping.                 *)
Caller == INSTANCE Calls WITH
    impaired <- {r \in Requests : r \in Panics \/ stage[To[r]] \notin {"new", "starting", "running"}},
    cut_off <- {r \in Requests : To[r] \in late}

(* Every local call is answered once, and a live actor refuses none.        *)
CallsAreAnswered == Caller!Spec
=============================================================================
