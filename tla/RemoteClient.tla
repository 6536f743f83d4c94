---------------------------- MODULE RemoteClient ----------------------------
(***************************************************************************)
(* The link from one node to another: the RemoteClient actor that opens    *)
(* connections and writes to them (remote/net/client), the registry        *)
(* through which requests reach it (remote/actor/clients.rs), the server   *)
(* and the sessions at the other end (remote/net/server), and the map of   *)
(* requests in flight (remote/system/rpc.rs).                              *)
(*                                                                         *)
(* The client handles one message at a time, and Connect is a long one: it *)
(* waits for TCP and for the other node's Identity.  Every connection has  *)
(* a receive loop of its own, which lives on when the client drops the     *)
(* connection.  The mailbox has the messages whose order matters: Writes,  *)
(* Connects and the Stop; other messages come from tasks that send one and *)
(* wait, and are taken where they are.                                     *)
(***************************************************************************)
EXTENDS Naturals, Sequences, SequencesExt, FiniteSets

CONSTANTS
    Requests,
    Scenarios,     \* the kinds of requests of an instance: functions from subsets of
                   \* Requests to call | missing (no such actor) | ping | identify | handshake
    MaxAttempts,   \* connection attempts before the client gives up, 10
    MaxTries,      \* attempts of a handshake, 5
    MaxBreaks      \* bounds the connections that break

VARIABLES
    kind,          \* one of Scenarios, fixed from the start
    \* The client.
    state,         \* Idle | Connected | Terminated
    attempts,      \* connection_attempts, when Idle
    conn,          \* the connection, when Connected
    phase,         \* ready | connecting | identifying | identified | stopped | panicked
    reconnects,    \* how many tasks sleep until they send Connect
    write_buffer,
    inbox,         \* its mailbox: requests to write, Connect and Stop
    callbacks,     \* on_identified_callbacks and on_handshake_ack_callbacks
    \* The registry, and the map of requests.
    registry,      \* running | panicked
    registered,    \* the client is registered for the node
    inflight,
    \* The connections, in the order they were opened.
    conns,         \* [open, failing, up, down, loop, session, handshake]
    breaks,
    \* The other node.
    store,         \* its session store: ready | stuck
    serving,       \* the tasks of its sessions: <<request, connection>>
    handled,       \* request -> how often it arrived
    \* The callers.
    outcome,       \* request -> unsent | waiting | ok | err
    tries,         \* request -> how often it was tried
    asks,          \* <<request, try>> whose Identify or BeginHandshake is on its way
    accepted,      \* the requests given to the client, in order
    written,       \* the requests written to a connection, in order
    dropped        \* the requests that were lost, or their answers

client == <<state, attempts, conn, phase, reconnects, write_buffer, inbox, callbacks>>
registers == <<registry, registered>>
server == <<store, serving, handled>>
callers == <<outcome, inflight, tries, asks>>
logs == <<accepted, written, dropped>>
vars == <<kind, client, registers, conns, breaks, server, callers, logs>>

Alive == phase \notin {"stopped", "panicked"}

Of(k) == {r \in DOMAIN kind : kind[r] = k}

NewConnection == [open |-> TRUE, failing |-> FALSE, up |-> <<"Identify">>, down |-> <<>>, loop |-> "reading",
                  session |-> "none", handshake |-> "None"]

Init ==
    /\ kind \in Scenarios
    /\ state = "Idle" /\ attempts = 0 /\ conn = 0 /\ phase = "ready"
    /\ reconnects = 0 /\ write_buffer = <<>> /\ inbox = <<"Connect">> /\ callbacks = {}
    /\ registry = "running" /\ registered = FALSE /\ inflight = {}
    /\ conns = <<>> /\ breaks = 0
    /\ store = "ready" /\ serving = {} /\ handled = [r \in Requests |-> 0]
    /\ outcome = [r \in Requests |-> "unsent"] /\ tries = [r \in Requests |-> 0] /\ asks = {}
    /\ accepted = <<>> /\ written = <<>> /\ dropped = {}

-----------------------------------------------------------------------------
(* write_bytes.  On a connection that broke a write may still seem to       *)
(* succeed, and the frame is lost; once one has failed they all do.         *)
Sent(c, r) ==
    /\ ~conns[c].failing
    /\ conns' = IF conns[c].open THEN [conns EXCEPT ![c].up = Append(@, r)] ELSE conns
    /\ written' = Append(written, r)
    /\ dropped' = IF conns[c].open THEN dropped ELSE dropped \cup {r}

SendFails(c) ==
    /\ ~conns[c].open
    /\ conns' = [conns EXCEPT ![c].failing = TRUE]
    /\ UNCHANGED <<written, dropped>>

(* Disconnected: the client tries again, unless it did so too often; it     *)
(* then takes itself out of the registry and stops.  The connection's       *)
(* receive loop is not ended.                                               *)
Disconnected(mailbox) ==
    \/ /\ state = "Connected"
       /\ state' = "Idle" /\ attempts' = 1 /\ conn' = 0 /\ reconnects' = reconnects + 1
       /\ inbox' = mailbox /\ UNCHANGED registered
    \/ /\ state = "Idle" /\ attempts < MaxAttempts
       /\ attempts' = attempts + 1 /\ reconnects' = reconnects + 1
       /\ inbox' = mailbox /\ UNCHANGED <<state, conn, registered>>
    \/ /\ state = "Idle" /\ attempts = MaxAttempts
       /\ state' = "Terminated" /\ registered' = FALSE
       /\ inbox' = Append(mailbox, "Stop") /\ UNCHANGED <<attempts, conn, reconnects>>
    \/ /\ state = "Terminated"
       /\ reconnects' = reconnects + 1
       /\ inbox' = mailbox /\ UNCHANGED <<state, attempts, conn, registered>>

NotDisconnected(mailbox) ==
    inbox' = mailbox /\ UNCHANGED <<state, attempts, conn, registered, reconnects>>

MutantWrite(r, mailbox) ==
    \/ /\ state = "Idle" /\ NotDisconnected(mailbox)
       /\ write_buffer' = Append(write_buffer, r)
       /\ UNCHANGED <<conns, written, dropped>>
    \/ /\ state = "Connected" /\ NotDisconnected(mailbox)
       /\ Sent(conn, r) /\ write_buffer' = Append(write_buffer, r)
    \/ /\ state = "Connected" /\ Disconnected(mailbox)
       /\ SendFails(conn) /\ write_buffer' = Append(write_buffer, r)
    \/ /\ state = "Terminated" /\ Disconnected(mailbox)
       /\ dropped' = dropped \cup {r} /\ UNCHANGED <<write_buffer, conns, written>>

(* RemoteClient::write, of a message; `mailbox' is the rest of the mailbox. *)
Write(r, mailbox) ==
    \/ /\ state = "Idle" /\ NotDisconnected(mailbox)
       /\ write_buffer' = Append(write_buffer, r)
       /\ UNCHANGED <<conns, written, dropped>>
    \/ /\ state = "Connected" /\ NotDisconnected(mailbox)
       /\ Sent(conn, r) /\ UNCHANGED write_buffer
    \/ /\ state = "Connected" /\ Disconnected(mailbox)
       /\ SendFails(conn) /\ write_buffer' = Append(write_buffer, r)
    \/ /\ state = "Terminated" /\ Disconnected(mailbox)
       /\ dropped' = dropped \cup {r} /\ UNCHANGED <<write_buffer, conns, written>>

(* Those that wait in `waiters', and for their latest try, get a result.    *)
Resolved(waiters, result) ==
    outcome' = [r \in Requests |-> IF outcome[r] = "waiting" /\ <<r, tries[r]>> \in waiters
                                   THEN result ELSE outcome[r]]

Waiters(k) == {w \in callbacks : kind[w[1]] = k}

-----------------------------------------------------------------------------
(* The client's handlers.                                                   *)

(* The task spawned by Disconnected, after RECONNECT_DELAY.                 *)
Reconnect ==
    /\ reconnects > 0 /\ reconnects' = reconnects - 1
    /\ inbox' = IF Alive THEN Append(inbox, "Connect") ELSE inbox
    /\ UNCHANGED <<kind, state, attempts, conn, phase, write_buffer, callbacks,
                   registers, conns, breaks, server, callers, logs>>

Connect ==
    /\ phase = "ready" /\ inbox # <<>> /\ Head(inbox) = "Connect"
    /\ inbox' = Tail(inbox)
    /\ phase' = IF state = "Connected" THEN "ready" ELSE "connecting"
    /\ UNCHANGED <<kind, state, attempts, conn, reconnects, write_buffer, callbacks,
                   registers, conns, breaks, server, callers, logs>>

(* TCP refuses, or the Identify cannot be written.                          *)
ConnectFails ==
    /\ phase = "connecting" /\ phase' = "ready"
    /\ Disconnected(inbox)
    /\ Resolved(Waiters("identify"), "err") /\ callbacks' = callbacks \ Waiters("identify")
    /\ UNCHANGED <<kind, write_buffer, registry, conns, breaks, server, inflight, tries, asks, logs>>

Opened ==
    /\ phase = "connecting" /\ phase' = "identifying"
    /\ conns' = Append(conns, NewConnection)
    /\ UNCHANGED <<kind, state, attempts, conn, reconnects, write_buffer, inbox, callbacks,
                   registers, breaks, server, callers, logs>>

(* The Identity has come: the client registers itself, and its state        *)
(* changes before it flushes.                                               *)
Connected ==
    /\ phase = "identified" /\ phase' = "flushing"
    /\ registered' = (registry = "running")
    /\ state' = "Connected" /\ conn' = Len(conns)
    /\ Resolved(Waiters("identify"), "ok") /\ callbacks' = callbacks \ Waiters("identify")
    /\ UNCHANGED <<kind, attempts, reconnects, write_buffer, inbox, registry, conns,
                   breaks, server, inflight, tries, asks, logs>>

MutantFlush ==
    /\ phase = "flushing"
    /\ \/ /\ write_buffer # <<>> /\ Sent(conn, Head(write_buffer))
          /\ write_buffer' = Tail(write_buffer) /\ UNCHANGED phase
       \/ /\ write_buffer # <<>> /\ SendFails(conn)
          /\ phase' = "ready" /\ write_buffer' = Append(Tail(write_buffer), Head(write_buffer))
       \/ /\ write_buffer = <<>> /\ phase' = "ready"
          /\ UNCHANGED <<write_buffer, conns, written, dropped>>
    /\ UNCHANGED <<kind, state, attempts, conn, reconnects, inbox, callbacks, registers,
                   breaks, server, callers, accepted>>

(* flush_buffered_writes, of one message: one that fails goes back to the   *)
(* front, and ends it.                                                      *)
Flush ==
    /\ phase = "flushing"
    /\ \/ /\ write_buffer # <<>> /\ Sent(conn, Head(write_buffer))
          /\ write_buffer' = Tail(write_buffer) /\ UNCHANGED phase
       \/ /\ write_buffer # <<>> /\ SendFails(conn)
          /\ phase' = "ready" /\ UNCHANGED write_buffer
       \/ /\ write_buffer = <<>> /\ phase' = "ready"
          /\ UNCHANGED <<write_buffer, conns, written, dropped>>
    /\ UNCHANGED <<kind, state, attempts, conn, reconnects, inbox, callbacks, registers,
                   breaks, server, callers, accepted>>

HandleWrite ==
    /\ phase = "ready" /\ inbox # <<>> /\ Head(inbox) \in Requests
    /\ Write(Head(inbox), Tail(inbox))
    /\ UNCHANGED <<kind, phase, callbacks, registry, breaks, server, callers, accepted>>

(* PingTick, of a client that is connected.                                 *)
PingTick(p) ==
    /\ phase = "ready" /\ state = "Connected" /\ outcome[p] = "unsent"
    /\ outcome' = [outcome EXCEPT ![p] = "waiting"] /\ inflight' = inflight \cup {p}
    /\ Write(p, inbox)
    /\ UNCHANGED <<kind, phase, callbacks, registry, breaks, server, tries, asks, accepted>>

Identify(i, t) ==
    /\ phase = "ready" /\ <<i, t>> \in asks /\ asks' = asks \ {<<i, t>>}
    /\ IF state = "Connected"
       THEN Resolved({<<i, t>>}, "ok") /\ UNCHANGED callbacks
       ELSE callbacks' = callbacks \cup {<<i, t>>} /\ UNCHANGED outcome
    /\ UNCHANGED <<kind, state, attempts, conn, phase, reconnects, write_buffer, inbox, registers,
                   conns, breaks, server, inflight, tries, logs>>

(* BeginHandshake: the caller's channel is dropped if there is no           *)
(* connection; if the handshake cannot be written, the client panics.       *)
BeginHandshake(h, t) ==
    /\ phase = "ready" /\ <<h, t>> \in asks /\ asks' = asks \ {<<h, t>>}
    /\ \/ /\ state # "Connected" /\ Resolved({<<h, t>>}, "err")
          /\ UNCHANGED <<phase, conns, callbacks>>
       \/ /\ state = "Connected" /\ conns[conn].handshake = "Acknowledged"
          /\ Resolved({<<h, t>>}, "ok")
          /\ UNCHANGED <<phase, conns, callbacks>>
       \/ /\ state = "Connected" /\ conns[conn].handshake = "Pending"
          /\ callbacks' = callbacks \cup {<<h, t>>}
          /\ UNCHANGED <<phase, conns, outcome>>
       \/ /\ state = "Connected" /\ conns[conn].handshake = "None" /\ ~conns[conn].failing
          /\ conns' = [conns EXCEPT ![conn].handshake = "Pending",
                         ![conn].up = IF conns[conn].open THEN Append(@, "Handshake") ELSE @]
          /\ callbacks' = callbacks \cup {<<h, t>>}
          /\ UNCHANGED <<phase, outcome>>
       \/ /\ state = "Connected" /\ conns[conn].handshake = "None" /\ ~conns[conn].open
          /\ phase' = "panicked" /\ Resolved({<<h, t>>} \cup callbacks, "err")
          /\ UNCHANGED <<conns, callbacks>>
    /\ UNCHANGED <<kind, state, attempts, conn, reconnects, write_buffer, inbox, registers,
                   breaks, server, inflight, tries, logs>>

(* Stop, after the client gave up; it may have connected since, and then    *)
(* ends that connection and its receive loop.                               *)
Stop ==
    /\ phase = "ready" /\ inbox # <<>> /\ Head(inbox) = "Stop"
    /\ phase' = "stopped" /\ inbox' = Tail(inbox)
    /\ IF state = "Connected"
       THEN /\ conns' = [conns EXCEPT ![conn].open = FALSE, ![conn].loop = "closed", ![conn].down = <<>>]
            /\ dropped' = dropped \cup (ToSet(conns[conn].down) \cap Requests)
       ELSE UNCHANGED <<conns, dropped>>
    /\ UNCHANGED <<kind, state, attempts, conn, reconnects, write_buffer, callbacks,
                   registers, breaks, server, callers, accepted, written>>

-----------------------------------------------------------------------------
(* The receive loop of a connection (ClientMessageReceiver).                *)

Read(c, frame) ==
    conns[c].loop = "reading" /\ conns[c].down # <<>> /\ Head(conns[c].down) = frame

ReadIdentity(c) ==
    /\ Read(c, "Identity") /\ phase = "identifying" /\ c = Len(conns)
    /\ conns' = [conns EXCEPT ![c].down = Tail(@)]
    /\ phase' = "identified"
    /\ UNCHANGED <<kind, state, attempts, conn, reconnects, write_buffer, inbox, callbacks,
                   registers, breaks, server, callers, logs>>

(* The client's handler is waited for; the acknowledgement counts for the   *)
(* connection that the client has, whichever it came from.                  *)
HandshakeAcknowledge(c) ==
    /\ Read(c, "Handshake")
    /\ \/ /\ phase = "ready" /\ state = "Connected"
          /\ conns' = [conns EXCEPT ![conn].handshake = "Acknowledged",
                         ![c].down = Tail(@)]
          /\ Resolved(Waiters("handshake"), "ok") /\ callbacks' = callbacks \ Waiters("handshake")
       \/ /\ (phase = "ready" /\ state # "Connected") \/ ~Alive
          /\ conns' = [conns EXCEPT ![c].down = Tail(@)]
          /\ UNCHANGED <<outcome, callbacks>>
    /\ UNCHANGED <<kind, state, attempts, conn, phase, reconnects, write_buffer, inbox,
                   registers, breaks, server, inflight, tries, asks, logs>>

(* Mutant: a late Pong undoes the timeout.                                  *)
MutantReadResult(c, r) ==
    /\ Read(c, r)
    /\ conns' = [conns EXCEPT ![c].down = Tail(@)]
    /\ inflight' = inflight \ {r}
    /\ outcome' = IF r \in inflight THEN [outcome EXCEPT ![r] = "ok"] ELSE outcome
    /\ UNCHANGED <<kind, client, registers, breaks, server, tries, asks, logs>>

(* A Result or a Pong: pop_request.  One that timed out has nobody waiting. *)
ReadResult(c, r) ==
    /\ Read(c, r)
    /\ conns' = [conns EXCEPT ![c].down = Tail(@)]
    /\ inflight' = inflight \ {r}
    /\ outcome' = IF r \in inflight /\ outcome[r] = "waiting" THEN [outcome EXCEPT ![r] = "ok"] ELSE outcome
    /\ UNCHANGED <<kind, client, registers, breaks, server, tries, asks, logs>>

(* The connection has ended: on_close waits for the client to handle        *)
(* Disconnected, which it does not do while it waits for this very loop.    *)
OnClose(c) ==
    /\ conns[c].loop = "reading" /\ ~conns[c].open /\ conns[c].down = <<>>
    /\ conns' = [conns EXCEPT ![c].loop = "closed"]
    /\ \/ phase = "ready" /\ Disconnected(inbox)
       \/ ~Alive /\ NotDisconnected(inbox)
    /\ UNCHANGED <<kind, phase, write_buffer, callbacks, registry, breaks, server, callers, logs>>

(* A connection breaks, and some of what was on its way is lost.            *)
Break(c) ==
    /\ breaks < MaxBreaks /\ conns[c].open /\ breaks' = breaks + 1
    /\ \E i \in 0..Len(conns[c].up), j \in 0..Len(conns[c].down) :
        LET lost == ToSet(SubSeq(conns[c].up, i + 1, Len(conns[c].up)))
                        \cup ToSet(SubSeq(conns[c].down, j + 1, Len(conns[c].down)))
        IN /\ conns' = [conns EXCEPT ![c].open = FALSE, ![c].up = SubSeq(@, 1, i),
                                     ![c].down = SubSeq(@, 1, j)]
           /\ dropped' = dropped \cup (lost \cap Requests)
    /\ UNCHANGED <<kind, client, registers, server, callers, accepted, written>>

-----------------------------------------------------------------------------
(* The other node.                                                          *)

Answer(c, frame) == IF conns[c].open THEN Append(conns[c].down, frame) ELSE conns[c].down

(* NewSession: the store waits for the session's first frame.  If it never  *)
(* comes the session stops, and waits for the store to handle SessionClosed.*)
NewSession(c) ==
    /\ store = "ready" /\ conns[c].session = "none"
    /\ \A d \in DOMAIN conns : conns[d].session = "none" => c <= d
    /\ \/ /\ conns[c].up # <<>> /\ UNCHANGED store
          /\ conns' = [conns EXCEPT ![c].session = "open", ![c].up = Tail(@),
                                    ![c].down = Answer(c, "Identity")]
       \/ /\ conns[c].up = <<>> /\ ~conns[c].open
          /\ store' = "stuck" /\ UNCHANGED conns
    /\ UNCHANGED <<kind, client, registers, breaks, serving, handled, callers, logs>>

(* A session's receive loop: a Ping is answered at once, the rest by tasks. *)
OnReceive(c) ==
    /\ conns[c].session = "open" /\ conns[c].up # <<>>
    /\ LET f == Head(conns[c].up)
           pong == f \in Of("ping")
       IN /\ conns' = [conns EXCEPT ![c].up = Tail(@),
                                    ![c].down = IF pong THEN Answer(c, f) ELSE @]
          /\ serving' = IF pong THEN serving ELSE serving \cup {<<f, c>>}
          /\ handled' = IF f \in Requests THEN [handled EXCEPT ![f] = @ + 1] ELSE handled
    /\ UNCHANGED <<kind, client, registers, breaks, store, callers, logs>>

(* session_handle_message, and session_handshake.                           *)
Serve(f, c) ==
    /\ <<f, c>> \in serving /\ f \notin Of("missing")
    /\ serving' = serving \ {<<f, c>>}
    /\ conns' = [conns EXCEPT ![c].down = Answer(c, f)]
    /\ dropped' = IF conns[c].open THEN dropped ELSE dropped \cup ({f} \cap Requests)
    /\ UNCHANGED <<kind, client, registers, breaks, store, handled, callers, accepted, written>>

(* An error goes back over the other node's own client for this one, if it  *)
(* has one.                                                                 *)
notify_rpc_err(r, c) ==
    /\ <<r, c>> \in serving /\ r \in Of("missing")
    /\ serving' = serving \ {<<r, c>>}
    /\ \/ inflight' = inflight \ {r} /\ outcome' = [outcome EXCEPT ![r] = "err"] /\ UNCHANGED dropped
       \/ dropped' = dropped \cup {r} /\ UNCHANGED <<inflight, outcome>>
    /\ UNCHANGED <<kind, client, registers, conns, breaks, store, handled, tries, asks, accepted, written>>

-----------------------------------------------------------------------------
(* The callers on this node.                                                *)

(* ClientWrite, sent by notify_node: the registry panics if the client it   *)
(* has for the node is gone; without a client the request is dropped.       *)
ClientWrite(r) ==
    \/ /\ registry = "running" /\ registered /\ Alive
       /\ inbox' = Append(inbox, r) /\ accepted' = Append(accepted, r)
       /\ UNCHANGED <<registry, dropped>>
    \/ /\ registry = "running" /\ ~registered
       /\ dropped' = dropped \cup {r} /\ UNCHANGED <<registry, inbox, accepted>>
    \/ /\ registry = "panicked" \/ (registered /\ ~Alive)
       /\ registry' = "panicked" /\ UNCHANGED <<inbox, accepted, dropped>>

(* node_rpc_raw: the request is noted and given to the registry; a caller   *)
(* panics with the registry.                                                *)
node_rpc_raw(r) ==
    /\ outcome[r] = "unsent"
    /\ inflight' = inflight \cup {r}
    /\ ClientWrite(r)
    /\ outcome' = [outcome EXCEPT ![r] = IF registry' = "panicked" THEN "err" ELSE "waiting"]
    /\ UNCHANGED <<kind, state, attempts, conn, phase, reconnects, write_buffer, callbacks,
                   registered, conns, breaks, server, tries, asks, written>>

PingTimeout(p) ==
    /\ outcome[p] = "waiting"
    /\ outcome' = [outcome EXCEPT ![p] = "err"]
    /\ UNCHANGED <<kind, client, registers, conns, breaks, server, inflight, tries, asks, logs>>

Tries(q) == IF kind[q] = "handshake" THEN MaxTries ELSE 1

(* RemoteClientRef::identify and ::handshake: a handshake that times out is *)
(* tried again; a client that is gone drops the caller's channel.           *)
Ask(q) ==
    /\ outcome[q] \in {"unsent", "waiting"}
    /\ \/ /\ tries[q] < Tries(q) /\ Alive
          /\ tries' = [tries EXCEPT ![q] = @ + 1] /\ asks' = asks \cup {<<q, tries[q] + 1>>}
          /\ outcome' = [outcome EXCEPT ![q] = "waiting"]
       \/ /\ tries[q] = Tries(q) \/ ~Alive
          /\ outcome' = [outcome EXCEPT ![q] = "err"] /\ UNCHANGED <<tries, asks>>
    /\ UNCHANGED <<kind, client, registers, conns, breaks, server, inflight, logs>>

Asked == Of("identify") \cup Of("handshake")

(* What the tasks of the two nodes do.                                      *)
TaskStep ==
    \/ Reconnect \/ Connect \/ ConnectFails \/ Opened \/ Connected \/ Flush \/ HandleWrite \/ Stop
    \/ \E i \in Of("identify"), t \in 1..MaxTries : Identify(i, t)
    \/ \E h \in Of("handshake"), t \in 1..MaxTries : BeginHandshake(h, t)
    \/ \E c \in DOMAIN conns :
        \/ ReadIdentity(c) \/ HandshakeAcknowledge(c) \/ OnClose(c) \/ NewSession(c) \/ OnReceive(c)
        \/ \E r \in DOMAIN kind : ReadResult(c, r)
    \/ \E s \in serving : Serve(s[1], s[2]) \/ notify_rpc_err(s[1], s[2])
    \/ \E p \in Of("ping") : PingTimeout(p)
    \/ \E q \in Asked : outcome[q] = "waiting" /\ Ask(q)

Next ==
    \/ TaskStep
    \/ \E r \in Of("call") \cup Of("missing") : node_rpc_raw(r)
    \/ \E p \in Of("ping") : PingTick(p)
    \/ \E q \in Asked : outcome[q] = "unsent" /\ Ask(q)
    \/ \E c \in DOMAIN conns : Break(c)

Spec == Init /\ [][Next]_vars /\ WF_vars(TaskStep)

-----------------------------------------------------------------------------
(* Properties.                                                              *)

(* The client waits for the Identity of a connection that has ended, and    *)
(* the connection's loop for the client to handle Disconnected; or the      *)
(* other node's session store is stuck, and no Identity will come.          *)
Stuck ==
    /\ phase = "identifying"
    /\ LET c == conns[Len(conns)]
       IN (~c.open /\ c.down = <<>>) \/ (c.session = "none" /\ store = "stuck")

IsCall(r) == r \in Of("call") \cup Of("missing")

HasGivenUp == "Stop" \in ToSet(inbox) \/ phase = "stopped"

(* The client loses, repeats and reorders nothing: the requests it has been *)
(* given are the ones it has written, then those it has buffered, then      *)
(* those in its mailbox, until it gives up; across reconnections and writes *)
(* that fail half-way through the buffer.                                   *)
MessagesKeepTheirOrder ==
    ~HasGivenUp => SelectSeq(written \o write_buffer \o inbox, IsCall) = accepted

(* A request reaches the other node at most once, over whichever            *)
(* connections its client went through.                                     *)
HandledOnce == \A r \in Requests : handled[r] <= 1

(* Calls over the network as their callers see them.  A call is refused     *)
(* only if its actor is missing or the client is gone, the others also when *)
(* they time out; and all are answered, but a call is not if it or its      *)
(* answer was lost, if the client is gone, or if it waits for ever.         *)
Caller == INSTANCE Calls WITH
    impaired <- {r \in DOMAIN kind : kind[r] # "call" \/ ~Alive},
    cut_off <- {r \in Requests : IsCall(r) /\ (r \in dropped \/ Stuck \/ ~Alive)}

(* Every remote request is answered once or lost with a connection:         *)
(* node_rpc_raw, pings and handshakes implement Calls.                      *)
RemoteCallsAreAnswered == Caller!Spec
=============================================================================
