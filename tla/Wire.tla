-------------------------------- MODULE Wire --------------------------------
(***************************************************************************)
(* What travels between nodes and to the journal, as bytes: SessionEvents  *)
(* to the node that accepted a connection, ClientEvents to the one that    *)
(* opened it, journal entries to the storage and back, and the plain       *)
(* protobuf messages themselves.  A frame is a byte for the event and the  *)
(* message (remote/net/message.rs); the receive loop (remote/net/mod.rs)   *)
(* takes the frames one by one until the stream ends.                      *)
(*                                                                         *)
(* The writer may be of a later version, with a field this version does    *)
(* not know in every message, and with events it does not know.            *)
(***************************************************************************)
EXTENDS Codec

CONSTANTS
    Media,        \* the media of an instance: session, client, journal, proto
    Values(_),    \* kind of field -> some values, not the default
    Inner(_),     \* event -> what may be inside, as the framework's own types
    MaxSent,      \* bounds the writer
    LaterField    \* an entry for a field that no schema has

VARIABLES
    medium,       \* fixed from the start
    later,        \* the writer is of a later version; fixed from the start
    sent,         \* what was written, in order
    stream,       \* the frames that were written and not read
    received,     \* what was read
    strangers,    \* how many events of a later version were written
    broken,       \* the connection is lost, and with it what was not yet sent
    reader        \* the receive loop: open | closed | panicked

vars == <<medium, later, sent, stream, received, strangers, broken, reader>>

-----------------------------------------------------------------------------
(* Which protobuf message is written for, and read as, which event.         *)

SessionEvents ==
    [Identify |-> IdentifyEvent, Handshake |-> SessionHandshake, Ping |-> PingEvent,
     Pong |-> PongEvent, CreateActor |-> CreateActorEvent, FindActor |-> FindActorEvent,
     NotifyActor |-> MessageRequest, RegisterActor |-> ActorAddress,
     StreamPublish |-> StreamPublishEvent, Result |-> ClientResult, Err |-> ClientErr]

ClientEvents ==
    [Identity |-> NodeIdentity, Handshake |-> ClientHandshake, Result |-> ClientResult,
     Err |-> ClientErr, Ping |-> PingEvent, Pong |-> PongEvent]

ProtoMessages ==
    [RaftRequest |-> RaftRequest, LeaseNack |-> LeaseNack, GetStatus |-> GetStatus,
     ManagerStatus |-> ManagerStatus, SingletonStopping |-> SingletonStopping] @@ Written

SchemasOf ==
    [session |-> SessionEvents, client |-> ClientEvents,
     journal |-> [JournalEntry |-> JournalEntry], proto |-> ProtoMessages]

Schemas == SchemasOf[medium]

(* The field that holds the bytes of a message, a result, a cluster event,  *)
(* an error or a journal payload.                                           *)
Slot ==
    [NotifyActor |-> "message", StreamPublish |-> "message", Result |-> "result",
     Err |-> "error", JournalEntry |-> "bytes"]

InnerBytes(event, x) ==
    CASE event = "NotifyActor" -> as_bytes(x)
      [] event = "StreamPublish" -> SystemEventBytes(x)
      [] event = "Result" -> write_remote_result(x)
      [] event = "Err" -> <<ErrToProto(x)>>
      [] event = "JournalEntry" ->
            IF x.type = "ShardStateSnapshot" THEN SnapshotBytes(x) ELSE as_bytes(x)

(* The reader knows what type to expect: from the handler_type, from the    *)
(* request that a result answers, from the payload_type.                    *)
InnerFrom(event, type, bytes) ==
    CASE event = "NotifyActor" -> from_bytes(type, bytes)
      [] event = "StreamPublish" -> SystemEventFrom(bytes)
      [] event = "Result" -> read_remote_result(type, bytes)
      [] event = "Err" -> ErrFromProto(bytes[1])
      [] event = "JournalEntry" ->
            IF type = "ShardStateSnapshot" THEN SnapshotFrom(bytes) ELSE from_bytes(type, bytes)

-----------------------------------------------------------------------------
(* What is written: messages with all fields set, all but one, or only one. *)

Full(schema) == [f \in DOMAIN schema |-> Values(schema[f])]

Samples(schema) ==
    {Default(schema), Full(schema)}
        \cup {[Default(schema) EXCEPT ![f] = Full(schema)[f]] : f \in DOMAIN schema}
        \cup {[Full(schema) EXCEPT ![f] = Default(schema)[f]] : f \in DOMAIN schema}

Plainly(event, schema) ==
    {[event |-> event, body |-> m, inner |-> <<>>] : m \in Samples(schema)}

Filled(event, schema) ==
    {[event |-> event, body |-> Full(schema), inner |-> <<x>>] : x \in Inner(event)}

EventsOf(event, schema) ==
    IF event \in DOMAIN Slot THEN Filled(event, schema) ELSE Plainly(event, schema)

EventsOn(m) == UNION {EventsOf(e, SchemasOf[m][e]) : e \in DOMAIN SchemasOf[m]}

Events == [session |-> EventsOn("session"), client |-> EventsOn("client"),
           journal |-> EventsOn("journal"), proto |-> EventsOn("proto")]

(* One of each kind: enough for what follows another event.                 *)
TypicalOn(m) ==
    {CHOOSE x \in Events[m] : x.event = e /\ x.body = Full(SchemasOf[m][e]) : e \in DOMAIN SchemasOf[m]}

Typical == [session |-> TypicalOn("session"), client |-> TypicalOn("client"),
            journal |-> TypicalOn("journal"), proto |-> TypicalOn("proto")]

-----------------------------------------------------------------------------
Body(e) ==
    IF e.inner = <<>> THEN e.body
    ELSE [e.body EXCEPT ![Slot[e.event]] = InnerBytes(e.event, e.inner[1])]

(* write_event: the event's number in front of the message's bytes.         *)
Tag(e) == IF medium \in {"session", "client"} THEN <<Event[e]>> ELSE <<e>>

FrameOf(e) ==
    [tag |-> Tag(e.event),
     bytes |-> write_to_bytes(Schemas[e.event], Body(e)) \o (IF later THEN <<LaterField>> ELSE <<>>),
     type |-> IF e.inner = <<>> THEN "" ELSE e.inner[1].type]

EventOf(frame) ==
    IF medium \in {"session", "client"} THEN Variant(Event, frame.tag[1]) ELSE frame.tag[1]

(* read_from_bytes gives None for a byte that is no event, or an event that *)
(* is not one for this end.                                                 *)
Readable(frame) ==
    /\ medium \in {"session", "client"} => Known(Event, frame.tag[1])
    /\ EventOf(frame) \in DOMAIN Schemas

read_from_bytes(frame) == parse_from_bytes(Schemas[EventOf(frame)], frame.bytes)

(* Both receivers unwrap and convert the error of an Err before they look   *)
(* for the request it answers.                                              *)
ReadPanics(frame) ==
    EventOf(frame) = "Err" /\
        LET error == read_from_bytes(frame).error
        IN error = <<>> \/ ~ErrIsKnown(error[1])

Received(frame) ==
    LET event == EventOf(frame)
        body == read_from_bytes(frame)
    IN IF event \in DOMAIN Slot
       THEN [event |-> event,
             body |-> [body EXCEPT ![Slot[event]] = Full(Schemas[event])[Slot[event]]],
             inner |-> <<InnerFrom(event, frame.type, body[Slot[event]])>>]
       ELSE [event |-> event, body |-> body, inner |-> <<>>]

-----------------------------------------------------------------------------
Init ==
    /\ medium \in Media /\ later \in BOOLEAN
    /\ sent = <<>> /\ stream = <<>> /\ received = <<>>
    /\ strangers = 0 /\ broken = FALSE /\ reader = "open"

Write(e) ==
    /\ ~broken /\ Len(sent) < MaxSent
    /\ sent # <<>> => e \in Typical[medium]
    /\ sent' = Append(sent, e) /\ stream' = Append(stream, FrameOf(e))
    /\ UNCHANGED <<medium, later, received, strangers, broken, reader>>

(* An event that only the later version has.                                *)
WriteStranger ==
    /\ later /\ ~broken /\ medium \in {"session", "client"} /\ strangers = 0
    /\ stream' = Append(stream, [tag |-> <<13>>, bytes |-> <<LaterField>>, type |-> ""])
    /\ strangers' = 1
    /\ UNCHANGED <<medium, later, sent, received, broken, reader>>

(* The connection is lost: some of the last frames do not arrive.           *)
Lose ==
    /\ medium \in {"session", "client"} /\ ~broken /\ broken' = TRUE
    /\ \E n \in 0..Len(stream) : stream' = SubSeq(stream, 1, n)
    /\ UNCHANGED <<medium, later, sent, received, strangers, reader>>

MutantReceive ==
    /\ reader = "open" /\ stream # <<>>
    /\ stream' = Tail(stream)
    /\ IF ~Readable(Head(stream)) THEN reader' = "closed" /\ UNCHANGED received
       ELSE IF ReadPanics(Head(stream)) THEN reader' = "panicked" /\ UNCHANGED received
       ELSE received' = Append(received, Received(Head(stream))) /\ UNCHANGED reader
    /\ UNCHANGED <<medium, later, sent, strangers, broken>>

(* receive_loop: a frame that cannot be read is skipped                     *)
(* (on_deserialisation_failed).                                             *)
Receive ==
    /\ reader = "open" /\ stream # <<>>
    /\ stream' = Tail(stream)
    /\ IF ~Readable(Head(stream)) THEN UNCHANGED <<received, reader>>
       ELSE IF ReadPanics(Head(stream)) THEN reader' = "panicked" /\ UNCHANGED received
       ELSE received' = Append(received, Received(Head(stream))) /\ UNCHANGED reader
    /\ UNCHANGED <<medium, later, sent, strangers, broken>>

(* The stream ends, or fails: the loop is left, and on_close is called.     *)
on_close ==
    /\ reader = "open" /\ stream = <<>> /\ broken
    /\ reader' = "closed"
    /\ UNCHANGED <<medium, later, sent, stream, received, strangers, broken>>

Next == (\E e \in Events[medium] : Write(e)) \/ WriteStranger \/ Lose \/ Receive \/ on_close

Spec == Init /\ [][Next]_vars

-----------------------------------------------------------------------------
(* Properties.                                                              *)

(* What is lost on purpose: a snapshot holds no running entity.             *)
Meant(e) ==
    LET Idle(x) == [x EXCEPT !.state = IF @ = "Passivated" THEN @ ELSE "Idle"]
    IN IF e.inner # <<>> /\ e.inner[1].type = "ShardStateSnapshot"
       THEN [e EXCEPT !.inner[1].entities = Each1(Idle, @)] ELSE e

(* What is read is what was written, in the same order and with nothing     *)
(* left out: every message, result, error, event, journal entry and         *)
(* snapshot has the same meaning for the two conversions and for the two    *)
(* ends of a connection, whether or not the writer is of a later version.   *)
ReadIsWritten ==
    /\ Len(received) <= Len(sent)
    /\ \A i \in DOMAIN received : received[i] = Meant(sent[i])

(* No frame that another node writes makes the receive loop panic, which    *)
(* would leave a connection open with nobody to read it; and while the      *)
(* connection holds, the loop goes on reading, and every event is received  *)
(* or still on its way, also behind one that this version does not know.    *)
NothingIsSkipped ==
    /\ reader # "panicked"
    /\ ~broken =>
        /\ reader = "open"
        /\ Len(received) + Len(SelectSeq(stream, Readable)) = Len(sent)
=============================================================================
