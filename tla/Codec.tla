------------------------------- MODULE Codec --------------------------------
(***************************************************************************)
(* The conversions between the framework's own types and the protobuf      *)
(* messages: Message::as_bytes and from_bytes of the sharding and          *)
(* singleton messages, the results they have, nodes, cluster events,       *)
(* errors, journal entries and the snapshot of a shard.                    *)
(*                                                                         *)
(* A message is a record with its type's name in the field "type"; an      *)
(* Option is a sequence of at most one value.                              *)
(***************************************************************************)
EXTENDS Messages

CONSTANT NanosPerSecond   \* 10^9; how many is of no interest

Without(m, fields) == [f \in DOMAIN m \ fields |-> m[f]]

Typed(type, m) == ("type" :> type) @@ m

(* The number of an enum's variant, and the variant of a number: unwrap()   *)
(* of a number that is none panics.                                         *)
Variant(enum, no) == CHOOSE v \in DOMAIN enum : enum[v] = no

Known(enum, no) == \E v \in DOMAIN enum : enum[v] = no

Each1(Op(_), seq) == [i \in DOMAIN seq |-> Op(seq[i])]

-----------------------------------------------------------------------------
(* Nodes and cluster events.                                                *)

datetime_to_timestamp(date) ==
    [seconds |-> date \div NanosPerSecond, nanos |-> date % NanosPerSecond]

timestamp_to_datetime(t) == t.seconds * NanosPerSecond + t.nanos

NodeToProto(n) ==
    [node_id |-> n.id, addr |-> n.addr, tag |-> n.tag,
     node_started_at |-> Each1(datetime_to_timestamp, n.node_started_at),
     attributes |-> n.attributes]

NodeFromProto(p) ==
    [id |-> p.node_id, addr |-> p.addr, tag |-> p.tag,
     node_started_at |-> Each1(timestamp_to_datetime, p.node_started_at),
     attributes |-> p.attributes]

(* SystemEvent::write_to_bytes and read_from_bytes: a byte for the event,   *)
(* then the message.                                                        *)
SystemEventBytes(e) ==
    CASE e.type = "NodeAdded" ->
            <<SystemEvent.ClusterNewNode>> \o
                write_to_bytes(NewNodeEvent, [node |-> <<NodeToProto(e.node)>>, trace_id |-> ""])
      [] e.type = "NodeRemoved" ->
            <<SystemEvent.ClusterNodeRemoved>> \o
                write_to_bytes(NodeRemovedEvent, [node |-> <<NodeToProto(e.node)>>, trace_id |-> ""])
      [] e.type = "LeaderChanged" ->
            <<SystemEvent.ClusterLeaderChanged>> \o
                write_to_bytes(LeaderChangedEvent, [node_id |-> e.node_id, trace_id |-> ""])
      [] e.type = "MemberUp" ->
            <<SystemEvent.ClusterMemberUp>> \o
                write_to_bytes(MemberUpEvent, [leader_id |-> e.leader_id, trace_id |-> "",
                                               nodes |-> Each1(NodeToProto, e.nodes)])

SystemEventFrom(bytes) ==
    LET event == Variant(SystemEvent, Head(bytes))
        Read(schema) == parse_from_bytes(schema, Tail(bytes))
    IN CASE event = "ClusterNewNode" ->
               [type |-> "NodeAdded", node |-> NodeFromProto(Read(NewNodeEvent).node[1])]
         [] event = "ClusterNodeRemoved" ->
               [type |-> "NodeRemoved", node |-> NodeFromProto(Read(NodeRemovedEvent).node[1])]
         [] event = "ClusterLeaderChanged" ->
               [type |-> "LeaderChanged", node_id |-> Read(LeaderChangedEvent).node_id]
         [] event = "ClusterMemberUp" ->
               LET up == Read(MemberUpEvent)
               IN [type |-> "MemberUp", leader_id |-> up.leader_id,
                   nodes |-> Each1(NodeFromProto, up.nodes)]

-----------------------------------------------------------------------------
(* Errors.                                                                  *)

WrapErr == [NotTransmittable |-> MessageWrapErr.WrapUnsupported,
            SerializationErr |-> MessageWrapErr.SerializationErr,
            Unknown |-> MessageWrapErr.UnknownWrapErr]

UnwrapErr == [NotTransmittable |-> MessageUnwrapErr.UnwrapUnsupported,
              DeserializationErr |-> MessageUnwrapErr.DeserializationErr,
              Unknown |-> MessageUnwrapErr.UnknownUnwrapErr]

(* The fields of ActorRefErr that each variant has.                         *)
ErrFields(type) ==
    CASE type \in {"NotFound", "AlreadyExists"} -> {"actor_id"}
      [] type = "NotSupported" -> {"actor_id", "message_type", "actor_type"}
      [] type = "Timeout" -> {"time_taken_millis"}
      [] type = "Serialisation" -> {"serialization_error"}
      [] type = "Deserialisation" -> {"deserialization_error"}
      [] OTHER -> {}

ErrValue(f, v) ==
    CASE f = "serialization_error" -> WrapErr[v]
      [] f = "deserialization_error" -> UnwrapErr[v]
      [] OTHER -> v

ErrToProto(e) ==
    [f \in DOMAIN ActorRefErr |->
        CASE f = "type_" -> ErrorType[e.type]
          [] f \in ErrFields(e.type) -> ErrValue(f, e[f])
          [] OTHER -> Zero(ActorRefErr[f])]

(* The conversion of an error with a type that has no variant panics.       *)
ErrIsKnown(p) == Known(ErrorType, p.type_)

ErrFromProto(p) ==
    LET type == Variant(ErrorType, p.type_)
        Value(f) == CASE f = "serialization_error" -> Variant(WrapErr, p[f])
                      [] f = "deserialization_error" -> Variant(UnwrapErr, p[f])
                      [] OTHER -> p[f]
    IN Typed(type, [f \in ErrFields(type) |-> Value(f)])

-----------------------------------------------------------------------------
(* Messages to actors on other nodes.  ShardReallocating is read with the   *)
(* code for StopShard.                                                      *)

AllocateShardProto(m) == [shard_id |-> m.shard_id, rebalancing |-> m.rebalancing]

ShardAllocatedProto(m) == [shard |-> <<[shard_id |-> m.shard_id, node_id |-> m.node_id]>>]

ShardAllocatedFrom(p) == [shard_id |-> p.shard[1].shard_id, node_id |-> p.shard[1].node_id]

ShardReallocatingProto(m) == [shard_id |-> m.shard_id]

ShardReallocatingFrom(p) == [shard_id |-> p.shard_id]

StopShardProto(m) ==
    [shard_id |-> m.shard_id, request_id |-> m.request_id, origin_node_id |-> m.origin_node_id]

ShardStoppedProto(m) ==
    [shard_id |-> m.shard_id, origin_node_id |-> 0, is_successful |-> m.stopped_successfully]

ShardStoppedFrom(p) == [shard_id |-> p.shard_id, stopped_successfully |-> p.is_successful]

EntityRequestProto(m) ==
    [Without(m, {"type"}) EXCEPT !.recipe = Each1(LAMBDA r : [recipe |-> r], @)]

EntityRequestFrom(p) == [p EXCEPT !.recipe = Each1(LAMBDA r : r.recipe, @)]

(* StartEntity has a recipe too.                                            *)
EntityProto(m) == Without(m, {"type"})

LeaseProto(m) == [source_node_id |-> m.source_node_id]

SingletonProto(m) == [source_node_id |-> m.source_node_id]

Written ==
    [AllocateShard |-> AllocateShard, ShardAllocated |-> ShardAllocated,
     ShardReallocating |-> ShardReallocating, StopShard |-> StopShard,
     ShardStopped |-> ShardStopped, RemoteEntityRequest |-> RemoteEntityRequest,
     StartEntity |-> StartEntity, RemoveEntity |-> RemoveEntity,
     PassivateEntity |-> PassivateEntity, GetShardingStats |-> GetShardingStats,
     GetShardStats |-> GetShardStats, RequestLease |-> RequestLease, LeaseAck |-> LeaseAck,
     SingletonStarted |-> SingletonStarted, SingletonStopped |-> SingletonStopped]

Read == [Written EXCEPT !.ShardReallocating = StopShard]

as_bytes(m) ==
    write_to_bytes(Written[m.type],
        CASE m.type = "AllocateShard" -> AllocateShardProto(m)
          [] m.type = "ShardAllocated" -> ShardAllocatedProto(m)
          [] m.type = "ShardReallocating" -> ShardReallocatingProto(m)
          [] m.type = "StopShard" -> StopShardProto(m)
          [] m.type = "ShardStopped" -> ShardStoppedProto(m)
          [] m.type = "RemoteEntityRequest" -> EntityRequestProto(m)
          [] m.type \in {"StartEntity", "RemoveEntity", "PassivateEntity"} -> EntityProto(m)
          [] m.type \in {"RequestLease", "LeaseAck"} -> LeaseProto(m)
          [] m.type \in {"SingletonStarted", "SingletonStopped"} -> SingletonProto(m)
          [] OTHER -> <<>>)

from_bytes(type, bytes) ==
    LET p == parse_from_bytes(Read[type], bytes)
    IN Typed(type,
        CASE type = "ShardAllocated" -> ShardAllocatedFrom(p)
          [] type = "ShardReallocating" -> ShardReallocatingFrom(p)
          [] type = "ShardStopped" -> ShardStoppedFrom(p)
          [] type = "RemoteEntityRequest" -> EntityRequestFrom(p)
          [] OTHER -> p)

-----------------------------------------------------------------------------
(* The results of those messages: write_remote_result, read_remote_result.  *)

AllocationResultProto(r) ==
    [result_type |-> AllocateShardType[r.result],
     allocation |-> IF r.result \in {"ALLOCATED", "ALREADY_ALLOCATED"}
                    THEN <<[shard_id |-> r.shard_id, node_id |-> r.node_id]>> ELSE <<>>,
     err |-> IF r.result = "ERR" THEN AllocateShardErr[r.err] ELSE 0]

AllocationResultFrom(p) ==
    LET result == Variant(AllocateShardType, p.result_type)
    IN [type |-> "AllocateShard", result |-> result] @@
        CASE result \in {"ALLOCATED", "ALREADY_ALLOCATED"} ->
                [shard_id |-> p.allocation[1].shard_id, node_id |-> p.allocation[1].node_id]
          [] result = "ERR" -> [err |-> Variant(AllocateShardErr, p.err)]
          [] OTHER -> <<>>

NodeStatsProto(n) == [n EXCEPT !.status = ShardHostStatus[@]]

NodeStatsFrom(p) == [p EXCEPT !.status = Variant(ShardHostStatus, @)]

ShardStatsProto(r) == [Without(r, {"type"}) EXCEPT !.entities = SetToSeq(@)]

ShardStatsFrom(p) == [p EXCEPT !.entities = ToSet(@)]

write_remote_result(r) ==
    CASE r.type = "AllocateShard" -> write_to_bytes(AllocateShardResult, AllocationResultProto(r))
      [] r.type = "GetShardingStats" ->
            write_to_bytes(ShardingStats, [Without(r, {"type"}) EXCEPT !.nodes = Each1(NodeStatsProto, @)])
      [] r.type = "GetShardStats" ->
            write_to_bytes(ShardStats, ShardStatsProto(r))
      [] OTHER -> <<>>

read_remote_result(type, bytes) ==
    CASE type = "AllocateShard" -> AllocationResultFrom(parse_from_bytes(AllocateShardResult, bytes))
      [] type = "GetShardingStats" ->
            Typed(type, [parse_from_bytes(ShardingStats, bytes) EXCEPT !.nodes = Each1(NodeStatsFrom, @)])
      [] type = "GetShardStats" ->
            Typed(type, ShardStatsFrom(parse_from_bytes(ShardStats, bytes)))
      [] OTHER -> [type |-> type]

-----------------------------------------------------------------------------
(* The snapshot of a shard: entities that are not passivated become idle.   *)

SnapshotBytes(s) ==
    LET ToProto(e) ==
            [e EXCEPT !.state = IF @ = "Passivated" THEN EntityState.PASSIVATED ELSE EntityState.IDLE]
    IN write_to_bytes(ShardStateSnapshot, [Without(s, {"type"}) EXCEPT !.entities = Each1(ToProto, @)])

SnapshotFrom(bytes) ==
    LET EntityFrom(e) ==
            [e EXCEPT !.state = IF @ = EntityState.PASSIVATED THEN "Passivated" ELSE "Idle"]
    IN Typed("ShardStateSnapshot",
             [parse_from_bytes(ShardStateSnapshot, bytes) EXCEPT !.entities = Each1(EntityFrom, @)])
=============================================================================
