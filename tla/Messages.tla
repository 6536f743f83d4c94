------------------------------ MODULE Messages ------------------------------
(***************************************************************************)
(* The protobuf messages and enums of the protocol, as the generated code  *)
(* reads and writes them: each field's number and kind are those of        *)
(* merge_from and write_to_with_cached_sizes, an enum's numbers those of   *)
(* its from_i32.                                                           *)
(***************************************************************************)
EXTENDS Protobuf

-----------------------------------------------------------------------------
(* remote/net/proto/network.rs                                              *)

(* google.protobuf.Timestamp and UInt64Value, of the protobuf crate.        *)
Timestamp == [seconds |-> Uint(1), nanos |-> Uint(2)]

UInt64Value == [value |-> Uint(1)]

RemoteNode ==
    [node_id |-> Uint(1), addr |-> Text(2),
     node_started_at |-> Sub(3, Timestamp), tag |-> Text(4),
     attributes |-> Map(5)]

IdentifyEvent ==
    [source_node_id |-> Uint(1), source_node_tag |-> Text(2),
     token |-> Text(3)]

SystemCapabilities == [actors |-> Texts(1), messages |-> Texts(2)]

NodeIdentity ==
    [node_id |-> Uint(1), node_tag |-> Text(2), addr |-> Text(3),
     application_version |-> Text(4), protocol_version |-> Text(5),
     node_started_at |-> Sub(6, Timestamp), peers |-> Each(7, RemoteNode),
     capabilities |-> Sub(8, SystemCapabilities), attributes |-> Map(9)]

ClientHandshake ==
    [node_id |-> Uint(1), nodes |-> Each(2, RemoteNode), node_tag |-> Text(3),
     trace_id |-> Text(4), node_started_at |-> Sub(5, Timestamp)]

ClientResult == [message_id |-> Text(1), result |-> Bytes(2), trace_id |-> Text(3)]

ActorRefErr ==
    [type_ |-> Uint(1), actor_id |-> Text(2), message_type |-> Text(3),
     actor_type |-> Text(4), time_taken_millis |-> Uint(5),
     serialization_error |-> Uint(6), deserialization_error |-> Uint(7)]

ClientErr ==
    [message_id |-> Text(1), error |-> Sub(2, ActorRefErr),
     trace_id |-> Text(3)]

PingEvent ==
    [message_id |-> Text(1), trace_id |-> Text(2), node_id |-> Uint(3),
     system_terminated |-> Bool(4)]

PongEvent == [message_id |-> Text(1), trace_id |-> Text(2)]

CreateActorEvent ==
    [message_id |-> Text(1), actor_id |-> Text(2), actor_type |-> Text(3),
     recipe |-> Bytes(4), trace_id |-> Text(5)]

FindActorEvent ==
    [message_id |-> Text(1), actor_id |-> Text(2), trace_id |-> Text(3)]

ActorAddress ==
    [actor_id |-> Text(1), node_id |-> Sub(2, UInt64Value),
     trace_id |-> Text(3)]

MessageRequest ==
    [message_id |-> Text(1), handler_type |-> Text(2), actor_id |-> Text(3),
     message |-> Bytes(4), trace_id |-> Text(5),
     requires_response |-> Bool(6), origin_node_id |-> Uint(7)]

SessionHandshake ==
    [node_id |-> Uint(1), nodes |-> Each(2, RemoteNode), token |-> Bytes(3),
     node_tag |-> Text(4), client_type |-> Uint(5), trace_id |-> Text(6)]

StreamPublishEvent ==
    [topic |-> Text(1), key |-> Text(2), message |-> Bytes(3),
     trace_id |-> Text(4)]

NewNodeEvent == [node |-> Sub(1, RemoteNode), trace_id |-> Text(2)]

NodeRemovedEvent == [node |-> Sub(1, RemoteNode), trace_id |-> Text(2)]

LeaderChangedEvent == [node_id |-> Uint(1), trace_id |-> Text(2)]

MemberUpEvent ==
    [leader_id |-> Uint(1), nodes |-> Each(2, RemoteNode),
     trace_id |-> Text(3)]

RaftRequest ==
    [message_id |-> Text(1), request_type |-> Uint(2), payload |-> Bytes(3)]

Event ==
    [Identify |-> 0, Handshake |-> 1, Result |-> 2, Err |-> 3, Ping |-> 4, Pong |-> 5,
     CreateActor |-> 6, FindActor |-> 7, RegisterActor |-> 8, NotifyActor |-> 9,
     StreamPublish |-> 10, Raft |-> 11, Identity |-> 12]

SystemEvent ==
    [ClusterNewNode |-> 0, ClusterNodeRemoved |-> 1, ClusterLeaderChanged |-> 2,
     ClusterMemberUp |-> 3]

ErrorType ==
    [ActorUnavailable |-> 0, NotFound |-> 1, AlreadyExists |-> 2, Serialisation |-> 3,
     Deserialisation |-> 4, Timeout |-> 5, ActorStartFailed |-> 6, InvalidRef |-> 7,
     ResultChannelClosed |-> 8, ResultSendFailed |-> 9, NotSupported |-> 10,
     NotImplemented |-> 11]

MessageUnwrapErr == [UnknownUnwrapErr |-> 0, UnwrapUnsupported |-> 1, DeserializationErr |-> 2]

MessageWrapErr == [UnknownWrapErr |-> 0, WrapUnsupported |-> 1, SerializationErr |-> 2]

-----------------------------------------------------------------------------
(* sharding/proto/sharding.rs                                               *)

AllocateShard == [shard_id |-> Uint(1), rebalancing |-> Bool(2)]

RemoteShard == [shard_id |-> Uint(1), node_id |-> Uint(2)]

ShardAllocated == [shard |-> Sub(1, RemoteShard)]

ShardReallocating == [shard_id |-> Uint(1)]

MutantStopShard ==
    [shard_id |-> Uint(2), origin_node_id |-> Uint(1), request_id |-> Text(3)]

StopShard ==
    [shard_id |-> Uint(1), origin_node_id |-> Uint(2), request_id |-> Text(3)]

ShardStopped ==
    [shard_id |-> Uint(1), origin_node_id |-> Uint(2),
     is_successful |-> Bool(3)]

AllocateShardResult ==
    [result_type |-> Uint(1), allocation |-> Sub(2, RemoteShard),
     err |-> Uint(3)]

Recipe == [recipe |-> Bytes(1)]

RemoteEntityRequest ==
    [request_id |-> Text(1), actor_id |-> Text(2), message_type |-> Text(3),
     message |-> Bytes(4), recipe |-> Sub(5, Recipe), origin_node |-> Uint(6)]

StartEntity == [actor_id |-> Text(1), recipe |-> Bytes(2)]

PassivateEntity == [actor_id |-> Text(1)]

RemoveEntity == [actor_id |-> Text(1)]

Entity == [actor_id |-> Text(1), recipe |-> Bytes(2), state |-> Uint(3)]

ShardStateSnapshot ==
    [shard_id |-> Uint(1), node_id |-> Uint(2), entities |-> Each(3, Entity)]

GetShardingStats == <<>>

NodeStats == [node_id |-> Uint(1), shard_count |-> Uint(2), status |-> Uint(3)]

ShardingStats ==
    [entity_type |-> Text(1), total_shards |-> Uint(2),
     shards |-> Each(3, RemoteShard), nodes |-> Each(4, NodeStats)]

GetShardStats == <<>>

ShardStats == [shard_id |-> Uint(1), node_id |-> Uint(2), entities |-> Texts(3)]

AllocateShardType == [ALLOCATED |-> 0, ALREADY_ALLOCATED |-> 1, NOT_ALLOCATED |-> 2, ERR |-> 3]

AllocateShardErr == [UNKNOWN |-> 0, PERSISTENCE |-> 1]

EntityState == [IDLE |-> 0, ACTIVE |-> 1, PASSIVATED |-> 2]

ShardHostStatus == [UNKNOWN |-> 0, STARTING |-> 1, READY |-> 2, UNAVAILABLE |-> 3]

-----------------------------------------------------------------------------
(* singleton/proto/singleton.rs                                             *)

GetStatus == [source_node_id |-> Uint(1)]

ManagerStatus == [singleton_state |-> Uint(1)]

RequestLease == [source_node_id |-> Uint(1)]

LeaseAck == [source_node_id |-> Uint(1)]

LeaseNack == [source_node_id |-> Uint(1)]

SingletonStarted == [source_node_id |-> Uint(1)]

SingletonStopping == [source_node_id |-> Uint(1)]

SingletonStopped == [source_node_id |-> Uint(1)]

-----------------------------------------------------------------------------
(* persistent/journal/proto/journal.rs                                      *)

JournalEntry == [sequence |-> Uint(1), payload_type |-> Text(2), bytes |-> Bytes(3)]
=============================================================================
