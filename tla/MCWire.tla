------------------------------- MODULE MCWire -------------------------------
(* Small values of every kind of field, and of every type that is sent.     *)
EXTENDS Wire

MCValues(field) ==
    CASE field.kind = "uint" -> 1
      [] field.kind = "bool" -> TRUE
      [] field.kind = "text" -> "a"
      [] field.kind = "bytes" -> <<"b">>
      [] field.kind = "texts" -> <<"a", "b">>
      [] field.kind = "map" -> "k" :> "v" @@ "l" :> "v"
      [] field.kind = "message" -> <<Default(field.of)>>
      [] field.kind = "messages" ->
            <<Default(field.of),
              [f \in DOMAIN field.of |-> IF field.of[f].kind = "text" THEN "a" ELSE Zero(field.of[f])]>>

Num == 0..1

Opt(S) == {<<>>} \cup {<<x>> : x \in S}

Nodes ==
    [id : {1}, addr : {"a"}, tag : {"", "t"}, node_started_at : Opt({0, 3}),
     attributes : {<<>>, "k" :> "v"}]

ANode == CHOOSE n \in Nodes : TRUE

SystemEvents ==
    [type : {"NodeAdded", "NodeRemoved"}, node : Nodes]
        \cup [type : {"LeaderChanged"}, node_id : Num]
        \cup [type : {"MemberUp"}, leader_id : Num, nodes : {<<>>, <<ANode>>, <<ANode, ANode>>}]

EntityMessages ==
    [type : {"StartEntity"}, actor_id : {"a"}, recipe : {<<>>, <<"b">>}]
        \cup [type : {"RemoveEntity", "PassivateEntity"}, actor_id : {"a"}]

RemoteMessages ==
    [type : {"AllocateShard"}, shard_id : Num, rebalancing : BOOLEAN]
        \cup [type : {"ShardAllocated"}, shard_id : Num, node_id : Num]
        \cup [type : {"ShardReallocating"}, shard_id : Num]
        \cup [type : {"StopShard"}, shard_id : Num, origin_node_id : Num, request_id : {"u"}]
        \cup [type : {"ShardStopped"}, shard_id : Num, stopped_successfully : BOOLEAN]
        \cup [type : {"RemoteEntityRequest"}, request_id : {"u"}, actor_id : {"a"}, message_type : {"m"},
              message : {<<>>, <<"b">>}, recipe : Opt({<<>>, <<"b">>}), origin_node : Num]
        \cup [type : {"GetShardingStats", "GetShardStats"}]
        \cup [type : {"RequestLease", "LeaseAck", "SingletonStarted", "SingletonStopped"},
              source_node_id : Num]

Results ==
    [type : {"AllocateShard"}, result : {"ALLOCATED", "ALREADY_ALLOCATED"}, shard_id : Num, node_id : Num]
        \cup [type : {"AllocateShard"}, result : {"NOT_ALLOCATED"}]
        \cup [type : {"AllocateShard"}, result : {"ERR"}, err : DOMAIN AllocateShardErr]
        \cup [type : {"GetShardingStats"}, entity_type : {"a"}, total_shards : Num,
              shards : {<<>>, <<[shard_id |-> 0, node_id |-> 0], [shard_id |-> 1, node_id |-> 0]>>},
              nodes : {<<[node_id |-> n, shard_count |-> n, status |-> s]>> :
                          n \in Num, s \in DOMAIN ShardHostStatus}]
        \cup [type : {"GetShardStats"}, shard_id : Num, node_id : Num, entities : SUBSET {"a", "b"}]
        \cup [type : {"StopShard"}]

Errs ==
    [type : DOMAIN ErrorType \ {"NotFound", "AlreadyExists", "NotSupported", "Timeout",
                                "Serialisation", "Deserialisation"}]
        \cup [type : {"NotFound", "AlreadyExists"}, actor_id : {"", "a"}]
        \cup [type : {"NotSupported"}, actor_id : {"a"}, message_type : {"m"}, actor_type : {"t"}]
        \cup [type : {"Timeout"}, time_taken_millis : Num]
        \cup [type : {"Serialisation"}, serialization_error : DOMAIN WrapErr]
        \cup [type : {"Deserialisation"}, deserialization_error : DOMAIN UnwrapErr]

Snapshots ==
    [type : {"ShardStateSnapshot"}, shard_id : Num, node_id : Num,
     entities : {<<>>} \cup {<<[actor_id |-> "a", recipe |-> <<"b">>, state |-> s],
                               [actor_id |-> "b", recipe |-> <<>>, state |-> "Active"]>> :
                                  s \in {"Idle", "Starting", "Active", "Passivated"}}]

MCInner(event) ==
    CASE event = "NotifyActor" -> RemoteMessages
      [] event = "StreamPublish" -> SystemEvents
      [] event = "Result" -> Results
      [] event = "Err" -> Errs
      [] event = "JournalEntry" -> EntityMessages \cup Snapshots

MCLaterField == <<15, 2, "later">>
=============================================================================
