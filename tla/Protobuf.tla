------------------------------ MODULE Protobuf ------------------------------
(***************************************************************************)
(* What the generated protobuf code (remote/net/proto, sharding/proto,     *)
(* singleton/proto, persistent/journal/proto) does with a message: writing *)
(* leaves out every field that has its default value; reading starts from  *)
(* the default message, takes the fields that arrive, the last one if a    *)
(* field that is not repeated comes twice, and skips those it does not     *)
(* know.                                                                   *)
(*                                                                         *)
(* A schema is a record: field name -> number, kind and, for messages, the *)
(* schema they have.  Bytes are a sequence of <<number, wire type, value>>.*)
(* An optional message is a sequence of at most one message.               *)
(***************************************************************************)
EXTENDS Naturals, Sequences, FiniteSetsExt, SequencesExt

Plain(n, kind) == [no |-> n, kind |-> kind, of |-> <<>>]

Uint(n) == Plain(n, "uint")     \* uint32, uint64, int64 and enums
Bool(n) == Plain(n, "bool")
Text(n) == Plain(n, "text")
Bytes(n) == Plain(n, "bytes")
Texts(n) == Plain(n, "texts")   \* repeated string
Map(n) == Plain(n, "map")       \* map<string, string>

(* At most one message of the schema, and any number of them.               *)
Sub(n, schema) == [no |-> n, kind |-> "message", of |-> schema]

Each(n, schema) == [no |-> n, kind |-> "messages", of |-> schema]

MapEntry == [key |-> Text(1), value |-> Text(2)]

Zero(field) ==
    CASE field.kind = "uint" -> 0
      [] field.kind = "bool" -> FALSE
      [] field.kind = "text" -> ""
      [] OTHER -> <<>>

Default(schema) == [f \in DOMAIN schema |-> Zero(schema[f])]

WireType(field) == IF field.kind \in {"uint", "bool"} THEN 0 ELSE 2

Numbered(schema, n) == {f \in DOMAIN schema : schema[f].no = n}

RECURSIVE write_to_bytes(_, _)

(* What is written for one field.                                           *)
WriteField(field, v) ==
    LET Put(x) == <<field.no, WireType(field), x>>
    IN CASE field.kind \in {"uint", "text", "bytes"} -> IF v = Zero(field) THEN <<>> ELSE <<Put(v)>>
         [] field.kind = "bool" -> IF v THEN <<Put(1)>> ELSE <<>>
         [] field.kind = "texts" -> [i \in DOMAIN v |-> Put(v[i])]
         [] field.kind \in {"message", "messages"} ->
                [i \in DOMAIN v |-> Put(write_to_bytes(field.of, v[i]))]
         [] field.kind = "map" ->
                LET keys == SetToSeq(DOMAIN v)
                IN [i \in DOMAIN keys |->
                       Put(write_to_bytes(MapEntry, [key |-> keys[i], value |-> v[keys[i]]]))]

(* The fields are written in the order of their numbers.                    *)
write_to_bytes(schema, m) ==
    LET last == Max({0} \cup {schema[f].no : f \in DOMAIN schema})
        Written(n) == {WriteField(schema[f], m[f]) : f \in Numbered(schema, n)}
    IN FlattenSeq([n \in 1..last |-> CHOOSE b \in Written(n) : TRUE])

RECURSIVE parse_from_bytes(_, _)

(* What the values that arrive for one field, in their order, amount to.    *)
ReadField(field, xs) ==
    CASE field.kind \in {"uint", "text", "bytes"} -> IF xs = <<>> THEN Zero(field) ELSE Last(xs)
      [] field.kind = "bool" -> xs # <<>> /\ Last(xs) # 0
      [] field.kind = "texts" -> xs
      [] field.kind = "message" -> IF xs = <<>> THEN <<>> ELSE <<parse_from_bytes(field.of, Last(xs))>>
      [] field.kind = "messages" -> [i \in DOMAIN xs |-> parse_from_bytes(field.of, xs[i])]
      [] field.kind = "map" ->
             LET entries == [i \in DOMAIN xs |-> parse_from_bytes(MapEntry, xs[i])]
                 LastOf(k) == Max({i \in DOMAIN xs : entries[i].key = k})
             IN [k \in {entries[i].key : i \in DOMAIN xs} |-> entries[LastOf(k)].value]

parse_from_bytes(schema, bytes) ==
    LET Arrived(field) ==
            SelectSeq(bytes, LAMBDA e : e[1] = field.no /\ e[2] = WireType(field))
    IN [f \in DOMAIN schema |->
           ReadField(schema[f], LET es == Arrived(schema[f]) IN [i \in DOMAIN es |-> es[i][3]])]
=============================================================================
