------------------------------- MODULE Protobuf -------------------------------
(***************************************************************************)
(* The messages of src/proto and the code protoc generates for them: what  *)
(* a message is turned into on the wire, and what a parser makes of it     *)
(* (rpc_protocol.pb.cc, calculator.pb.cc).                                 *)
(*                                                                         *)
(* The bytes on the wire are a sequence of records, one per encoded field: *)
(* its number, its wire type and its content.  The code of a message is    *)
(* the same for every message but for its fields, so a message type is the *)
(* sequence of its fields, in the order in which they are serialized.      *)
(***************************************************************************)
EXTENDS Integers, Sequences, SequencesExt

CONSTANTS
    W32, W64,     \* 2^32 and 2^64
    NotUtf8       \* the strings that are not UTF-8

ASSUME WidthAssumption ==
    W32 \in Nat /\ W64 \in Nat /\ W32 % 2 = 0 /\ W32 > 0 /\ W64 % W32 = 0 /\ W64 > 0

F(number, name, type) == [num |-> number, name |-> name, type |-> type]

RpcRequestProto ==
    << F(1, "request_id", "uint64"), F(2, "service_name", "string"),
       F(3, "method_name", "string"), F(4, "client_id", "string"),
       F(5, "request_data", "bytes"), F(6, "timeout_ms", "int32"),
       F(7, "metadata", "map") >>

RpcResponseProto ==
    << F(1, "request_id", "uint64"), F(2, "success", "bool"),
       F(3, "response_data", "bytes"), F(4, "error_code", "int32"),
       F(5, "error_message", "string"), F(6, "metadata", "map") >>

AddRequest == << F(1, "a", "int32"), F(2, "b", "int32") >>
AddResponse == << F(1, "result", "int32") >>
SubRequest == << F(1, "a", "int32"), F(2, "b", "int32") >>
SubResponse == << F(1, "response", "int32") >>
MultiRequest == << F(1, "a", "int32"), F(2, "b", "int32") >>
MultiResponse == << F(1, "response", "int32") >>
DivideRequest == << F(1, "a", "int32"), F(2, "b", "int32") >>
DivideResponse == << F(1, "result", "double") >>

-----------------------------------------------------------------------------
(* Values *)

(* int32_t *)
Signed(n) == IF n % W32 < W32 \div 2 THEN n % W32 ELSE (n % W32) - W32
Int32 == -(W32 \div 2) .. (W32 \div 2) - 1

(* double: a quotient, or one of the values that are not numbers. *)
ZeroDouble == <<"number", 0, 1>>
MinusZero == <<"number", 0, -1>>

(* Faulty variant, used only to test the properties: compares the values.  *)
NotZeroValue(v) == v \notin {ZeroDouble, MinusZero}
NotZero(v) == v # ZeroDouble     \* compares the bits

NoMetadata == <<>>

(* What the constructor and Clear give a field. *)
Default(type) ==
    CASE type \in {"uint64", "int32"} -> 0
      [] type = "bool" -> FALSE
      [] type = "double" -> ZeroDouble
      [] type = "string" -> ""
      [] type = "bytes" -> <<>>
      [] type = "map" -> NoMetadata

Names(M) == {M[k].name : k \in DOMAIN M}
FieldOf(M, name) == M[CHOOSE k \in DOMAIN M : M[k].name = name]

(* The elements of a sequence that are at the positions in I. *)
ElementsAt(s, I) ==
    LET taken[n \in 0..Len(s)] ==
            IF n = 0 THEN <<>>
            ELSE IF n \in I THEN Append(taken[n - 1], s[n])
            ELSE taken[n - 1]
    IN  taken[Len(s)]

(* A new message, or one that was cleared. *)
New(M) == [fields |-> [name \in Names(M) |-> Default(FieldOf(M, name).type)], unknown |-> <<>>]

-----------------------------------------------------------------------------
(* The wire format (of the protobuf library) *)

WireType(type) ==
    CASE type \in {"uint64", "int32", "bool"} -> "varint"
      [] type = "double" -> "fixed64"
      [] OTHER -> "bytes"

(* An int32 is sign-extended to 64 bits. *)
Encoded(type, v) ==
    CASE type = "int32" -> v % W64
      [] type = "bool" -> IF v THEN 1 ELSE 0
      [] OTHER -> v

(* ReadVarint32 keeps the lower 32 bits. *)
Decoded(type, v) ==
    CASE type = "int32" -> Signed(v)
      [] type = "bool" -> v # 0
      [] OTHER -> v

Record(number, wire_type, content) == [num |-> number, type |-> wire_type, content |-> content]

(* Tag 0, the end of a group, or what is left of a field that was cut off. *)
Unreadable == Record(0, "end", 0)

-----------------------------------------------------------------------------
(* _InternalSerialize *)

(* proto3 does not write a field that has its default value. *)
IsSet(f, v) == IF f.type = "double" THEN NotZero(v) ELSE v # Default(f.type)

(* Map entries are written in any order, one record each. *)
Entries(f, map) ==
    LET keys == SetToSeq(DOMAIN map)
    IN  [k \in DOMAIN keys |-> Record(f.num, "bytes", <<keys[k], map[keys[k]]>>)]

(* The map, which only the envelopes have, is the last of their fields. *)
MapEntries(M, m) ==
    IF M[Len(M)].type = "map" THEN Entries(M[Len(M)], m.fields[M[Len(M)].name]) ELSE <<>>

FieldRecord(f, v) == Record(f.num, WireType(f.type), Encoded(f.type, v))

Written(M, m) == {k \in DOMAIN M : M[k].type # "map" /\ IsSet(M[k], m.fields[M[k].name])}

SerializeToString(M, m) ==
    ElementsAt([k \in DOMAIN M |-> FieldRecord(M[k], m.fields[M[k].name])], Written(M, m))
        \o MapEntries(M, m) \o m.unknown

-----------------------------------------------------------------------------
(* _InternalParse *)

Failure == [ok |-> FALSE]
Parsed(m) == [ok |-> TRUE, message |-> m]

(* The loop assigns a field for every record that has its number and its    *)
(* wire type, so that the last one stays; other records are kept as         *)
(* unknown, and an unreadable one makes the whole parse fail, as does a     *)
(* string that is not UTF-8.                                               *)
Matches(f, r) == r.num = f.num /\ r.type = WireType(f.type)
At(f, data) == {k \in DOMAIN data : Matches(f, data[k])}

Keys(f, data) == {data[k].content[1] : k \in At(f, data)}

Value(f, data) ==
    IF f.type = "map"
    THEN [key \in Keys(f, data) |->
             data[Max({k \in At(f, data) : data[k].content[1] = key})].content[2]]
    ELSE IF At(f, data) = {} THEN Default(f.type)
    ELSE Decoded(f.type, data[Max(At(f, data))].content)

Utf8(f, content) ==
    CASE f.type = "string" -> content \notin NotUtf8
      [] f.type = "map" -> content[1] \notin NotUtf8 /\ content[2] \notin NotUtf8
      [] OTHER -> TRUE

(* Faulty variant, used only to test the properties: what is unknown is     *)
(* refused.                                                                *)
ReadableKnown(M, data) == \A k \in DOMAIN data : \E j \in DOMAIN M : Matches(M[j], data[k])

Readable(M, data) ==
    /\ \A k \in DOMAIN data : data[k].type # "end"
    /\ \A j \in DOMAIN M : \A k \in At(M[j], data) : Utf8(M[j], data[k].content)

Unknown(M, data) == {k \in DOMAIN data : \A j \in DOMAIN M : ~Matches(M[j], data[k])}

(* ParseFromArray clears the message first. *)
ParseFromArray(M, data) ==
    IF ~Readable(M, data) THEN Failure
    ELSE Parsed([fields |-> [name \in Names(M) |-> Value(FieldOf(M, name), data)],
                 unknown |-> ElementsAt(data, Unknown(M, data))])
=============================================================================
