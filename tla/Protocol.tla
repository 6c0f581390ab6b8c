------------------------------- MODULE Protocol -------------------------------
(***************************************************************************)
(* The validators of untrusted input (protocol.py), which every datagram,  *)
(* frame, body and message passes: what they accept, and what they make of *)
(* it.  Strings are known by their word, numbers fit in a float.           *)
(***************************************************************************)
EXTENDS Integers

(* A string: pad blanks around a word of that length, perhaps in capitals.   *)
Strings == [word : STRING, length : Nat, pad : Nat, upper : BOOLEAN]

Text(word, length, pad, upper) ==
    [word |-> word, length |-> length, pad |-> pad, upper |-> upper]

Word(w) == Text(w, 1, 0, FALSE)

Length(t) == t.length + t.pad

Blank(t) == t.length = 0

Strip(t) == [t EXCEPT !.pad = 0]

Lower(t) == [t EXCEPT !.upper = FALSE]

(* A JSON value, by its type; "special" is NaN or an infinity, and "other"   *)
(* everything that no field may be: a boolean, a list, null...               *)
Str(t)   == [type |-> "str", text |-> t]
Int_(n)  == [type |-> "int", num |-> n]
Float(n) == [type |-> "float", num |-> n]
Dict     == [type |-> "dict"]
Null     == [type |-> "null"]
Special  == [type |-> "special"]
Other    == [type |-> "other"]

(* Raw input: its size in bytes, what it decodes to, and the fields if that  *)
(* is an object.                                                             *)
Raw(size, form, dict) == [size |-> size, form |-> form, dict |-> dict]

MAX_DATAGRAM_SIZE        == 65507
MAX_TCP_FRAME_SIZE       == 65536
MAX_COMMAND_PAYLOAD_SIZE == 65536
MAX_HTTP_PAYLOAD_SIZE    == 10485760

MaxPort == 65535

Port == 1..MaxPort

ParsesTo(raw, max) == raw.size \in 1..max /\ raw.form = "object"

Get(dict, field, default) == IF field \in DOMAIN dict THEN dict[field] ELSE default

IsStr(v) == v.type = "str"

IsFilled(v) == IsStr(v) /\ ~Blank(v.text)

IsNullOrStr(v) == v.type \in {"null", "str"}

(* A faulty variant of IsPort. *)
AdmitsPortZero(v) == v.type = "int" /\ v.num \in 0..65535

IsPort(v) == v.type = "int" /\ v.num \in Port

IsFloat(v) == v.type \in {"int", "float"} /\ v.num >= 0

(* The limit is on the id as it is sent, padding included. *)
IsId(v) == IsFilled(v) /\ Length(v.text) <= 128

(* parse_beacon_datagram: is it one, and which.                              *)
IsBeacon(raw) ==
    /\ ParsesTo(raw, MAX_DATAGRAM_SIZE)
    /\ LET f(field) == Get(raw.dict, field, Null)
           number(field) == Get(raw.dict, field, Float(0))
       IN  /\ IsId(f("node_id"))
           /\ IsStr(f("role"))
           /\ Lower(f("role").text) \in {Word("master"), Word("worker")}
           /\ f("seq").type = "int" /\ f("seq").num >= 0
           /\ IsFloat(number("timestamp")) /\ IsFloat(number("start_time"))
           /\ IsPort(f("http_port")) /\ IsPort(f("tcp_port"))
           /\ IsFloat(number("cpu_load"))

(* Faulty variant of it. *)
KeepsPadding(raw) ==
    [node_id   |-> raw.dict["node_id"].text,
     role      |-> raw.dict["role"].text.word,
     http_port |-> raw.dict["http_port"].num,
     tcp_port  |-> raw.dict["tcp_port"].num]

BeaconMessage(raw) ==
    [node_id   |-> Strip(raw.dict["node_id"].text),
     role      |-> raw.dict["role"].text.word,
     http_port |-> raw.dict["http_port"].num,
     tcp_port  |-> raw.dict["tcp_port"].num]

(* _validate_command_dict, for a TCP line or an HTTP body; a blank target is *)
(* everybody.                                                                *)
IsCommand(raw, max) ==
    /\ ParsesTo(raw, max)
    /\ LET command == Get(raw.dict, "command", Null)
       IN  IsFilled(command) /\ command.text.word = "ping"
    /\ IsStr(Get(raw.dict, "target_id", Str(Word("all"))))
    /\ Get(raw.dict, "args", Dict).type = "dict"

TargetOf(raw) ==
    LET target == Get(raw.dict, "target_id", Str(Word("all"))).text
    IN  IF Blank(target) THEN Word("all") ELSE Strip(target)

(* parse_http_benchmark_payload. *)
IsBenchmark(raw) ==
    /\ ParsesTo(raw, MAX_HTTP_PAYLOAD_SIZE)
    /\ IsStr(Get(raw.dict, "preset", Str(Word("Custom"))))
    /\ IsFloat(Get(raw.dict, "client_timestamp", Float(0)))
    /\ IsStr(Get(raw.dict, "data", Str(Word(""))))

(* parse_ws_message: the only action there is. *)
IsWsBenchmark(raw) ==
    /\ ParsesTo(raw, MAX_HTTP_PAYLOAD_SIZE)
    /\ LET action == Get(raw.dict, "action", Null)
       IN  IsFilled(action) /\ Strip(action.text) = Word("ws_benchmark")
    /\ \A field \in {"target_id", "preset", "data"} : IsNullOrStr(Get(raw.dict, field, Null))
    /\ IsFloat(Get(raw.dict, "timestamp", Float(0)))
=============================================================================
