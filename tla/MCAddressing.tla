----------------------------- MODULE MCAddressing -----------------------------
(* Instances of Addressing for TLC. *)
EXTENDS Addressing, TLC

CONSTANTS h, a, b

Launch_(id, role) ==
    [id |-> id, host |-> "field", role |-> role, master_ip |-> None,
     port_http |-> None, port_tcp |-> None,
     C2_HTTP_MASTER_PORT |-> None, C2_HTTP_WORKER_PORT |-> None, C2_TCP_PORT |-> None]

Scout(role) == Launch_(Word("scout"), role)

(* One id as a worker's, as a master's with another port, and padded; and    *)
(* the default one with a port that no beacon may name.                      *)
SomeLaunches ==
    {Scout(None),
     [Scout("master") EXCEPT !.master_ip = a, !.C2_HTTP_MASTER_PORT = 65535],
     [Launch_(Text("scout", 1, 1, FALSE), None) EXCEPT !.port_tcp = 1],
     [Launch_(None, "worker") EXCEPT !.C2_HTTP_WORKER_PORT = 0]}

Stray(fields) ==
    Raw(80, "object",
        fields @@ [node_id |-> Str(Word("all")), role |-> Str(Text("master", 1, 0, TRUE)),
                   seq |-> Int_(0), http_port |-> Int_(1), tcp_port |-> Int_(1)])

(* One that is a beacon, though no daemon's, and one whose id is too long    *)
(* before it is stripped.                                                    *)
SomeStrays == {Stray(<<>>), Stray([node_id |-> Str(Text("long", 127, 2, FALSE))])}
=============================================================================
