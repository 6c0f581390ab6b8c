---------------------------- MODULE MCTcpCommand ----------------------------
(* Instances of TcpCommand for TLC.  Connections are interchangeable, but    *)
(* the runs check liveness, for which symmetry is not sound.                 *)
EXTENDS TcpCommand

Command(v, t, s) == [valid |-> v, target |-> t, size |-> s]

(* A command for this node, and one whose refusal does not fit the buffers. *)
ShortAndBulky == {Command(TRUE, "me", "short"), Command(TRUE, "other", "long")}

(* Besides these, one line for each refusal of the parser. *)
EveryVerdict ==
    ShortAndBulky \cup {Command(FALSE, "all", "long"), Command(TRUE, "me", "edge")}
=============================================================================
