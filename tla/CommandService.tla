---------------------------- MODULE CommandService ----------------------------
(***************************************************************************)
(* What whoever commands a daemon may rely on, whichever way the command   *)
(* takes: it is executed at most once, and what the sender is told of it   *)
(* is true and stays true.  "unknown" is an honest answer: the command may *)
(* have been executed, or be executed yet.                                 *)
(***************************************************************************)
EXTENDS Naturals

CONSTANT Command

VARIABLES
    times,  \* how often each command has been executed
    told    \* what its sender has been told

vars == <<times, told>>

Told == {"nothing", "done", "refused", "unknown"}

Init ==
    /\ times = [c \in Command |-> 0]
    /\ told = [c \in Command |-> "nothing"]

(* Once and never again; and not after its sender was told that it was refused. *)
Execute(c) ==
    /\ times[c] = 0
    /\ told[c] # "refused"
    /\ times' = [times EXCEPT ![c] = 1]
    /\ UNCHANGED told

Tell(c, t) ==
    /\ told[c] = "nothing"
    /\ t = "done" => times[c] = 1
    /\ t = "refused" => times[c] = 0
    /\ told' = [told EXCEPT ![c] = t]
    /\ UNCHANGED times

(* The service breaks off, and leaves some senders in the dark.              *)
BreakOff(lost) ==
    /\ \A c \in lost : told[c] = "nothing"
    /\ told' = [c \in Command |-> IF c \in lost THEN "unknown" ELSE told[c]]
    /\ UNCHANGED times

Next ==
    \/ \E c \in Command : Execute(c) \/ \E t \in Told \ {"nothing"} : Tell(c, t)
    \/ \E lost \in SUBSET Command : BreakOff(lost)

Spec == Init /\ [][Next]_vars
=============================================================================
