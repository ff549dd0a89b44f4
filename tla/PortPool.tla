------------------------------ MODULE PortPool ------------------------------
(***************************************************************************)
(* What the port manager promises: a new session gets the lowest port that *)
(* no session has, as long as it is one of 1..Limit.                       *)
(***************************************************************************)
EXTENDS Naturals

CONSTANT Limit

VARIABLE taken

\* A port is chosen that is free while every lower one is taken.
Hand(port) ==
    /\ port \notin taken
    /\ 1..(port - 1) \subseteq taken
    /\ taken' = taken \cup {port}

GiveUp(port) == port \in taken /\ taken' = taken \ {port}

PoolNext == \E port \in 1..Limit : Hand(port) \/ GiveUp(port)

PoolSpec == taken = {} /\ [][PoolNext]_taken
=============================================================================
