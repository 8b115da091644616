--------------------------- MODULE MCSignalingHub ---------------------------
(* Instances of SignalingHub for TLC: a second connection of a role is     *)
(* the same client reconnecting under its id.                              *)
EXTENDS SignalingHub

CONSTANTS s1, r1, r2, ids, idr

PairConn == {s1, r1}
ReconnectConn == {s1, r1, r2}

IdByRole == [c \in Conn |-> IF c = s1 THEN ids ELSE idr]
RoleByName == [c \in Conn |-> IF c = s1 THEN "sender" ELSE "receiver"]

OneRead == [c \in Conn |-> 1]
NoReads == [c \in Conn |-> 0]
=============================================================================
