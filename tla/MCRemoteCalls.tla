---------------------------- MODULE MCRemoteCalls ----------------------------
(* The instance of RemoteCalls for TLC: two clicks of two clients on files of one name. *)
EXTENDS RemoteCalls

CONSTANTS a, b, Home, Away

OneName == [c \in Clicks |-> "take"]
EachItsOwn == [c \in Clicks |-> c]
SameVersion == [k \in Clients |-> 1]

=============================================================================
