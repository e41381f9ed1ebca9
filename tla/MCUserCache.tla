---------------------------- MODULE MCUserCache -----------------------------
(* A small instance of UserCache: two containers of a user, two keys; the  *)
(* first one issues several commands without waiting for their replies.   *)
EXTENDS UserCache

CONSTANTS c1, k1, k2

MCGet(k) == [op |-> "GET", key |-> k]
MCSet(k, len) == [op |-> "SET", key |-> k, len |-> len]

MCCommands ==
  [c \in Container |->
     IF c = c1
     THEN <<{MCGet(k1), MCSet(k1, 0)}, {MCSet(k2, 2)}, {MCGet(k1)}>>
     ELSE <<{MCSet(k1, 2)}>>]
=============================================================================
