--------------------------- MODULE MCLoadBalancer ---------------------------
(* Small instances of LoadBalancer: a sync and an async definition of one script. *)
EXTENDS LoadBalancer, TLC

MCDefIndex == [d \in Def |-> "script"]
MCAsync    == [d \in Def |-> IF d = "async" THEN 2 ELSE 0]
MCMcpu     == [d \in Def |-> IF d = "async" THEN 2 ELSE 1]
MCLimit    == [d \in Def |-> 1]
MCNoLimit  == [d \in Def |-> 0]

\* Every worker registers with a pool of its own: the pool IDs are the workers.
OwnPool  == [w \in Worker |-> w]
\* All workers are registrations of one pool.
SamePool == [w \in Worker |-> "pool"]

Symmetric ==
  Permutations(Run) \cup Permutations(Worker) \cup Permutations(Copy) \cup Permutations(Container)
=============================================================================
