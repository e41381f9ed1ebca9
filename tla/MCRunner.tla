------------------------------ MODULE MCRunner ------------------------------
(* Small instances of Runner: one runtime, up to three definitions. *)
EXTENDS Runner, TLC

\* "sync" and "async" are two definitions of the same script, "heavy" needs
\* two shares of the CPU.
MCDefRuntime == [d \in Def |-> "nodejs"]
MCDefIndex   == [d \in Def |-> IF d = "heavy" THEN "other" ELSE "script"]
MCAsync      == [d \in Def |-> IF d = "async" THEN 2 ELSE 0]
MCWeight     == [d \in Def |-> IF d = "heavy" THEN 2 ELSE 1]

Symmetric == Permutations(Req) \cup Permutations(Cont)
=============================================================================
