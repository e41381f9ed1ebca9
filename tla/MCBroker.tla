------------------------------ MODULE MCBroker ------------------------------
(* Small instances of Broker: two runs of one script, the second one with an *)
(* environment if there are two keys.                                      *)
EXTENDS Broker, TLC

CONSTANTS r1, r2, source, environment

MCKind == (r1 :> "uwsgi") @@ (r2 :> "async")

MCNeeds ==
  (r1 :> <<source>>) @@
  (r2 :> IF environment \in Key THEN <<source, environment>> ELSE <<source>>)
=============================================================================
