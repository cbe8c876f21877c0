---------------------------- MODULE MCRedisTaskMQ ----------------------------
(***************************************************************************)
(* Instances of RedisTaskMQ for TLC.                                         *)
(***************************************************************************)
EXTENDS RedisTaskMQ, TLC

CONSTANTS t1, w1, w2, j1, j2

OneEach == [j \in Jobs |-> IF j = j1 THEN w1 ELSE w2]
OneRetry == [t \in Tasks |-> 1]
RemoveNow == [t \in Tasks |-> "now"]
RemoveLater == [t \in Tasks |-> "later"]

\* Both instances are alike: exchange them, each with its request.
BothSwapped == (j1 :> j2) @@ (j2 :> j1) @@ (w1 :> w2) @@ (w2 :> w1)
Alike == {BothSwapped}
=============================================================================
