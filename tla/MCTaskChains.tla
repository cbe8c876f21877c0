---------------------------- MODULE MCTaskChains ----------------------------
(***************************************************************************)
(* Instances of TaskChains for TLC: a chain of four tasks in two queues.       *)
(***************************************************************************)
EXTENDS TaskChains

CONSTANTS t1, t2, t3, t4, q1, q2, p1, p2

Chain == <<t1, t2, t3, t4>>
PositionInChain == [t \in Tasks |-> CHOOSE n \in 1 .. 4 : Chain[n] = t]
SecondElsewhere == [t \in Tasks |-> IF t = t2 THEN q2 ELSE q1]
SecondRetried == [t \in Tasks |-> IF t = t2 THEN 1 ELSE 0]
=============================================================================
