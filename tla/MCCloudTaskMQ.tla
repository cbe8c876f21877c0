---------------------------- MODULE MCCloudTaskMQ ----------------------------
(***************************************************************************)
(* Instances of CloudTaskMQ for TLC: at most three tasks, two instances, three *)
(* requests in service and two overlapping sendBufferTasks calls.             *)
(***************************************************************************)
EXTENDS CloudTaskMQ

CONSTANTS t1, t2, t3, w1, w2, j1, j2, j3, p1, p2, k1

OneWorkerJobs == [j \in Jobs |-> w1]
TwoWorkerJobs == [j \in Jobs |-> IF j = j1 THEN w1 ELSE w2]
OneWorkerPolls == [p \in Polls |-> w1]
TwoWorkerPolls == [p \in Polls |-> IF p = p1 THEN w1 ELSE w2]
FirstWorkerCalls == [t \in Tasks |-> w1]

NoKeys == [t \in Tasks |-> NoKey]
SecondKeyed == [t \in Tasks |-> IF t = t2 THEN k1 ELSE NoKey]
OneKey == [t \in Tasks |-> k1]

NoRetry == [t \in Tasks |-> 0]
OneRetry == [t \in Tasks |-> 1]
TwoRetries == [t \in Tasks |-> 2]
FirstRetriesOnce == [t \in Tasks |-> IF t = t1 THEN 1 ELSE 0]
FiveRetries == [t \in Tasks |-> 5]

AllIntercepted == [t \in Tasks |-> "interceptor"]
FirstBuiltin == [t \in Tasks |-> IF t = t1 THEN "builtin" ELSE "interceptor"]

KeepRecords == [t \in Tasks |-> "keep"]
UnsetRemoval == [t \in Tasks |-> "unset"]
RemoveNow == [t \in Tasks |-> "now"]
RemoveLater == [t \in Tasks |-> "later"]
=============================================================================
