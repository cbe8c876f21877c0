----------------------------- MODULE TaskRecord -----------------------------
(***************************************************************************)
(* The record a storage adapter keeps of one task (ITask) and the vocabulary  *)
(* both adapters share.  Payload, results, timestamps and wording are left    *)
(* out: no property tells them apart.                                        *)
(***************************************************************************)
EXTENDS Naturals

CONSTANTS
    Workers,    \* running ConsumerService instances, one random workerId each
    Nobody,     \* workerId of a record that no worker has locked
    Departed    \* workerId left in a lock by an instance that has crashed

Status == {"idle", "active", "completed", "failed"}

(***************************************************************************)
(* lockLive says that lockedUntil lies in the future; it becomes false when   *)
(* the lease runs out.  reEnqueues is metadata.retryCount, the rate-limit     *)
(* retries, and retryCount the field of the same name.  expiring says that a  *)
(* removal timer (memory) or a TTL set by removeOnComplete / removeOnFail     *)
(* (mongo) is running.                                                       *)
(***************************************************************************)
TaskRecords ==
    [status     : Status \cup {"absent"},
     retryCount : Nat,
     lockedBy   : Workers \cup {Nobody, Departed},
     lockLive   : BOOLEAN,
     reEnqueues : Nat,
     expiring   : BOOLEAN]

\* What the storage holds for a task it has no record of.
NoTask ==
    [status     |-> "absent",
     retryCount |-> 0,
     lockedBy   |-> Nobody,
     lockLive   |-> FALSE,
     reEnqueues |-> 0,
     expiring   |-> FALSE]

Exists(r) == r.status # "absent"

(***************************************************************************)
(* removeOnComplete and removeOnFail: "unset", "keep" (false), "now" (true)   *)
(* or "later" (a number of seconds).  A rate-limit retry fills an unset       *)
(* option with thirty days.                                                  *)
(***************************************************************************)
RemoveOptions == {"unset", "keep", "now", "later"}

EffectiveRemoval(option, r) ==
    IF option = "unset" /\ r.reEnqueues > 0 THEN "later" ELSE option

\* handleTaskCleanup, run at the end of completeTask and failTask.
HandleTaskCleanup(r, removal) ==
    CASE removal = "now"              -> NoTask
      [] removal = "later"            -> [r EXCEPT !.expiring = TRUE]
      [] removal \in {"unset", "keep"} -> r
=============================================================================
