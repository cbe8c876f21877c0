------------------------------ MODULE TaskStore ------------------------------
(***************************************************************************)
(* What IStateStorageAdapter promises of task records, whichever adapter       *)
(* serves it: every call takes effect at one moment, on one record, while it is  *)
(* under way, and a record changes in no other way than by a call, the end of a   *)
(* lease, a removal that was announced, or a crash.                            *)
(*   - Only createTask makes a record: no late write brings a removed one back.  *)
(*   - A live lock leaves its holder only by the holder's own releaseTaskLock, by  *)
(*     a createTask that starts the record afresh, or with the record.            *)
(*   - A lock is never granted on a completed task, and never over another one     *)
(*     that is live.                                                         *)
(*   - Each method writes the statuses that are its own: FAILED comes from failTask *)
(*     or an updateTaskStatus, COMPLETED from completeTask only.                  *)
(* The promise is void for a task in misused: one whose calls overlapped, for   *)
(* an adapter that does not allow that.                                      *)
(***************************************************************************)
EXTENDS TaskRecord

CONSTANT Tasks

VARIABLES
    record,     \* the record of each task
    calls,      \* the calls about each task that are under way: the method and, for
                \* acquireTaskLock and releaseTaskLock, the workerId
    misused     \* the tasks for which nothing is promised any more

storeVars == <<record, calls, misused>>

StoreInit ==
    /\ record = [t \in Tasks |-> NoTask]
    /\ calls = [t \in Tasks |-> {}]
    /\ misused = {}

-----------------------------------------------------------------------------
(* The steps of one record, from r to s, while the calls in c are under way *)

UnderWay(c, method) == \E k \in c : k[1] = method

SameLock(r, s) == s.lockedBy = r.lockedBy /\ s.lockLive = r.lockLive

Unlocked(s) == s.lockedBy = Nobody /\ ~s.lockLive

\* createTask, on a record that is there or not: its lock is kept or cleared.
Creates(c, r, s) ==
    /\ UnderWay(c, "createTask")
    /\ s.status \in {"idle", "active"}
    /\ SameLock(r, s) \/ Unlocked(s)

\* updateTaskStatus, completeTask, failTask, and the timer their cleanup sets.
Updates(c, r, s) ==
    /\ Exists(r) /\ Exists(s)
    /\ SameLock(r, s)
    /\ \/ UnderWay(c, "updateTaskStatus") /\ s.status \in {"idle", "active", "failed"}
       \/ UnderWay(c, "completeTask") /\ s.status \in {r.status, "completed"}
       \/ UnderWay(c, "failTask") /\ s.status \in {r.status, "failed"}

\* acquireTaskLock answers true. A slow one writes a lock that has run out.
Locks(c, r, s) ==
    /\ Exists(r) /\ r.status # "completed"
    /\ s.lockedBy \in Workers
    /\ <<"acquireTaskLock", s.lockedBy>> \in c
    /\ r.lockLive => r.lockedBy = s.lockedBy
    /\ s = [r EXCEPT !.status = "active", !.lockedBy = s.lockedBy,
                    !.lockLive = s.lockLive]

\* releaseTaskLock answers true, to the worker that holds the lock.
Unlocks(c, r, s) ==
    /\ <<"releaseTaskLock", r.lockedBy>> \in c
    /\ s = [r EXCEPT !.lockedBy = Nobody, !.lockLive = FALSE]

\* lockedUntil passes.
Lapses(r, s) == r.lockLive /\ s = [r EXCEPT !.lockLive = FALSE]

\* deleteTask in the cleanup of an outcome, a removal timer or a TTL.
Removes(c, r, s) ==
    /\ r.expiring \/ UnderWay(c, "completeTask") \/ UnderWay(c, "failTask")
    /\ s = NoTask

\* The worker that holds the lock crashes and comes back under another workerId.
Departs(r, s) == r.lockedBy \in Workers /\ s = [r EXCEPT !.lockedBy = Departed]

Steps(c, r, s) ==
    \/ Creates(c, r, s) \/ Updates(c, r, s) \/ Locks(c, r, s) \/ Unlocks(c, r, s)
    \/ Lapses(r, s) \/ Removes(c, r, s)
-----------------------------------------------------------------------------
(* The callers begin and end their calls as they like: calls' is left open. *)

Serve(t) ==
    /\ Steps(calls[t], record[t], record'[t])
    /\ \A u \in Tasks \ {t} : record'[u] = record[u] \/ u \in misused
    /\ UNCHANGED misused

WorkerDeparts ==
    /\ \A t \in Tasks : \/ record'[t] = record[t]
                        \/ Departs(record[t], record'[t])
                        \/ t \in misused
    /\ UNCHANGED misused

\* Calls about some tasks overlap; from then on anything may become of these.
Misuse ==
    /\ misused \subseteq misused'
    /\ \A t \in Tasks \ misused' : record'[t] = record[t]

\* Calls begin or end.
Call == UNCHANGED <<record, misused>>

StoreNext == Call \/ Misuse \/ WorkerDeparts \/ \E t \in Tasks : Serve(t)

StoreSpec == StoreInit /\ [][StoreNext]_storeVars
=============================================================================
