---------------------------- MODULE MemoryStorage ----------------------------
(***************************************************************************)
(* MemoryStorageAdapter: what each operation does to the record of one task.  *)
(* A method body runs without yielding, so each operator is one step.         *)
(***************************************************************************)
EXTENDS TaskRecord

\* The whole record is replaced; a removal timer that is running is not cancelled.
CreateTask(old, status, reEnqueues) ==
    [NoTask EXCEPT !.status = status,
                   !.reEnqueues = reEnqueues,
                   !.expiring = old.expiring]

\* acquireTaskLock: refuses a completed task and a live lock of another worker.
CanAcquireTaskLock(r, w) ==
    /\ Exists(r)
    /\ r.status # "completed"
    /\ r.lockLive => r.lockedBy = w

AcquireTaskLock(r, w) ==
    [r EXCEPT !.status = "active", !.lockedBy = w, !.lockLive = TRUE]

ReleaseTaskLock(r, w) ==
    IF Exists(r) /\ r.lockedBy = w
    THEN [r EXCEPT !.lockedBy = Nobody, !.lockLive = FALSE]
    ELSE r

\* completeTask and failTask throw when the task is missing.
CompleteTaskThrows(r) == ~Exists(r)

CompleteTask(r, removal) ==
    HandleTaskCleanup([r EXCEPT !.status = "completed"], removal)

FailTaskThrows(r) == ~Exists(r)

\* retryCount is left as it is.
FailTask(r, removal) ==
    IF Exists(r)
    THEN HandleTaskCleanup([r EXCEPT !.status = "failed"], removal)
    ELSE r

\* The key is set whether or not it is there already.
SaveUniquenessKeyThrows(present) == FALSE
=============================================================================
