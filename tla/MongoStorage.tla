----------------------------- MODULE MongoStorage -----------------------------
(***************************************************************************)
(* MongoStorageAdapter: what each operation does to the document of one task. *)
(*                                                                         *)
(* acquireTaskLock reads the document and then runs a conditional            *)
(* findOneAndUpdate; the update repeats every condition of the read that     *)
(* matters, so the attempt is one atomic step.  completeTask and failTask     *)
(* follow their update with the removal or the TTL; the two writes are one    *)
(* step here.                                                                *)
(***************************************************************************)
EXTENDS TaskRecord

\* An upsert with $set: the lock fields and retryCount of an existing document
\* survive, its expireAt is moved thirty days ahead.
CreateTask(old, status, reEnqueues) ==
    [old EXCEPT !.status = status,
                !.reEnqueues = reEnqueues,
                !.expiring = FALSE]

\* Mutant of CanAcquireTaskLock: a live lock is refused to its holder as well.
CanAcquireTaskLock_OnlyFree(r, w) ==
    /\ Exists(r)
    /\ r.status \notin {"completed", "failed"}
    /\ ~r.lockLive

\* Mutant of CanAcquireTaskLock: without the condition on lockedUntil.
CanAcquireTaskLock_NoLease(r, w) ==
    /\ Exists(r)
    /\ r.status \notin {"completed", "failed"}

CanAcquireTaskLock(r, w) ==
    /\ Exists(r)
    /\ r.status \notin {"completed", "failed"}
    /\ r.lockLive => r.lockedBy = w

AcquireTaskLock(r, w) ==
    [r EXCEPT !.status = "active", !.lockedBy = w, !.lockLive = TRUE]

ReleaseTaskLock(r, w) ==
    IF Exists(r) /\ r.lockedBy = w
    THEN [r EXCEPT !.lockedBy = Nobody, !.lockLive = FALSE]
    ELSE r

CompleteTaskThrows(r) == ~Exists(r)

\* lockedUntil and workerId are $set to undefined, which mongoose drops: the
\* lock stays.
CompleteTask(r, removal) ==
    HandleTaskCleanup([r EXCEPT !.status = "completed"], removal)

\* A missing document is logged, not thrown.
FailTaskThrows(r) == FALSE

\* Mutant of FailTask: without the $inc.
FailTask_NoInc(r, removal) ==
    IF Exists(r)
    THEN HandleTaskCleanup([r EXCEPT !.status = "failed"], removal)
    ELSE r

\* $inc retryCount.
FailTask(r, removal) ==
    IF Exists(r)
    THEN HandleTaskCleanup([r EXCEPT !.status = "failed", !.retryCount = @ + 1],
                           removal)
    ELSE r

\* Mutant of SaveUniquenessKeyThrows: an upsert instead of an insert.
SaveUniquenessKeyThrows_Never(present) == FALSE

\* The unique index on key refuses a second document.
SaveUniquenessKeyThrows(present) == present
=============================================================================
