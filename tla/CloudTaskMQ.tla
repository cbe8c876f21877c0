----------------------------- MODULE CloudTaskMQ -----------------------------
(***************************************************************************)
(* The whole path of a task that belongs to no chain: producer, storage,       *)
(* Cloud Tasks and consumer, with lock expiry, removal timers, repeated        *)
(* pushes and crashing instances.                                           *)
(***************************************************************************)
EXTENDS Producer, Consumer

vars == <<storageVars, cloudVars, producerVars, consumerVars>>

TypeOK == StorageTypeOK /\ CloudTypeOK /\ ProducerTypeOK /\ ConsumerTypeOK

Init == StorageInit /\ CloudInit /\ ProducerInit /\ ConsumerInit

-----------------------------------------------------------------------------
(* What time, Cloud Tasks and the operating system do. *)

Holding(j, t) == job[j].task = t /\ job[j].leased

\* lockedUntil passes.  Every job of the worker that holds the lock loses it.
LockExpires(t) ==
    /\ tasks[t].lockLive
    /\ LongHandlers \/ \A j \in Jobs : ~Holding(j, t)
    /\ tasks' = [tasks EXCEPT ![t].lockLive = FALSE]
    /\ job' = [j \in Jobs |->
                 IF Holding(j, t) /\ WorkerOf[j] = tasks[t].lockedBy
                 THEN [job[j] EXCEPT !.leased = FALSE] ELSE job[j]]
    /\ UNCHANGED <<keys, cloudVars, producerVars, failures>>

\* The removal timer or the TTL index deletes the record, whatever its status.
RecordExpires(t) ==
    /\ tasks[t].expiring
    /\ tasks' = [tasks EXCEPT ![t] = NoTask]
    /\ UNCHANGED <<keys, cloudVars, producerVars, consumerVars>>

InService(t) == cloud[t] > 0 \/ \E j \in Jobs : job[j].task = t

PushAgain(t) ==
    /\ InService(t)
    /\ Enqueue(t)
    /\ Fault("duplicate")
    /\ UNCHANGED <<storageVars, producerVars, consumerVars>>

\* An instance stops.  Its unanswered requests are pushed again; its addTask
\* and sendBufferTasks calls stop where they are.  It restarts under a new
\* workerId, so that the old one becomes Departed.
Crash(w) ==
    LET lostJobs  == {j \in Jobs : WorkerOf[j] = w /\ ~At(j, "none")}
        lostPolls == {p \in Polls : HostOf[p] = w}
        lostAdds  == {t \in Tasks : CallerOf[t] = w /\ added[t] # "none"
                                                    /\ ~AddSettled(t)}
        Sending   == {"send", "reset", "revert"}
    IN  /\ Fault("crash")
        /\ job' = [j \in Jobs |-> IF j \in lostJobs THEN NoJob ELSE job[j]]
        /\ cloud' = [t \in Tasks |->
                       cloud[t] + Cardinality({j \in lostJobs : job[j].task = t})]
        /\ added' = [t \in Tasks |-> IF t \in lostAdds THEN "lost" ELSE added[t]]
        /\ poll' = [p \in Polls |->
                      IF p \in lostPolls THEN [t \in Tasks |-> "none"] ELSE poll[p]]
        /\ stranded' = stranded
              \cup {t \in lostAdds : added[t] \in Sending}
              \cup {t \in Tasks : \E p \in lostPolls : poll[p][t] \in Sending}
        /\ tasks' = [t \in Tasks |->
                       IF tasks[t].lockedBy = w
                       THEN [tasks[t] EXCEPT !.lockedBy = Departed] ELSE tasks[t]]
        /\ UNCHANGED <<keys, failures>>

-----------------------------------------------------------------------------

AddSteps(t) ==
    \/ AddCheckUniqueness(t) \/ AddCreate(t) \/ AddSend(t) \/ AddReset(t)

PollSteps(p) ==
    \/ PollFetch(p)
    \/ \E t \in Tasks :
          \/ PollMark(p, t) \/ PollSend(p, t) \/ PollReset(p, t) \/ PollRevert(p, t)

ProducerNext ==
    /\ \/ \E t \in Tasks : AddTask(t) \/ AddTaskAgain(t) \/ AddSteps(t)
       \/ \E p \in Polls : PollSteps(p)
    /\ UNCHANGED consumerVars

JobStep(j) ==
    \/ Lookup(j) \/ Activate(j)
    \/ CheckUniqueness(j) \/ SaveKey(j) \/ FailDuplicate(j)
    \/ RateLimit(j) \/ Unkey(j) \/ Refetch(j) \/ Release(j) \/ UnkeyAgain(j)
    \/ GiveUpReEnqueue(j) \/ Reschedule(j) \/ ReAddCheckUniqueness(j)
    \/ ReCreate(j) \/ ReSend(j) \/ ReReset(j)
    \/ AcquireLock(j) \/ RetryLock(j) \/ LockFailed(j)
    \/ RunHandler(j) \/ Complete(j)
    \/ Fail(j) \/ UnkeyFailed(j) \/ FailAgain(j)

ConsumerNext ==
    /\ \/ \E j \in Jobs : JobStep(j) \/ \E t \in Tasks : Deliver(j, t)
       \/ \E t \in Tasks : DeliverWithoutTaskId(t)
    /\ UNCHANGED producerVars

EnvironmentNext ==
    \/ \E t \in Tasks : LockExpires(t) \/ RecordExpires(t) \/ PushAgain(t)
    \/ \E w \in Workers : Crash(w)

Next == ProducerNext \/ ConsumerNext \/ EnvironmentNext

Spec == Init /\ [][Next]_vars

(***************************************************************************)
(* Node runs what is ready, Cloud Tasks pushes what it holds, the interval      *)
(* keeps firing.  Nothing is assumed of faults, timers or the application.     *)
(***************************************************************************)
Fairness ==
    /\ \A t \in Tasks :
          /\ WF_vars(AddSteps(t) /\ UNCHANGED consumerVars)
          /\ WF_vars(\E j \in Jobs : Deliver(j, t) /\ UNCHANGED producerVars)
    /\ \A p \in Polls : WF_vars(PollSteps(p) /\ UNCHANGED consumerVars)
    /\ \A j \in Jobs : WF_vars(JobStep(j) /\ UNCHANGED producerVars)

FairSpec == Spec /\ Fairness

-----------------------------------------------------------------------------
(* What the system keeps. *)

\* Somebody will still act on t: an HTTP task is on its way, a request is being
\* served, or a sender is between marking it ACTIVE and Cloud Tasks' answer.
InHand(t) ==
    \/ InService(t)
    \/ added[t] \in {"send", "reset"}
    \/ \E p \in Polls : poll[p][t] \in {"send", "reset", "revert"}

(***************************************************************************)
(* No task is forgotten while ACTIVE.  The poller looks at IDLE records only,  *)
(* so an ACTIVE record without a request or a sender would stay so for ever.   *)
(* The exceptions are the ones the code has: the sender crashed, or addTask    *)
(* threw at its caller.  Tasks without a taskId of their own and tasks with a  *)
(* uniqueness key do get forgotten.  So do rate-limited tasks that are pushed to *)
(* TaskController, which answers its errors with success.                    *)
(***************************************************************************)
AccountedFor ==
    \A t \in CustomIds :
        tasks[t].status = "active" /\ ~Unique(t) => InHand(t) \/ t \in stranded

(***************************************************************************)
(* The lock is a lease: jobs of different instances never run the handler of   *)
(* one task while both leases last (acquireTaskLock, releaseTaskLock, and      *)
(* every write between them that could lose the lock fields).                *)
(***************************************************************************)
Running(j) == job[j].pc \in {"run", "complete"}

LeaseExclusion ==
    \A i, j \in Jobs :
        /\ Running(i) /\ job[i].leased
        /\ Running(j) /\ job[j].leased
        /\ job[i].task = job[j].task
        => WorkerOf[i] = WorkerOf[j]

(***************************************************************************)
(* processTask holds its uniqueness key alone from saveUniquenessKey until it   *)
(* removes the key or ends.                                                  *)
(***************************************************************************)
HoldsKey(j) ==
    /\ job[j].task \in Tasks
    /\ Unique(job[j].task)
    /\ job[j].pc \in {"limit", "unkey", "lock", "lockFailed", "run", "complete",
                      "fail", "unkeyFailed"}

KeyExclusion ==
    \A i, j \in Jobs :
        /\ HoldsKey(i) /\ HoldsKey(j)
        /\ UniquenessKey[job[i].task] = UniquenessKey[job[j].task]
        => i = j

(***************************************************************************)
(* One sender, one push: while sendBufferTasks calls do not overlap and Cloud   *)
(* Tasks repeats nothing, a task has at most one HTTP task waiting or being     *)
(* served, through every retry and every failed send.                        *)
(***************************************************************************)
OnePush ==
    \A t \in Tasks :
        cloud[t] + Cardinality({j \in Jobs : job[j].task = t}) <= 1

(***************************************************************************)
(* Under the same conditions a completed task is never set ACTIVE or IDLE or    *)
(* FAILED again: handlePulledTask, processTask and failTask all write the        *)
(* status without looking at it.                                            *)
(***************************************************************************)
CompletedFinal ==
    [][\A t \in Tasks : tasks[t].status = "completed"
                           => tasks'[t].status \in {"completed", "absent"}]_vars

(***************************************************************************)
(* A record becomes FAILED for cause only: under the same conditions, with no    *)
(* uniqueness keys and no rate limits.  Either the request that writes it has run  *)
(* the handler and the handler threw, or it gave up with LOCK_FAILED before a lock  *)
(* that another instance's attempt has left, an attempt that had failed.  Never     *)
(* does it happen over a handler that is running in another request, and never      *)
(* because a send failed or a record was missing.  (The second case gives the      *)
(* task up although retries are left: failTask releases no lock.)                *)
(***************************************************************************)
HasThrown(j) == job[j].pc \in {"fail", "failAgain"} /\ job[j].threw # "nothing"

MeetsLeftLock(j) ==
    LET t == job[j].task
    IN  /\ At(j, "lockFailed")
        /\ tasks[t].lockedBy \notin {Nobody, WorkerOf[j]}
        /\ failures[t] > 0

FailedForCause ==
    [][\A t \in Tasks :
          tasks[t].status # "failed" /\ tasks'[t].status = "failed" =>
              \E j \in Jobs :
                  /\ job[j].task = t
                  /\ HasThrown(j) \/ MeetsLeftLock(j)
                  /\ \A i \in Jobs \ {j} : job[i].task = t => ~Running(i)]_vars

(***************************************************************************)
(* Under the same conditions the handler of a task runs into an error at most     *)
(* maxRetry + 1 times: the count goes from one attempt to the next by way of the   *)
(* record alone, which an instance reads once, before it waits for the lock, and   *)
(* which failed sends and two failTask calls per attempt write to besides.        *)
(***************************************************************************)
AttemptsBounded == \A t \in Tasks : failures[t] <= MaxRetry[t] + 1

(***************************************************************************)
(* Every task that was added under a taskId of its own is worked off: it ends    *)
(* completed, failed or removed, with no request left, unless its sender         *)
(* stopped half-way.                                                        *)
(***************************************************************************)
Settled(t) ==
    /\ tasks[t].status \in {"completed", "failed", "absent"}
    /\ ~InService(t)

Settles ==
    \A t \in CustomIds :
        ~Unique(t) => (added[t] = "done" ~> Settled(t) \/ t \in stranded)

(***************************************************************************)
(* MemoryStorage and MongoStorage, behind producer and consumer, keep what      *)
(* TaskStore promises of every adapter. A removed record comes back only while a  *)
(* createTask of its task is under way, a live lock leaves its holder only by      *)
(* that, by the holder's own releaseTaskLock or with the record, and every status  *)
(* is written by a method of its own, however late the calls take effect.        *)
(***************************************************************************)

\* The adapter method that addTask, a poll or a request awaits where it has come to.
MethodAt(pc) ==
    CASE pc \in {"create", "recreate"}                              -> "createTask"
      [] pc \in {"mark", "reset", "revert",
                 "activate", "reschedule", "rereset"}               -> "updateTaskStatus"
      [] pc = "lock"                                                -> "acquireTaskLock"
      [] pc = "release"                                             -> "releaseTaskLock"
      [] pc = "complete"                                            -> "completeTask"
      [] pc \in {"duplicate", "lockFailed", "fail", "failAgain"}    -> "failTask"
      [] OTHER                                                      -> "none"

CallsAbout(t) ==
    LET adds  == {<<MethodAt(added[t]), CallerOf[t]>>}
        polls == {<<MethodAt(poll[p][t]), HostOf[p]>> : p \in Polls}
        jobs  == {<<MethodAt(job[j].pc), WorkerOf[j]>> : j \in {i \in Jobs : job[i].task = t}}
    IN  {k \in adds \cup polls \cup jobs : k[1] # "none"}

Store == INSTANCE TaskStore WITH
    record <- tasks,
    calls <- [t \in Tasks |-> CallsAbout(t)],
    misused <- {}

ImplementsTaskStore == Store!StoreSpec

-----------------------------------------------------------------------------
(* What the documentation says and the code does not do. *)

\* README, Task Retries: a failed attempt is followed by another one until there
\* have been maxRetry of them.
RetriesUntilMaxRetry ==
    [][\A j \in Jobs :
          LET t == job[j].task
          IN  At(j, "failAgain") /\ ~At(j, "failAgain")'
                 => cloud'[t] > cloud[t] \/ failures[t] > MaxRetry[t]]_vars

\* README, Quick Start: a task added without a taskId is processed as well.
SettlesWithoutTaskId ==
    \A t \in Tasks : added[t] = "done" ~> tasks[t].status = "completed"
=============================================================================
