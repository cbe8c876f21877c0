------------------------------ MODULE TaskChains ------------------------------
(***************************************************************************)
(* One task chain: addTask with chainOptions, the polls that pick its tasks     *)
(* (handlePulledQueue, filterEligibleTasks and handlePulledTask of             *)
(* services/producer.service.ts) and the adapters' chain queries.             *)
(*                                                                         *)
(* A sendBufferTasks call polls all queues side by side, and the tasks of a     *)
(* chain may be in several. Chains do not influence one another, so one is      *)
(* enough. The consumer is reduced to what it does to the status of a task      *)
(* whose taskId the application chose: module Consumer has the whole of it.     *)
(***************************************************************************)
EXTENDS Integers, FiniteSets

CONSTANTS
    Tasks,          \* the tasks of the chain
    Queues,
    QueueOf,        \* the queue a task is added to
    ChainOrder,     \* chainOptions.chainOrder
    MaxRetry,       \* how often Cloud Tasks' push of a task is retried
    Polls,          \* sendBufferTasks calls that may overlap
    NoTask,         \* not a task
    MaxRejections   \* how many sends may fail

ASSUME ChainAssumption ==
    /\ QueueOf \in [Tasks -> Queues]
    /\ ChainOrder \in [Tasks -> Int]
    /\ \A t, u \in Tasks : ChainOrder[t] = ChainOrder[u] => t = u
    /\ MaxRetry \in [Tasks -> Nat]
    /\ NoTask \notin Tasks
    /\ MaxRejections \in Nat

VARIABLES
    status,         \* of the record, or absent
    ahead,          \* ahead[t]: the IDLE records updated less recently than t,
                    \* itself IDLE
    cloud,          \* tasks with an HTTP task in Cloud Tasks
    handled,        \* tasks a request is being served for
    failures,       \* failed attempts
    poll,           \* poll[p][q]: handlePulledQueue of q in call p, and its task
    rejections      \* sends that failed

vars == <<status, ahead, cloud, handled, failures, poll, rejections>>
pollVars == <<poll, rejections>>
consumerVars == <<handled, failures>>

----------------------------------------------------------------------------
(* The records *)

Idle == {t \in Tasks : status[t] = "idle"}

UpdateTaskStatus(t, s) ==
    /\ status' = [status EXCEPT ![t] = s]
    /\ ahead' = [u \in Tasks |->
                    IF u # t THEN ahead[u] \ {t}
                    ELSE IF s = "idle" THEN Idle \ {t} ELSE {}]

IdleIn(q) == {t \in Idle : QueueOf[t] = q}

\* Mutant of Candidate: the other order of updatedAt.
Candidate_Newest(q) == {t \in IdleIn(q) : \A u \in IdleIn(q) : t \notin ahead[u]}

\* findTasksWithoutActiveVersion, sorted by updatedAt; filterEligibleTasks looks
\* at the first task of a chain only.
Candidate(q) == {t \in IdleIn(q) : \A u \in IdleIn(q) : u \notin ahead[t]}

\* Mutant of HasActiveTaskInChain: the question is not asked.
HasActiveTaskInChain_No == FALSE

HasActiveTaskInChain == \E t \in Tasks : status[t] = "active"

\* getNextTaskInChain finds a task, which one does not matter to its caller.
HasNextTaskInChain == Idle # {}

Earlier(t) == {u \in Tasks : ChainOrder[u] < ChainOrder[t]}

Done == [at |-> "done", task |-> NoTask]

Init ==
    /\ status = [t \in Tasks |-> "absent"]
    /\ ahead = [t \in Tasks |-> {}]
    /\ cloud = {} /\ handled = {}
    /\ failures = [t \in Tasks |-> 0]
    /\ poll = [p \in Polls |-> [q \in Queues |-> Done]]
    /\ rejections = 0

----------------------------------------------------------------------------
(* The producer *)

\* The application adds the tasks in the order of the chain. All start IDLE and
\* none is sent (lines 372-382, 413-416).
AddTask(t) ==
    /\ status[t] = "absent"
    /\ \A u \in Earlier(t) : status[u] # "absent"
    /\ UpdateTaskStatus(t, "idle")
    /\ UNCHANGED <<cloud, consumerVars, pollVars>>

\* A sendBufferTasks call takes on all queues and ends with the last of them.
SendBufferTasks(p) ==
    /\ \A q \in Queues : poll[p][q].at = "done"
    /\ poll' = [poll EXCEPT ![p] = [q \in Queues |-> [at |-> "find", task |-> NoTask]]]
    /\ UNCHANGED <<status, ahead, cloud, consumerVars, rejections>>

Goes(p, q, at, t) == poll' = [poll EXCEPT ![p][q] = [at |-> at, task |-> t]]
Ends(p, q) == poll' = [poll EXCEPT ![p][q] = Done]

FindTasks(p, q) ==
    /\ poll[p][q].at = "find"
    /\ \/ IdleIn(q) = {} /\ Ends(p, q)
       \/ \E t \in Candidate(q) : Goes(p, q, "active?", t)
    /\ UNCHANGED <<status, ahead, cloud, consumerVars, rejections>>

AskActive(p, q) ==
    /\ poll[p][q].at = "active?"
    /\ IF HasActiveTaskInChain THEN Ends(p, q) ELSE Goes(p, q, "next?", poll[p][q].task)
    /\ UNCHANGED <<status, ahead, cloud, consumerVars, rejections>>

\* What is eligible then is the task that was fetched, not the next task.
AskNext(p, q) ==
    /\ poll[p][q].at = "next?"
    /\ IF HasNextTaskInChain THEN Goes(p, q, "mark", poll[p][q].task) ELSE Ends(p, q)
    /\ UNCHANGED <<status, ahead, cloud, consumerVars, rejections>>

Mark(p, q) ==
    /\ poll[p][q].at = "mark"
    /\ UpdateTaskStatus(poll[p][q].task, "active")
    /\ Goes(p, q, "send", poll[p][q].task)
    /\ UNCHANGED <<cloud, consumerVars, rejections>>

Send(p, q) ==
    /\ poll[p][q].at = "send"
    /\ \/ /\ cloud' = cloud \cup {poll[p][q].task}
          /\ Ends(p, q)
          /\ UNCHANGED rejections
       \/ /\ rejections < MaxRejections
          /\ rejections' = rejections + 1
          /\ Goes(p, q, "reset", poll[p][q].task)
          /\ UNCHANGED cloud
    /\ UNCHANGED <<status, ahead, consumerVars>>

\* Mutant of Reset: the record stays ACTIVE.
Reset_LeavesActive(p, q) ==
    /\ poll[p][q].at = "reset"
    /\ Ends(p, q)
    /\ UNCHANGED <<status, ahead, cloud, consumerVars, rejections>>

\* The catch block of sendTaskToGcp, or that of handlePulledTask for an error
\* before createTask.
Reset(p, q) ==
    /\ poll[p][q].at = "reset"
    /\ UpdateTaskStatus(poll[p][q].task, "idle")
    /\ Ends(p, q)
    /\ UNCHANGED <<cloud, consumerVars, rejections>>

HandlePulledQueue(p, q) ==
    \/ FindTasks(p, q) \/ AskActive(p, q) \/ AskNext(p, q)
    \/ Mark(p, q) \/ Send(p, q) \/ Reset(p, q)

----------------------------------------------------------------------------
(* The consumer, reduced *)

Handle(t) ==
    /\ t \in cloud \ handled
    /\ UpdateTaskStatus(t, "active")
    /\ handled' = handled \cup {t}
    /\ UNCHANGED <<cloud, failures, pollVars>>

\* Mutant of Complete: the request goes on after its answer.
Complete_KeepsRequest(t) ==
    /\ t \in handled
    /\ UpdateTaskStatus(t, "completed")
    /\ cloud' = cloud \ {t}
    /\ UNCHANGED <<consumerVars, pollVars>>

Complete(t) ==
    /\ t \in handled
    /\ UpdateTaskStatus(t, "completed")
    /\ handled' = handled \ {t}
    /\ cloud' = cloud \ {t}
    /\ UNCHANGED <<failures, pollVars>>

\* FAILED, also while Cloud Tasks is going to push the task again.
Fail(t) ==
    /\ t \in handled
    /\ UpdateTaskStatus(t, "failed")
    /\ handled' = handled \ {t}
    /\ failures' = [failures EXCEPT ![t] = @ + 1]
    /\ cloud' = IF failures[t] < MaxRetry[t] THEN cloud ELSE cloud \ {t}
    /\ UNCHANGED pollVars

ProcessTask(t) == Handle(t) \/ Complete(t) \/ Fail(t)

Next ==
    \/ \E t \in Tasks : AddTask(t) \/ ProcessTask(t)
    \/ \E p \in Polls : SendBufferTasks(p) \/ \E q \in Queues : HandlePulledQueue(p, q)

Spec == Init /\ [][Next]_vars

Fairness ==
    /\ \A t \in Tasks : WF_vars(AddTask(t)) /\ WF_vars(ProcessTask(t))
    /\ \A p \in Polls :
          /\ WF_vars(SendBufferTasks(p))
          /\ \A q \in Queues : WF_vars(HandlePulledQueue(p, q))

FairSpec == Spec /\ Fairness

----------------------------------------------------------------------------
(* Properties *)

Finished(t) == status[t] = "completed" \/ (status[t] = "failed" /\ t \notin cloud)

TypeOK ==
    /\ status \in [Tasks -> {"absent", "idle", "active", "completed", "failed"}]
    /\ ahead \in [Tasks -> SUBSET Idle]
    /\ \A t, u \in Tasks : u \in ahead[t] => t \in Idle /\ t \notin ahead[u]
    /\ \A t, u \in Idle : t = u \/ t \in ahead[u] \/ u \in ahead[t]
    /\ \A t \in Tasks : \A u \in ahead[t] : ahead[u] \subseteq ahead[t]
    /\ cloud \subseteq Tasks /\ handled \subseteq cloud
    /\ failures \in [Tasks -> Nat]
    /\ poll \in [Polls -> [Queues ->
           [at : {"done", "find", "active?", "next?", "mark", "send", "reset"},
            task : Tasks \cup {NoTask}]]]
    /\ rejections \in 0 .. MaxRejections

ActiveIn(q) == {t \in Tasks : QueueOf[t] = q /\ status[t] = "active"}

\* While sendBufferTasks calls do not overlap, at most one task of a chain and
\* queue is ACTIVE: a poll asks before it marks, only its own queue's tasks
\* become ACTIVE meanwhile, and a failed send makes the task IDLE again before
\* the queue is polled again. Holds for the tasks Cloud Tasks does not retry.
OneActivePerQueue == \A q \in Queues : Cardinality(ActiveIn(q)) <= 1

\* Within one queue the tasks of a chain are handled in their order, because
\* updatedAt follows the order of addTask: none is handled before the earlier
\* ones are finished. A failed send moves its task behind the others.
HandledInOrder ==
    [][rejections = 0 =>
          \A t \in Tasks : t \in handled' \ handled =>
              \A u \in Earlier(t) : QueueOf[u] = QueueOf[t] => Finished(u)]_vars

\* README, Chain Execution Flow: when a task completes or fails, the next one is
\* activated. Whatever the queues, the failed sends and the failing handlers, every
\* task of the chain is worked off.
ChainFinishes == <>[](\A t \in Tasks : Finished(t))

\* "Only one task per chain can be ACTIVE at a time" (README.md:733).
OneActivePerChain == Cardinality({t \in Tasks : status[t] = "active"}) <= 1
=============================================================================
