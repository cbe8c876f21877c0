------------------------------- MODULE Producer -------------------------------
(***************************************************************************)
(* ProducerService: addTask, called once per task by the application, and     *)
(* sendBufferTasks, the interval that moves buffered tasks to Cloud Tasks.     *)
(* Every action ends where the code awaits.                                  *)
(***************************************************************************)
EXTENDS CloudTasks

CONSTANTS
    Polls,      \* sendBufferTasks calls that may be running at the same time
    HostOf,     \* the instance each of them runs in
    CallerOf,   \* the instance that adds each task
    BufferSize  \* how many tasks one call fetches

ASSUME ProducerAssumption ==
    /\ HostOf \in [Polls -> Workers]
    /\ CallerOf \in [Tasks -> Workers]
    /\ BufferSize \in Nat \ {0}

VARIABLES
    added,      \* how far addTask has come for each task
    poll,       \* poll[p][t]: how far handlePulledTask has come with t in call p
    stranded    \* tasks left ACTIVE by a sender that crashed, or by an addTask
                \* that threw, between the status and the HTTP task (history)

producerVars == <<added, poll, stranded>>

AddStates == {"none", "unique", "create", "send", "reset",
              "done", "skipped", "threw", "lost"}

PollStates == {"none", "mark", "send", "reset", "revert"}

ProducerTypeOK ==
    /\ added \in [Tasks -> AddStates]
    /\ poll \in [Polls -> [Tasks -> PollStates]]
    /\ stranded \subseteq Tasks

ProducerInit ==
    /\ added = [t \in Tasks |-> "none"]
    /\ poll = [p \in Polls |-> [t \in Tasks |-> "none"]]
    /\ stranded = {}

AddSettled(t) == added[t] \in {"done", "skipped", "threw", "lost"}

-----------------------------------------------------------------------------
(* addTask *)

AddStep(t, from, to) ==
    /\ added[t] = from
    /\ added' = [added EXCEPT ![t] = to]
    /\ UNCHANGED poll

AddStart(t) == IF Unique(t) THEN "unique" ELSE "create"

AddTask(t) ==
    /\ AddStep(t, "none", AddStart(t))
    /\ UNCHANGED <<stranded, storageVars, cloudVars>>

\* The application calls addTask again with the taskId it used before.
AddTaskAgain(t) ==
    /\ t \in CustomIds
    /\ AddSettled(t)
    /\ AddStep(t, added[t], AddStart(t))
    /\ Fault("resubmit")
    /\ UNCHANGED <<stranded, storageVars, cloud>>

AddCheckUniqueness(t) ==
    /\ AddStep(t, "unique", IF KeyIsSet(t) THEN "skipped" ELSE "create")
    /\ UNCHANGED <<stranded, storageVars, cloudVars>>

\* Mutant of AddCreate: IDLE whatever the options.
AddCreate_AlwaysIdle(t) ==
    /\ AddStep(t, "create", IF t \in Immediate THEN "send" ELSE "done")
    /\ CreateTask(t, "idle", 0)
    /\ UNCHANGED <<stranded, keys, cloudVars>>

AddCreate(t) ==
    /\ AddStep(t, "create", IF t \in Immediate THEN "send" ELSE "done")
    /\ CreateTask(t, IF t \in Immediate THEN "active" ELSE "idle", 0)
    /\ UNCHANGED <<stranded, keys, cloudVars>>

AddSend(t) ==
    /\ \E outcome \in {"created", "caught", "thrown"} :
          /\ SendTaskToGcp(t, outcome)
          /\ AddStep(t, "send", CASE outcome = "created" -> "done"
                                  [] outcome = "caught"  -> "reset"
                                  [] outcome = "thrown"  -> "threw")
          /\ stranded' = IF outcome = "thrown" THEN stranded \cup {t} ELSE stranded
    /\ UNCHANGED storageVars

AddReset(t) ==
    /\ AddStep(t, "reset", "done")
    /\ ResetAfterCatch(t)
    /\ UNCHANGED <<stranded, keys, cloudVars>>

-----------------------------------------------------------------------------
(* sendBufferTasks *)

PollStep(p, t, from, to) ==
    /\ poll[p][t] = from
    /\ poll' = [poll EXCEPT ![p][t] = to]
    /\ UNCHANGED <<added, stranded>>

Idle == {t \in Tasks : tasks[t].status = "idle"}

\* findTasksWithoutActiveVersion: the oldest BufferSize idle tasks, the order
\* of updatedAt being left open.  No chain filtering: these tasks have no chain.
\* The interval does not wait for an earlier call: calls are Polls of their own.
PollFetch(p) ==
    /\ \A t \in Tasks : poll[p][t] = "none"
    /\ \E fetched \in SUBSET Idle :
          /\ \/ fetched = Idle /\ Cardinality(Idle) <= BufferSize
             \/ Cardinality(fetched) = BufferSize
          /\ poll' = [poll EXCEPT ![p] =
                         [t \in Tasks |-> IF t \in fetched THEN "mark" ELSE "none"]]
    /\ UNCHANGED <<added, stranded, storageVars, cloudVars>>

\* Mutant of PollMark: the task is sent unmarked.
PollMark_NoMark(p, t) ==
    /\ PollStep(p, t, "mark", "send")
    /\ UNCHANGED <<storageVars, cloudVars>>

\* handlePulledTask: mark ACTIVE, whatever the status is by now, then send.
PollMark(p, t) ==
    /\ PollStep(p, t, "mark", "send")
    /\ UpdateTaskStatus(t, "active")
    /\ UNCHANGED <<keys, cloudVars>>

PollSend(p, t) ==
    /\ \E outcome \in {"created", "caught", "thrown"} :
          /\ SendTaskToGcp(t, outcome)
          /\ PollStep(p, t, "send", CASE outcome = "created" -> "none"
                                      [] outcome = "caught"  -> "reset"
                                      [] outcome = "thrown"  -> "revert")
    /\ UNCHANGED storageVars

PollReset(p, t) ==
    /\ PollStep(p, t, "reset", "none")
    /\ ResetAfterCatch(t)
    /\ UNCHANGED <<keys, cloudVars>>

\* Mutant of PollRevert: the catch block does not reset the status.
PollRevert_NoReset(p, t) ==
    /\ PollStep(p, t, "revert", "none")
    /\ UNCHANGED <<storageVars, cloudVars>>

\* The catch of handlePulledTask uses task.taskId, which is always there.
PollRevert(p, t) ==
    /\ PollStep(p, t, "revert", "none")
    /\ UpdateTaskStatus(t, "idle")
    /\ UNCHANGED <<keys, cloudVars>>
=============================================================================
