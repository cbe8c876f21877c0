------------------------------ MODULE CloudTasks ------------------------------
(***************************************************************************)
(* Google Cloud Tasks as src/ uses it, and the environment's faults.          *)
(*                                                                         *)
(* client.createTask adds an HTTP task; the service pushes it to the          *)
(* consumer's endpoint at some later time, in any order, and pushes it again   *)
(* until it is answered with a success status.  scheduleTime only delays the   *)
(* push, which any delivery order covers already.                            *)
(***************************************************************************)
EXTENDS TaskStorage

CONSTANTS
    Faults,     \* the kinds of fault that may happen
    MaxFaults   \* how many may happen in all: the bound of every run

FaultKinds ==
    {"reject",          \* createTask fails and no task was created
     "ambiguous",       \* createTask fails although the task was created
     "credentials",     \* getCredentials or the e-mail check throws before it
     "duplicate",       \* an HTTP task is pushed again although it was, or will be, answered
     "crash",           \* an instance stops between two awaits
     "resubmit",        \* the application adds a task again under the same taskId
     "handler",         \* the application's handler throws
     "denied"}          \* the rate limiter refuses a token

ASSUME CloudAssumption ==
    /\ MaxFaults \in Nat
    /\ Faults \subseteq FaultKinds
    /\ Adapter = "memory" => "crash" \notin Faults

VARIABLES
    cloud,      \* HTTP tasks waiting to be pushed, for each task
    faults      \* faults so far

cloudVars == <<cloud, faults>>

CloudTypeOK ==
    /\ cloud \in [Tasks -> Nat]
    /\ faults \in 0..MaxFaults

CloudInit ==
    /\ cloud = [t \in Tasks |-> 0]
    /\ faults = 0

Fault(kind) ==
    /\ kind \in Faults
    /\ faults < MaxFaults
    /\ faults' = faults + 1

Enqueue(t) == cloud' = [cloud EXCEPT ![t] = @ + 1]

Dequeue(t) == cloud[t] > 0 /\ cloud' = [cloud EXCEPT ![t] = @ - 1]

(***************************************************************************)
(* sendTaskToGcp(t) up to the answer of createTask.  "caught": the call        *)
(* failed and the catch block runs next; "thrown": an await before the try     *)
(* threw and the caller sees the error.                                      *)
(***************************************************************************)
SendTaskToGcp(t, outcome) ==
    \/ /\ outcome = "created"
       /\ Enqueue(t)
       /\ UNCHANGED faults
    \/ /\ outcome = "caught"
       /\ Fault("reject")
       /\ UNCHANGED cloud
    \/ /\ outcome = "caught"
       /\ Fault("ambiguous")
       /\ Enqueue(t)
    \/ /\ outcome = "thrown"
       /\ Fault("credentials")
       /\ UNCHANGED cloud

\* The catch block: updateTaskStatus(options.taskId, IDLE), which reaches the
\* record only of a task that was added with a taskId of its own.
ResetAfterCatch(t) ==
    IF t \in CustomIds THEN UpdateTaskStatus(t, "idle") ELSE UNCHANGED tasks
=============================================================================
