--------------------------- MODULE TaskChainsProofs ---------------------------
(***************************************************************************)
(* Theorems about TaskChains for every value of its constants.               *)
(***************************************************************************)
EXTENDS TaskChains, FiniteSetTheorems, TLAPS

(***************************************************************************)
(* The types. A poll that has found a task holds one of its queue.            *)
(***************************************************************************)
Statuses == {"absent", "idle", "active", "completed", "failed"}

RecordsOK ==
    /\ status \in [Tasks -> Statuses]
    /\ ahead \in [Tasks -> SUBSET Idle]
    /\ \A t, u \in Tasks : u \in ahead[t] => t \in Idle /\ t \notin ahead[u]
    /\ \A t, u \in Idle : t = u \/ t \in ahead[u] \/ u \in ahead[t]
    /\ \A t \in Tasks : \A u \in ahead[t] : ahead[u] \subseteq ahead[t]

PollStates == {"done", "find", "active?", "next?", "mark", "send", "reset"}

PollEntries == [at : PollStates, task : Tasks \cup {NoTask}]

Holds(p, q) == poll[p][q].at \notin {"done", "find"}

PollsOK ==
    /\ poll \in [Polls -> [Queues -> PollEntries]]
    /\ \A p \in Polls, q \in Queues :
          Holds(p, q) => poll[p][q].task \in Tasks /\ QueueOf[poll[p][q].task] = q
    /\ rejections \in 0 .. MaxRejections

RequestsOK ==
    /\ cloud \subseteq Tasks /\ handled \subseteq cloud
    /\ failures \in [Tasks -> Nat]

TypeInv == RecordsOK /\ PollsOK /\ RequestsOK

LEMMA TypeInvIsEnough == TypeInv => TypeOK
BY DEF TypeInv, TypeOK, RecordsOK, PollsOK, RequestsOK, Statuses, PollEntries, PollStates

\* A write to the record of t: its status, and its place in the order of updatedAt.
LEMMA UpdateEffect ==
    ASSUME RecordsOK, NEW t \in Tasks, NEW s \in Statuses, UpdateTaskStatus(t, s)
    PROVE  /\ RecordsOK'
           /\ status'[t] = s
           /\ \A u \in Tasks : u # t => status'[u] = status[u]
           /\ \A u \in Tasks : u # t => ahead'[u] = ahead[u] \ {t}
           /\ s = "idle" => ahead'[t] = Idle \ {t}
<1>1. /\ status' \in [Tasks -> Statuses] /\ status'[t] = s
      /\ \A u \in Tasks : u # t => status'[u] = status[u]
  BY DEF RecordsOK, UpdateTaskStatus
<1>2. /\ \A u \in Tasks : u # t => ahead'[u] = ahead[u] \ {t}
      /\ ahead'[t] = IF s = "idle" THEN Idle \ {t} ELSE {}
      /\ ahead' = [u \in Tasks |-> ahead'[u]]
  BY DEF UpdateTaskStatus
<1>3. /\ \A u \in Tasks : u # t => (u \in Idle' <=> u \in Idle)
      /\ t \in Idle' <=> s = "idle"
  BY <1>1 DEF Idle
<1>4. \A u \in Tasks : ahead[u] \subseteq Idle /\ Idle \subseteq Tasks /\ u \notin ahead[u]
  BY DEF RecordsOK, Idle
<1>5. ahead' \in [Tasks -> SUBSET Idle']
  <2>1. \A u \in Tasks : ahead'[u] \subseteq Idle'
    BY <1>2, <1>3, <1>4 DEF Idle
  <2>2. QED
    BY <1>2, <2>1
<1>6. \A v, u \in Tasks : u \in ahead'[v] => v \in Idle' /\ v \notin ahead'[u]
  BY <1>2, <1>3, <1>4 DEF RecordsOK
<1>7. \A v, u \in Idle' : v = u \/ v \in ahead'[u] \/ u \in ahead'[v]
  <2>1. SUFFICES ASSUME NEW v \in Tasks, NEW u \in Tasks, v \in Idle', u \in Idle', v # u
                 PROVE  v \in ahead'[u] \/ u \in ahead'[v]
    BY DEF Idle
  <2>2. QED
    BY <1>2, <1>3, <2>1 DEF RecordsOK
<1>8. \A v \in Tasks : \A u \in ahead'[v] : ahead'[u] \subseteq ahead'[v]
  <2>1. SUFFICES ASSUME NEW v \in Tasks, NEW u \in ahead'[v], NEW w \in ahead'[u]
                 PROVE  w \in ahead'[v]
    OBVIOUS
  <2>2. u \in Tasks /\ u # t /\ w \in ahead[u] /\ w # t /\ w \in Idle
    BY <1>2, <1>4, <2>1 DEF Idle
  <2>3. QED
    BY <1>2, <2>1, <2>2 DEF RecordsOK
<1>9. QED
  BY <1>1, <1>2, <1>5, <1>6, <1>7, <1>8 DEF RecordsOK

\* A part of a poll moves on: the other parts stay.
LEMMA GoesEffect ==
    ASSUME PollsOK, NEW p \in Polls, NEW q \in Queues, NEW at \in PollStates,
           NEW t \in Tasks \cup {NoTask},
           at \notin {"done", "find"} => t \in Tasks /\ QueueOf[t] = q,
           rejections' \in 0 .. MaxRejections,
           Goes(p, q, at, t)
    PROVE  /\ PollsOK'
           /\ poll'[p][q].at = at /\ poll'[p][q].task = t
           /\ \A r \in Polls, v \in Queues : r # p \/ v # q => poll'[r][v] = poll[r][v]
<1> DEFINE entry == [at |-> at, task |-> t]
<1>1. entry \in PollEntries /\ entry.at = at /\ entry.task = t
  BY DEF PollEntries
<1>2. poll' = [poll EXCEPT ![p][q] = entry]
  BY DEF Goes
<1> HIDE DEF entry
<1>3. /\ poll' \in [Polls -> [Queues -> PollEntries]]
      /\ poll'[p][q] = entry
      /\ \A r \in Polls, v \in Queues : r # p \/ v # q => poll'[r][v] = poll[r][v]
  BY <1>1, <1>2 DEF PollsOK
<1>4. \A r \in Polls, v \in Queues :
          Holds(r, v)' => poll'[r][v].task \in Tasks /\ QueueOf[poll'[r][v].task] = v
  BY <1>1, <1>3 DEF PollsOK, Holds
<1>5. QED
  BY <1>1, <1>3, <1>4 DEF PollsOK

LEMMA EndsEffect ==
    ASSUME PollsOK, NEW p \in Polls, NEW q \in Queues, rejections' \in 0 .. MaxRejections,
           Ends(p, q)
    PROVE  /\ PollsOK'
           /\ poll'[p][q].at = "done"
           /\ \A r \in Polls, v \in Queues : r # p \/ v # q => poll'[r][v] = poll[r][v]
<1>1. Goes(p, q, "done", NoTask) /\ "done" \in PollStates
  BY DEF Ends, Goes, Done, PollStates
<1>2. QED
  BY <1>1, GoesEffect

LEMMA Unwritten ==
    ASSUME RecordsOK, UNCHANGED <<status, ahead>>
    PROVE  RecordsOK'
BY DEF RecordsOK, Idle

LEMMA UnmovedPolls ==
    ASSUME PollsOK, UNCHANGED pollVars
    PROVE  PollsOK'
BY DEF PollsOK, Holds, pollVars

LEMMA TypeInvInit == Init => TypeInv
<1> SUFFICES ASSUME Init PROVE TypeInv
  OBVIOUS
<1>1. RecordsOK
  BY DEF Init, RecordsOK, Idle, Statuses
<1>2. Done \in PollEntries /\ Done.at = "done"
  BY DEF Done, PollEntries, PollStates
<1>3. PollsOK
  <2>1. \A p \in Polls, q \in Queues : poll[p][q] = Done
    BY DEF Init
  <2>2. poll \in [Polls -> [Queues -> PollEntries]]
    BY <1>2 DEF Init
  <2>3. rejections \in 0 .. MaxRejections
    BY ChainAssumption DEF Init
  <2>4. QED
    BY <1>2, <2>1, <2>2, <2>3 DEF PollsOK, Holds
<1>4. RequestsOK
  BY DEF Init, RequestsOK
<1>5. QED
  BY <1>1, <1>3, <1>4 DEF TypeInv

\* The step of a part of a poll, with what the task in its hands has to be.
LEMMA TypeInvQueueStep ==
    ASSUME TypeInv, NEW p \in Polls, NEW q \in Queues, HandlePulledQueue(p, q)
    PROVE  TypeInv'
<1> DEFINE t == poll[p][q].task
<1> USE DEF TypeInv
<1>1. /\ rejections \in 0 .. MaxRejections
      /\ Holds(p, q) => t \in Tasks /\ QueueOf[t] = q
  BY DEF PollsOK
<1>2. CASE FindTasks(p, q)
  <2>1. RecordsOK' /\ RequestsOK' /\ rejections' \in 0 .. MaxRejections
    BY <1>1, <1>2, Unwritten DEF FindTasks, RequestsOK, consumerVars
  <2>2. CASE Ends(p, q)
    BY <2>1, <2>2, EndsEffect
  <2>3. CASE \E u \in Candidate(q) : Goes(p, q, "active?", u)
    <3>1. PICK u \in Candidate(q) : Goes(p, q, "active?", u)
      BY <2>3
    <3>2. u \in Tasks /\ QueueOf[u] = q
      BY DEF Candidate, IdleIn, Idle
    <3>3. QED
      BY <2>1, <3>1, <3>2, GoesEffect DEF PollStates
  <2>4. QED
    BY <1>2, <2>2, <2>3 DEF FindTasks
<1>3. CASE AskActive(p, q)
  <2>1. RecordsOK' /\ RequestsOK' /\ rejections' \in 0 .. MaxRejections /\ Holds(p, q)
    BY <1>1, <1>3, Unwritten DEF AskActive, RequestsOK, consumerVars, Holds
  <2>2. Ends(p, q) \/ Goes(p, q, "next?", t)
    BY <1>3 DEF AskActive
  <2>3. QED
    BY <1>1, <2>1, <2>2, EndsEffect, GoesEffect DEF PollStates
<1>4. CASE AskNext(p, q)
  <2>1. RecordsOK' /\ RequestsOK' /\ rejections' \in 0 .. MaxRejections /\ Holds(p, q)
    BY <1>1, <1>4, Unwritten DEF AskNext, RequestsOK, consumerVars, Holds
  <2>2. Ends(p, q) \/ Goes(p, q, "mark", t)
    BY <1>4 DEF AskNext
  <2>3. QED
    BY <1>1, <2>1, <2>2, EndsEffect, GoesEffect DEF PollStates
<1>5. CASE Mark(p, q)
  <2>1. RequestsOK' /\ rejections' \in 0 .. MaxRejections /\ Holds(p, q)
    BY <1>1, <1>5 DEF Mark, RequestsOK, consumerVars, Holds
  <2>2. RecordsOK'
    BY <1>1, <1>5, <2>1, UpdateEffect DEF Mark, Statuses
  <2>3. QED
    BY <1>1, <1>5, <2>1, <2>2, GoesEffect DEF Mark, PollStates
<1>6. CASE Send(p, q)
  <2>1. RecordsOK' /\ Holds(p, q) /\ rejections' \in 0 .. MaxRejections
    BY <1>1, <1>6, Unwritten, ChainAssumption DEF Send, Holds
  <2>2. RequestsOK'
    BY <1>1, <1>6, <2>1 DEF Send, RequestsOK, consumerVars
  <2>3. Ends(p, q) \/ Goes(p, q, "reset", t)
    BY <1>6 DEF Send
  <2>4. QED
    BY <1>1, <2>1, <2>2, <2>3, EndsEffect, GoesEffect DEF PollStates
<1>7. CASE Reset(p, q)
  <2>1. RequestsOK' /\ rejections' \in 0 .. MaxRejections /\ Holds(p, q)
    BY <1>1, <1>7 DEF Reset, RequestsOK, consumerVars, Holds
  <2>2. RecordsOK'
    BY <1>1, <1>7, <2>1, UpdateEffect DEF Reset, Statuses
  <2>3. QED
    BY <1>7, <2>1, <2>2, EndsEffect DEF Reset
<1>8. QED
  BY <1>2, <1>3, <1>4, <1>5, <1>6, <1>7 DEF HandlePulledQueue

LEMMA TypeInvStep == TypeInv /\ [Next]_vars => TypeInv'
<1> SUFFICES ASSUME TypeInv, [Next]_vars PROVE TypeInv'
  OBVIOUS
<1> USE DEF TypeInv
<1>1. ASSUME NEW t \in Tasks, AddTask(t) \/ ProcessTask(t) PROVE TypeInv'
  <2>1. \E s \in Statuses : UpdateTaskStatus(t, s)
    BY <1>1 DEF AddTask, ProcessTask, Handle, Complete, Fail, Statuses
  <2>2. PollsOK'
    BY <1>1, UnmovedPolls DEF AddTask, ProcessTask, Handle, Complete, Fail
  <2>3. RequestsOK'
    <3>1. cloud' \subseteq Tasks /\ handled' \subseteq cloud'
      BY <1>1 DEF RequestsOK, AddTask, ProcessTask, Handle, Complete, Fail, consumerVars
    <3>2. failures' = failures \/ failures' = [failures EXCEPT ![t] = @ + 1]
      BY <1>1 DEF AddTask, ProcessTask, Handle, Complete, Fail, consumerVars
    <3>3. QED
      BY <3>1, <3>2 DEF RequestsOK
  <2>4. QED
    BY <2>1, <2>2, <2>3, UpdateEffect
<1>2. ASSUME NEW p \in Polls, SendBufferTasks(p) PROVE TypeInv'
  <2>1. RecordsOK' /\ RequestsOK'
    BY <1>2, Unwritten DEF SendBufferTasks, RequestsOK, consumerVars
  <2> DEFINE entry == [at |-> "find", task |-> NoTask]
  <2>2. entry \in PollEntries /\ entry.at = "find"
    BY DEF PollEntries, PollStates
  <2>3. poll' = [poll EXCEPT ![p] = [q \in Queues |-> entry]] /\ rejections' = rejections
    BY <1>2 DEF SendBufferTasks
  <2> HIDE DEF entry
  <2>4. PollsOK'
    <3>1. poll' \in [Polls -> [Queues -> PollEntries]]
      BY <2>2, <2>3 DEF PollsOK
    <3>2. \A r \in Polls, q \in Queues :
              poll'[r][q] = entry \/ poll'[r][q] = poll[r][q]
      BY <2>3 DEF PollsOK
    <3>3. QED
      BY <2>2, <2>3, <3>1, <3>2 DEF PollsOK, Holds
  <2>5. QED
    BY <2>1, <2>4
<1>3. ASSUME NEW p \in Polls, NEW q \in Queues, HandlePulledQueue(p, q) PROVE TypeInv'
  BY <1>3, TypeInvQueueStep
<1>4. CASE UNCHANGED vars
  BY <1>4, Unwritten, UnmovedPolls DEF vars, pollVars, RequestsOK
<1>5. QED
  BY <1>1, <1>2, <1>3, <1>4 DEF Next

LEMMA TypeInvHolds == Spec => []TypeInv
BY TypeInvInit, TypeInvStep, PTL DEF Spec

\* The types of the records, of the polls and of the requests; updatedAt orders the
\* IDLE records one after the other, and requests are served for HTTP tasks only.
THEOREM ChainTypesCorrect == Spec => []TypeOK
BY TypeInvHolds, TypeInvIsEnough, PTL

(***************************************************************************)
(* While sendBufferTasks calls do not overlap, and every task Cloud Tasks       *)
(* retries is alone in its queue.                                            *)
(***************************************************************************)
OnePoll == \A p, r \in Polls : p = r

RetriedAlone ==
    \A t, u \in Tasks : t # u /\ QueueOf[t] = QueueOf[u] => MaxRetry[t] = 0

QuietQueue(q) == \A u \in Tasks : QueueOf[u] = q => status[u] # "active"

\* What a queue's part of a poll knows: its task is IDLE until it marks it, ACTIVE
\* and without an HTTP task afterwards; and from its question on, no task of its
\* queue is ACTIVE.
QueueAt(p, q) ==
    LET at == poll[p][q].at
        t == poll[p][q].task
    IN  /\ at \in {"active?", "next?", "mark"} => status[t] = "idle"
        /\ at \in {"next?", "mark"} => QuietQueue(q)
        /\ at \in {"send", "reset"} => status[t] = "active" /\ t \notin cloud
        /\ at = "reset" => rejections > 0

\* A task with an HTTP task is ACTIVE, or FAILED between two attempts.
PushedAt(t) ==
    t \in cloud => \/ status[t] = "active"
                   \/ status[t] = "failed" /\ t \notin handled /\ MaxRetry[t] > 0

OneActive ==
    \A t, u \in Tasks :
        status[t] = "active" /\ status[u] = "active" /\ QueueOf[t] = QueueOf[u] => t = u

ChainInv ==
    /\ TypeInv
    /\ \A p \in Polls, q \in Queues : QueueAt(p, q)
    /\ \A t \in Tasks : PushedAt(t)
    /\ OneActive

LEMMA ChainInvInit == Init => ChainInv
<1> SUFFICES ASSUME Init PROVE ChainInv
  OBVIOUS
<1>1. \A p \in Polls, q \in Queues : poll[p][q].at = "done"
  BY DEF Init, Done
<1>2. \A p \in Polls, q \in Queues : QueueAt(p, q)
  BY <1>1 DEF QueueAt
<1>3. (\A t \in Tasks : PushedAt(t)) /\ OneActive
  BY DEF Init, PushedAt, OneActive
<1>4. QED
  BY <1>2, <1>3, TypeInvInit DEF ChainInv

\* The steps of the application and of the consumer write one record and leave the
\* polls alone.
LEMMA ChainInvRecordStep ==
    ASSUME RetriedAlone, ChainInv, TypeInv', NEW w \in Tasks, AddTask(w) \/ ProcessTask(w)
    PROVE  ChainInv'
<1>1. TypeInv /\ RecordsOK /\ PollsOK /\ RequestsOK
  BY DEF ChainInv, TypeInv
<1>2. poll' = poll /\ rejections' = rejections
  BY DEF AddTask, ProcessTask, Handle, Complete, Fail, pollVars
<1>3. \A u \in Tasks : u # w => status'[u] = status[u]
  <2>1. \E s \in Statuses : UpdateTaskStatus(w, s)
    BY DEF AddTask, ProcessTask, Handle, Complete, Fail, Statuses
  <2>2. QED
    BY <1>1, <2>1, UpdateEffect
<1>4. CASE AddTask(w)
  <2>1. status[w] = "absent" /\ status'[w] = "idle" /\ UNCHANGED <<cloud, handled>>
    BY <1>1, <1>4, UpdateEffect DEF AddTask, consumerVars, Statuses
  <2>2. \A p \in Polls, q \in Queues : QueueAt(p, q)'
    BY <1>1, <1>2, <1>3, <2>1 DEF ChainInv, QueueAt, QuietQueue, PollsOK, Holds
  <2>3. (\A t \in Tasks : PushedAt(t)') /\ OneActive'
    BY <1>3, <2>1 DEF ChainInv, PushedAt, OneActive
  <2>4. QED
    BY <2>2, <2>3 DEF ChainInv
<1>5. CASE Handle(w)
  <2>1. w \in cloud /\ status'[w] = "active" /\ cloud' = cloud /\ handled' = handled \cup {w}
    BY <1>1, <1>5, UpdateEffect DEF Handle, Statuses
  <2>2. \/ status[w] = "active"
        \/ \A u \in Tasks : u # w => QueueOf[u] # QueueOf[w]
    BY <2>1, ChainAssumption DEF ChainInv, PushedAt, RetriedAlone
  <2>3. \A p \in Polls, q \in Queues : QueueAt(p, q)'
    <3> SUFFICES ASSUME NEW p \in Polls, NEW q \in Queues PROVE QueueAt(p, q)'
      OBVIOUS
    <3>1. QueueAt(p, q) /\ PushedAt(w)
      BY DEF ChainInv
    <3>2. Holds(p, q) => poll[p][q].task \in Tasks /\ QueueOf[poll[p][q].task] = q
      BY <1>1 DEF PollsOK
    <3>3. poll[p][q].at \in {"next?", "mark"} => QueueOf[w] # q
      BY <2>1, <2>2, <3>1, <3>2 DEF QueueAt, QuietQueue, PushedAt, Holds
    <3>4. QED
      BY <1>2, <1>3, <2>1, <3>1, <3>2, <3>3 DEF QueueAt, QuietQueue, PushedAt, Holds
  <2>4. (\A t \in Tasks : PushedAt(t)') /\ OneActive'
    BY <1>3, <2>1, <2>2 DEF ChainInv, PushedAt, OneActive
  <2>5. QED
    BY <2>3, <2>4 DEF ChainInv
<1>6. CASE Complete(w) \/ Fail(w)
  <2>1. /\ w \in handled /\ status'[w] \in {"completed", "failed"}
        /\ handled' = handled \ {w} /\ cloud' \subseteq cloud
        /\ w \in cloud' => status'[w] = "failed" /\ failures[w] < MaxRetry[w]
    BY <1>1, <1>6, UpdateEffect DEF Complete, Fail, Statuses
  <2>2. w \in cloud /\ status[w] = "active"
    BY <1>1, <2>1 DEF ChainInv, PushedAt, RequestsOK
  <2>3. \A p \in Polls, q \in Queues : QueueAt(p, q)'
    BY <1>1, <1>2, <1>3, <2>1, <2>2 DEF ChainInv, QueueAt, QuietQueue, PollsOK, Holds
  <2>4. \A t \in Tasks : PushedAt(t)'
    <3>1. w \in cloud' => MaxRetry[w] > 0
      BY <1>1, <2>1, ChainAssumption DEF RequestsOK
    <3>2. QED
      BY <1>3, <2>1, <3>1 DEF ChainInv, PushedAt
  <2>5. OneActive'
    BY <1>3, <2>1 DEF ChainInv, OneActive
  <2>6. QED
    BY <2>3, <2>4, <2>5 DEF ChainInv
<1>7. QED
  BY <1>4, <1>5, <1>6 DEF ProcessTask

\* A part of a poll that writes no record.
LEMMA ChainInvQuietStep ==
    ASSUME ChainInv, TypeInv', UNCHANGED <<status, handled>>,
           \A p \in Polls, q \in Queues : QueueAt(p, q)',
           \A t \in Tasks : t \in cloud' => t \in cloud \/ status[t] = "active"
    PROVE  ChainInv'
BY DEF ChainInv, PushedAt, OneActive

LEMMA ChainInvQueueStep ==
    ASSUME OnePoll, ChainInv, TypeInv', NEW p \in Polls, NEW q \in Queues,
           HandlePulledQueue(p, q)
    PROVE  ChainInv'
<1> DEFINE t == poll[p][q].task
<1>1. TypeInv /\ RecordsOK /\ PollsOK /\ RequestsOK /\ PollsOK'
  BY DEF ChainInv, TypeInv
<1>2. /\ QueueAt(p, q) /\ rejections \in 0 .. MaxRejections
      /\ Holds(p, q) => t \in Tasks /\ QueueOf[t] = q
  BY <1>1 DEF PollsOK, ChainInv
<1>3. \A r \in Polls, v \in Queues :
          /\ r = p /\ QueueAt(r, v)
          /\ Holds(r, v) => poll[r][v].task \in Tasks /\ QueueOf[poll[r][v].task] = v
  BY <1>1 DEF PollsOK, ChainInv, OnePoll
\* The other parts of the poll hold tasks of other queues.
<1>4. ASSUME NEW v \in Queues, v # q, poll'[p][v] = poll[p][v], rejections' >= rejections,
             \A u \in Tasks : QueueOf[u] # q =>
                 status'[u] = status[u] /\ (u \in cloud' => u \in cloud)
      PROVE  QueueAt(p, v)'
  <2>1. QueueAt(p, v) /\ (Holds(p, v) => poll[p][v].task \in Tasks /\ QueueOf[poll[p][v].task] = v)
    BY <1>3
  <2>2. poll[p][v].at = "reset" => rejections' > 0
    BY <1>1, <1>4, <2>1 DEF QueueAt, PollsOK
  <2>3. QED
    BY <1>4, <2>1, <2>2 DEF QueueAt, QuietQueue, Holds
<1>5. CASE FindTasks(p, q)
  <2>1. UNCHANGED <<status, handled, cloud, rejections>>
    BY <1>5 DEF FindTasks, consumerVars
  <2>2. QueueAt(p, q)' /\ \A v \in Queues : v # q => poll'[p][v] = poll[p][v]
    <3>1. CASE Ends(p, q)
      BY <1>1, <1>2, <2>1, <3>1, EndsEffect DEF QueueAt
    <3>2. CASE \E u \in Candidate(q) : Goes(p, q, "active?", u)
      <4>1. PICK u \in Candidate(q) : Goes(p, q, "active?", u)
        BY <3>2
      <4>2. u \in Tasks /\ QueueOf[u] = q /\ status[u] = "idle"
        BY DEF Candidate, IdleIn, Idle
      <4>3. /\ poll'[p][q].at = "active?" /\ poll'[p][q].task = u
            /\ \A v \in Queues : v # q => poll'[p][v] = poll[p][v]
        BY <1>1, <1>2, <2>1, <4>1, <4>2, GoesEffect DEF PollStates
      <4>4. QED
        BY <2>1, <4>2, <4>3 DEF QueueAt
    <3>3. QED
      BY <1>5, <3>1, <3>2 DEF FindTasks
  <2>3. \A v \in Queues : QueueAt(p, v)'
    BY <1>2, <1>4, <2>1, <2>2
  <2>4. QED
    BY <1>3, <2>1, <2>3, ChainInvQuietStep
<1>6. CASE AskActive(p, q) \/ AskNext(p, q)
  <2>1. UNCHANGED <<status, handled, cloud, rejections>> /\ Holds(p, q)
    BY <1>6 DEF AskActive, AskNext, consumerVars, Holds
  <2>2. \/ Ends(p, q)
        \/ Goes(p, q, "next?", t) /\ status[t] = "idle" /\ QuietQueue(q)
        \/ Goes(p, q, "mark", t) /\ status[t] = "idle" /\ QuietQueue(q)
    BY <1>2, <1>6 DEF AskActive, AskNext, QueueAt, HasActiveTaskInChain, QuietQueue
  <2>3. QueueAt(p, q)' /\ \A v \in Queues : v # q => poll'[p][v] = poll[p][v]
    <3>1. CASE Ends(p, q)
      BY <1>1, <1>2, <2>1, <3>1, EndsEffect DEF QueueAt
    <3>2. CASE ~Ends(p, q)
      <4>1. PICK at \in {"next?", "mark"} : Goes(p, q, at, t)
        BY <2>2, <3>2
      <4>2. /\ poll'[p][q].at = at /\ poll'[p][q].task = t
            /\ \A v \in Queues : v # q => poll'[p][v] = poll[p][v]
        BY <1>1, <1>2, <2>1, <4>1, GoesEffect DEF PollStates
      <4>3. QED
        BY <2>1, <2>2, <3>2, <4>2 DEF QueueAt, QuietQueue
    <3>3. QED
      BY <3>1, <3>2
  <2>4. \A v \in Queues : QueueAt(p, v)'
    BY <1>2, <1>4, <2>1, <2>3
  <2>5. QED
    BY <1>3, <2>1, <2>4, ChainInvQuietStep
<1>7. CASE Mark(p, q)
  <2>1. /\ t \in Tasks /\ QueueOf[t] = q /\ status[t] = "idle" /\ QuietQueue(q)
        /\ UNCHANGED <<handled, cloud, rejections>>
    BY <1>2, <1>7 DEF Mark, consumerVars, Holds, QueueAt
  <2>2. status'[t] = "active" /\ \A u \in Tasks : u # t => status'[u] = status[u]
    BY <1>1, <1>7, <2>1, UpdateEffect DEF Mark, Statuses
  <2>3. /\ poll'[p][q].at = "send" /\ poll'[p][q].task = t
        /\ \A v \in Queues : v # q => poll'[p][v] = poll[p][v]
    BY <1>1, <1>2, <1>7, <2>1, GoesEffect DEF Mark, PollStates
  <2>4. t \notin cloud
    BY <2>1 DEF ChainInv, PushedAt
  <2>5. \A v \in Queues : QueueAt(p, v)'
    <3>1. QueueAt(p, q)'
      BY <2>1, <2>2, <2>3, <2>4 DEF QueueAt
    <3>2. QED
      BY <1>2, <1>4, <2>1, <2>2, <2>3, <3>1
  <2>6. \A u \in Tasks : PushedAt(u)'
    BY <2>1, <2>2, <2>4 DEF ChainInv, PushedAt
  <2>7. OneActive'
    BY <2>1, <2>2 DEF ChainInv, OneActive, QuietQueue
  <2>8. QED
    BY <1>3, <2>5, <2>6, <2>7 DEF ChainInv
<1>8. CASE Send(p, q)
  <2>1. /\ t \in Tasks /\ QueueOf[t] = q /\ status[t] = "active" /\ t \notin cloud
        /\ UNCHANGED <<status, handled>>
    BY <1>2, <1>8 DEF Send, consumerVars, Holds, QueueAt
  <2>2. CASE Ends(p, q) /\ cloud' = cloud \cup {t} /\ UNCHANGED rejections
    <3>1. poll'[p][q].at = "done" /\ \A v \in Queues : v # q => poll'[p][v] = poll[p][v]
      BY <1>1, <1>2, <2>2, EndsEffect
    <3>2. \A v \in Queues : QueueAt(p, v)'
      <4>1. QueueAt(p, q)'
        BY <3>1 DEF QueueAt
      <4>2. QED
        BY <1>2, <1>4, <2>1, <2>2, <3>1, <4>1
    <3>3. QED
      BY <1>3, <2>1, <2>2, <3>2, ChainInvQuietStep
  <2>3. CASE Goes(p, q, "reset", t) /\ UNCHANGED cloud /\ rejections' = rejections + 1
             /\ rejections < MaxRejections
    <3>1. /\ poll'[p][q].at = "reset" /\ poll'[p][q].task = t
          /\ \A v \in Queues : v # q => poll'[p][v] = poll[p][v]
      BY <1>1, <1>2, <2>1, <2>3, ChainAssumption, GoesEffect DEF PollStates
    <3>2. \A v \in Queues : QueueAt(p, v)'
      <4>1. QueueAt(p, q)'
        BY <1>2, <2>1, <2>3, <3>1 DEF QueueAt
      <4>2. rejections' >= rejections
        BY <1>2, <2>3
      <4>3. QED
        BY <1>4, <2>1, <2>3, <3>1, <4>1, <4>2
    <3>3. QED
      BY <1>3, <2>1, <2>3, <3>2, ChainInvQuietStep
  <2>4. QED
    BY <1>8, <2>2, <2>3 DEF Send
<1>9. CASE Reset(p, q)
  <2>1. /\ t \in Tasks /\ QueueOf[t] = q /\ status[t] = "active" /\ t \notin cloud
        /\ UNCHANGED <<handled, cloud, rejections>>
    BY <1>2, <1>9 DEF Reset, consumerVars, Holds, QueueAt
  <2>2. status'[t] = "idle" /\ \A u \in Tasks : u # t => status'[u] = status[u]
    BY <1>1, <1>9, <2>1, UpdateEffect DEF Reset, Statuses
  <2>3. poll'[p][q].at = "done" /\ \A v \in Queues : v # q => poll'[p][v] = poll[p][v]
    BY <1>1, <1>2, <1>9, <2>1, EndsEffect DEF Reset
  <2>4. \A v \in Queues : QueueAt(p, v)'
    <3>1. QueueAt(p, q)'
      BY <2>3 DEF QueueAt
    <3>2. QED
      BY <1>2, <1>4, <2>1, <2>2, <2>3, <3>1
  <2>5. (\A u \in Tasks : PushedAt(u)') /\ OneActive'
    BY <2>1, <2>2 DEF ChainInv, PushedAt, OneActive
  <2>6. QED
    BY <1>3, <2>4, <2>5 DEF ChainInv
<1>10. QED
  BY <1>5, <1>6, <1>7, <1>8, <1>9 DEF HandlePulledQueue

LEMMA ChainInvStep ==
    ASSUME OnePoll, RetriedAlone, ChainInv, [Next]_vars
    PROVE  ChainInv'
<1>1. TypeInv'
  BY TypeInvStep DEF ChainInv
<1>2. ASSUME NEW t \in Tasks, AddTask(t) \/ ProcessTask(t) PROVE ChainInv'
  BY <1>1, <1>2, ChainInvRecordStep
<1>3. ASSUME NEW p \in Polls, NEW q \in Queues, HandlePulledQueue(p, q) PROVE ChainInv'
  BY <1>1, <1>3, ChainInvQueueStep
<1>4. ASSUME NEW p \in Polls, SendBufferTasks(p) PROVE ChainInv'
  <2>1. UNCHANGED <<status, handled, cloud, rejections>>
    BY <1>4 DEF SendBufferTasks, consumerVars
  <2>2. \A r \in Polls, q \in Queues : poll'[r][q].at = "find"
    BY <1>4 DEF SendBufferTasks, OnePoll, ChainInv, TypeInv, PollsOK
  <2>3. \A r \in Polls, q \in Queues : QueueAt(r, q)'
    BY <2>2 DEF QueueAt
  <2>4. QED
    BY <1>1, <2>1, <2>3, ChainInvQuietStep
<1>5. CASE UNCHANGED vars
  <2>1. UNCHANGED <<status, handled, cloud, poll, rejections>>
    BY <1>5 DEF vars
  <2>2. \A r \in Polls, q \in Queues : QueueAt(r, q)'
    BY <2>1 DEF ChainInv, QueueAt, QuietQueue
  <2>3. QED
    BY <1>1, <2>1, <2>2, ChainInvQuietStep
<1>6. QED
  BY <1>2, <1>3, <1>4, <1>5 DEF Next

LEMMA ChainInvHolds ==
    ASSUME OnePoll, RetriedAlone
    PROVE  Spec => []ChainInv
<1>1. ChainInv /\ [Next]_vars => ChainInv'
  BY ChainInvStep
<1>2. QED
  BY <1>1, ChainInvInit, PTL DEF Spec

\* At most one task of a chain and queue is ACTIVE, however many tasks, queues and
\* failed sends there are, while sendBufferTasks calls do not overlap and a task that
\* Cloud Tasks retries is alone in its queue.
THEOREM OneActiveHolds ==
    ASSUME OnePoll, RetriedAlone
    PROVE  Spec => []OneActivePerQueue
<1>1. ChainInv => OneActivePerQueue
  <2> SUFFICES ASSUME ChainInv, NEW q \in Queues PROVE Cardinality(ActiveIn(q)) <= 1
    BY DEF OneActivePerQueue
  <2>1. CASE ActiveIn(q) = {}
    BY <2>1, FS_EmptySet
  <2>2. CASE ActiveIn(q) # {}
    <3>1. PICK t \in ActiveIn(q) : TRUE
      BY <2>2
    <3>2. ActiveIn(q) = {t}
      BY <3>1 DEF ChainInv, OneActive, ActiveIn
    <3>3. QED
      BY <3>2, FS_Singleton
  <2>3. QED
    BY <2>1, <2>2
<1>2. QED
  BY <1>1, ChainInvHolds, PTL

(***************************************************************************)
(* The order of the chain. While no send has failed, updatedAt follows the       *)
(* order of addTask among the IDLE tasks of a queue; so what a poll finds has      *)
(* no IDLE task before it, and what it is about to send only finished ones.        *)
(***************************************************************************)
Before(t) == {u \in Earlier(t) : QueueOf[u] = QueueOf[t]}

Cleared == {"next?", "mark", "send"}

OrderAt(t) ==
    /\ status[t] # "absent" => \A u \in Earlier(t) : status[u] # "absent"
    /\ rejections = 0 => \A u \in Before(t) :
          /\ status[t] = "idle" /\ status[u] = "idle" => u \in ahead[t]
          /\ t \in cloud => Finished(u)

HeldInOrder(p, q) ==
    rejections = 0 => \A u \in Before(poll[p][q].task) :
          /\ Holds(p, q) => status[u] # "idle"
          /\ poll[p][q].at \in Cleared => Finished(u)

OrderInv ==
    /\ \A t \in Tasks : OrderAt(t)
    /\ \A p \in Polls, q \in Queues : HeldInOrder(p, q)

LEMMA FinishedStays ==
    ASSUME ChainInv, [Next]_vars, NEW u \in Tasks, Finished(u)
    PROVE  Finished(u)'
<1>1. TypeInv /\ RecordsOK /\ PollsOK /\ RequestsOK /\ u \notin cloud
  BY DEF ChainInv, TypeInv, PushedAt, Finished
<1>2. ASSUME NEW w \in Tasks, AddTask(w) \/ ProcessTask(w) PROVE Finished(u)'
  <2>1. u # w /\ cloud' \subseteq cloud
    BY <1>1, <1>2
       DEF AddTask, ProcessTask, Handle, Complete, Fail, Finished, RequestsOK, consumerVars
  <2>2. \E s \in Statuses : UpdateTaskStatus(w, s)
    BY <1>2 DEF AddTask, ProcessTask, Handle, Complete, Fail, Statuses
  <2>3. status'[u] = status[u]
    BY <1>1, <2>1, <2>2, UpdateEffect
  <2>4. QED
    BY <1>1, <2>1, <2>3 DEF Finished
<1>3. ASSUME NEW p \in Polls, NEW q \in Queues, HandlePulledQueue(p, q) PROVE Finished(u)'
  <2> DEFINE t == poll[p][q].task
  <2>1. QueueAt(p, q) /\ (Holds(p, q) => t \in Tasks)
    BY <1>1 DEF ChainInv, PollsOK
  <2>2. CASE UNCHANGED <<status, cloud>>
    BY <2>2 DEF Finished
  <2>3. CASE Mark(p, q) \/ Reset(p, q)
    <3>1. t \in Tasks /\ status[t] \in {"idle", "active"} /\ cloud' = cloud
      BY <2>1, <2>3 DEF Mark, Reset, Holds, QueueAt
    <3>2. \E s \in Statuses : UpdateTaskStatus(t, s)
      BY <2>3 DEF Mark, Reset, Statuses
    <3>3. u # t /\ status'[u] = status[u]
      BY <1>1, <3>1, <3>2, UpdateEffect DEF Finished
    <3>4. QED
      BY <3>1, <3>3 DEF Finished
  <2>4. CASE Send(p, q)
    BY <1>1, <2>1, <2>4 DEF Send, QueueAt, Finished
  <2>5. QED
    BY <1>3, <2>2, <2>3, <2>4 DEF HandlePulledQueue, FindTasks, AskActive, AskNext
<1>4. CASE (\E p \in Polls : SendBufferTasks(p)) \/ UNCHANGED vars
  BY <1>4 DEF SendBufferTasks, vars, Finished
<1>5. QED
  BY <1>2, <1>3, <1>4 DEF Next

LEMMA OrderInvInit == Init => OrderInv
<1> SUFFICES ASSUME Init PROVE OrderInv
  OBVIOUS
<1>1. \A p \in Polls, q \in Queues : poll[p][q].at = "done"
  BY DEF Init, Done
<1>2. \A p \in Polls, q \in Queues : HeldInOrder(p, q)
  BY <1>1 DEF HeldInOrder, Holds, Cleared
<1>3. \A t \in Tasks : OrderAt(t)
  BY DEF Init, OrderAt
<1>4. QED
  BY <1>2, <1>3 DEF OrderInv

LEMMA OrderInvRecordStep ==
    ASSUME ChainInv, OrderInv, [Next]_vars, NEW w \in Tasks, AddTask(w) \/ ProcessTask(w)
    PROVE  OrderInv'
<1>1. TypeInv /\ RecordsOK /\ PollsOK /\ RequestsOK
  BY DEF ChainInv, TypeInv
<1>2. UNCHANGED <<poll, rejections>> /\ cloud' \subseteq cloud
  BY DEF AddTask, ProcessTask, Handle, Complete, Fail, pollVars
<1>3. /\ AddTask(w) => status[w] = "absent" /\ \A u \in Earlier(w) : status[u] # "absent"
      /\ ProcessTask(w) => status[w] # "absent"
  BY <1>1 DEF AddTask, ProcessTask, Handle, Complete, Fail, ChainInv, PushedAt, RequestsOK
<1>4. /\ \A u \in Tasks : u # w => status'[u] = status[u]
      /\ \A u \in Tasks : u # w => ahead'[u] = ahead[u] \ {w}
      /\ AddTask(w) => status'[w] = "idle" /\ ahead'[w] = Idle \ {w}
      /\ ProcessTask(w) => status'[w] \notin {"absent", "idle"}
  <2>1. CASE AddTask(w)
    BY <1>1, <1>3, <2>1, UpdateEffect DEF AddTask, Statuses
  <2>2. CASE ProcessTask(w)
    <3>1. PICK s \in Statuses : UpdateTaskStatus(w, s) /\ s \notin {"absent", "idle"}
      BY <2>2 DEF ProcessTask, Handle, Complete, Fail, Statuses
    <3>2. QED
      BY <1>1, <1>3, <2>2, <3>1, UpdateEffect
  <2>3. QED
    BY <2>1, <2>2
<1>5. \A u \in Tasks : Finished(u) => Finished(u)'
  BY FinishedStays
<1>6. ASSUME NEW t \in Tasks PROVE OrderAt(t)'
  <2>1. OrderAt(t) /\ PushedAt(t) /\ Earlier(t) \subseteq Tasks /\ Before(t) \subseteq Earlier(t)
    BY DEF OrderInv, ChainInv, Earlier, Before
  <2>2. status'[t] # "absent" => \A u \in Earlier(t) : status'[u] # "absent"
    BY <1>4, <1>3, <2>1 DEF OrderAt
  <2>3. ASSUME NEW u \in Before(t), rejections' = 0, status'[t] = "idle", status'[u] = "idle"
        PROVE  u \in ahead'[t]
    <3>1. u \in Tasks /\ u # t /\ OrderAt(t)
      BY <2>1, ChainAssumption DEF Before, Earlier
    <3>2. CASE AddTask(w) /\ t = w
      BY <1>4, <2>3, <3>1, <3>2 DEF Idle
    <3>3. CASE t # w
      <4>1. u # w
        BY <1>4, <1>3, <2>1, <2>3, <3>3 DEF OrderAt
      <4>2. QED
        BY <1>2, <1>4, <2>1, <2>3, <3>1, <3>3, <4>1 DEF OrderAt
    <3>4. QED
      BY <1>4, <2>3, <3>2, <3>3
  <2>4. ASSUME NEW u \in Before(t), rejections' = 0, t \in cloud' PROVE Finished(u)'
    BY <1>2, <1>5, <2>1, <2>4 DEF OrderAt
  <2>5. QED
    BY <2>2, <2>3, <2>4 DEF OrderAt, Before, Earlier
<1>7. ASSUME NEW p \in Polls, NEW q \in Queues PROVE HeldInOrder(p, q)'
  <2> DEFINE t == poll[p][q].task
  <2>1. HeldInOrder(p, q) /\ QueueAt(p, q) /\ Before(t) \subseteq Tasks
    BY DEF OrderInv, ChainInv, Before, Earlier
  <2>2. Holds(p, q) => t \in Tasks /\ status[t] # "absent"
    BY <1>1, <2>1 DEF PollsOK, Holds, PollEntries, PollStates, QueueAt
  <2>3. Holds(p, q) => \A u \in Before(t) : status[u] # "absent"
    BY <2>2 DEF OrderInv, OrderAt, Before
  <2>4. QED
    BY <1>2, <1>4, <1>5, <1>3, <2>1, <2>3 DEF HeldInOrder, Holds, Before, Earlier, Cleared
<1>8. QED
  BY <1>6, <1>7 DEF OrderInv

LEMMA OrderInvQueueStep ==
    ASSUME OnePoll, RetriedAlone, ChainInv, OrderInv, [Next]_vars,
           NEW p \in Polls, NEW q \in Queues, HandlePulledQueue(p, q)
    PROVE  OrderInv'
<1> DEFINE t == poll[p][q].task
<1>1. TypeInv /\ RecordsOK /\ PollsOK /\ RequestsOK /\ PollsOK'
  BY TypeInvStep DEF ChainInv, TypeInv
<1>2. /\ QueueAt(p, q) /\ HeldInOrder(p, q) /\ rejections \in 0 .. MaxRejections
      /\ Holds(p, q) => t \in Tasks /\ QueueOf[t] = q
      /\ \A r \in Polls : r = p
  BY <1>1 DEF PollsOK, ChainInv, OrderInv, OnePoll
<1>3. \A u \in Tasks : Finished(u) => Finished(u)'
  BY FinishedStays
<1>4. rejections' \in Nat /\ (rejections' = 0 => rejections = 0)
  BY <1>1, <1>2 DEF HandlePulledQueue, FindTasks, AskActive, AskNext, Mark, Send, Reset, PollsOK
<1>5. ASSUME NEW u \in Tasks PROVE u \notin Before(u)
  BY <1>5, ChainAssumption DEF Before, Earlier
\* The other parts of the poll.
<1>6. ASSUME NEW v \in Queues, poll'[p][v] = poll[p][v],
             rejections' = 0 => \A u \in Tasks : status'[u] = "idle" => status[u] = "idle"
      PROVE  HeldInOrder(p, v)'
  <2>1. HeldInOrder(p, v)
    BY DEF OrderInv
  <2>2. QED
    BY <1>3, <1>4, <1>6, <2>1 DEF HeldInOrder, Holds, Before, Earlier
<1>7. CASE FindTasks(p, q) \/ AskActive(p, q) \/ AskNext(p, q)
  <2>1. UNCHANGED <<status, ahead, cloud, rejections>>
    BY <1>7 DEF FindTasks, AskActive, AskNext
  <2>2. \A u \in Tasks : OrderAt(u)'
    BY <2>1 DEF OrderInv, OrderAt, Finished
  <2>3. HeldInOrder(p, q)' /\ \A v \in Queues : v # q => poll'[p][v] = poll[p][v]
    <3>1. CASE Ends(p, q)
      BY <1>1, <1>2, <2>1, <3>1, EndsEffect DEF HeldInOrder, Holds, Cleared
    <3>2. CASE FindTasks(p, q) /\ ~Ends(p, q)
      <4>1. PICK u \in Candidate(q) : Goes(p, q, "active?", u)
        BY <3>2 DEF FindTasks
      <4>2. u \in Tasks /\ QueueOf[u] = q /\ status[u] = "idle"
            /\ \A w \in Tasks : QueueOf[w] = q /\ status[w] = "idle" => w \notin ahead[u]
        BY DEF Candidate, IdleIn, Idle
      <4>3. /\ poll'[p][q].at = "active?" /\ poll'[p][q].task = u
            /\ \A v \in Queues : v # q => poll'[p][v] = poll[p][v]
        BY <1>1, <1>2, <2>1, <4>1, <4>2, GoesEffect DEF PollStates
      <4>4. rejections = 0 => \A w \in Before(u) : status[w] # "idle"
        BY <4>2 DEF OrderInv, OrderAt, Before, Earlier
      <4>5. QED
        BY <2>1, <4>3, <4>4 DEF HeldInOrder, Cleared
    <3>3. CASE AskActive(p, q) /\ ~Ends(p, q)
      <4>1. /\ poll[p][q].at = "active?" /\ Goes(p, q, "next?", t)
            /\ \A u \in Tasks : status[u] # "active"
        BY <3>3 DEF AskActive, HasActiveTaskInChain
      <4>2. t \in Tasks /\ status[t] = "idle"
        BY <1>2, <4>1 DEF QueueAt, Holds
      <4>3. rejections = 0 => \A u \in Before(t) : Finished(u)
        <5> SUFFICES ASSUME rejections = 0, NEW u \in Before(t) PROVE Finished(u)
          OBVIOUS
        <5>1. u \in Tasks /\ u # t /\ QueueOf[u] = QueueOf[t]
          BY <1>5, <4>2 DEF Before, Earlier
        <5>2. status[u] \notin {"absent", "idle", "active"}
          BY <1>2, <4>1, <4>2, <5>1 DEF OrderInv, OrderAt, HeldInOrder, Holds, Before
        <5>3. MaxRetry[u] = 0
          BY <4>2, <5>1 DEF RetriedAlone
        <5>4. QED
          BY <1>1, <5>1, <5>2, <5>3 DEF ChainInv, PushedAt, Finished, RecordsOK, Statuses
      <4>4. /\ poll'[p][q].at = "next?" /\ poll'[p][q].task = t
            /\ \A v \in Queues : v # q => poll'[p][v] = poll[p][v]
        BY <1>1, <1>2, <2>1, <4>1, GoesEffect DEF PollStates, Holds
      <4>5. QED
        BY <1>2, <1>3, <2>1, <4>1, <4>3, <4>4 DEF HeldInOrder, Holds, Before, Earlier
    <3>4. CASE AskNext(p, q) /\ ~Ends(p, q)
      <4>1. poll[p][q].at = "next?" /\ Goes(p, q, "mark", t)
        BY <3>4 DEF AskNext
      <4>2. /\ poll'[p][q].at = "mark" /\ poll'[p][q].task = t
            /\ \A v \in Queues : v # q => poll'[p][v] = poll[p][v]
        BY <1>1, <1>2, <2>1, <4>1, GoesEffect DEF PollStates, Holds
      <4>3. QED
        BY <1>2, <1>3, <2>1, <4>1, <4>2 DEF HeldInOrder, Holds, Cleared, Before, Earlier
    <3>5. QED
      BY <1>7, <3>1, <3>2, <3>3, <3>4
  <2>4. QED
    BY <1>2, <1>6, <2>1, <2>2, <2>3 DEF OrderInv
<1>8. CASE Mark(p, q)
  <2>1. t \in Tasks /\ status[t] = "idle" /\ poll[p][q].at = "mark" /\ UNCHANGED <<cloud, rejections>>
    BY <1>2, <1>8 DEF Mark, Holds, QueueAt
  <2>2. /\ status'[t] = "active"
        /\ \A u \in Tasks : u # t => status'[u] = status[u] /\ ahead'[u] = ahead[u] \ {t}
    BY <1>1, <1>8, <2>1, UpdateEffect DEF Mark, Statuses
  <2>3. /\ poll'[p][q].at = "send" /\ poll'[p][q].task = t
        /\ \A v \in Queues : v # q => poll'[p][v] = poll[p][v]
    BY <1>1, <1>2, <1>8, <2>1, GoesEffect DEF Mark, PollStates, Holds
  <2>4. \A u \in Tasks : OrderAt(u)'
    BY <1>3, <2>1, <2>2 DEF OrderInv, OrderAt, Before, Earlier
  <2>5. HeldInOrder(p, q)'
    BY <1>2, <1>3, <2>1, <2>2, <2>3 DEF HeldInOrder, Holds, Cleared, Before, Earlier
  <2>6. QED
    BY <1>2, <1>6, <2>2, <2>3, <2>4, <2>5 DEF OrderInv
<1>9. CASE Send(p, q)
  <2>1. t \in Tasks /\ poll[p][q].at = "send" /\ UNCHANGED <<status, ahead>>
    BY <1>2, <1>9 DEF Send, Holds
  <2>2. /\ cloud' \subseteq cloud \cup {t}
        /\ \/ Ends(p, q)
           \/ Goes(p, q, "reset", t) /\ rejections' = rejections + 1
    BY <1>9 DEF Send
  <2>3. \A u \in Tasks : OrderAt(u)'
    BY <1>2, <1>3, <1>4, <2>1, <2>2
       DEF OrderInv, OrderAt, HeldInOrder, Cleared, Before, Earlier
  <2>4. HeldInOrder(p, q)' /\ \A v \in Queues : v # q => poll'[p][v] = poll[p][v]
    <3>1. rejections' \in 0 .. MaxRejections
      BY <1>1 DEF PollsOK
    <3>2. CASE Ends(p, q)
      BY <1>1, <3>1, <3>2, EndsEffect DEF HeldInOrder, Holds, Cleared
    <3>3. CASE Goes(p, q, "reset", t) /\ rejections' = rejections + 1
      BY <1>1, <1>2, <2>1, <3>1, <3>3, GoesEffect DEF HeldInOrder, PollStates, Holds
    <3>4. QED
      BY <2>2, <3>2, <3>3
  <2>5. QED
    BY <1>2, <1>6, <2>1, <2>3, <2>4 DEF OrderInv
<1>10. CASE Reset(p, q)
  <2>1. t \in Tasks /\ rejections' # 0 /\ UNCHANGED rejections
    BY <1>2, <1>10 DEF Reset, Holds, QueueAt
  <2>2. status'[t] = "idle" /\ \A u \in Tasks : u # t => status'[u] = status[u]
    BY <1>1, <1>10, <2>1, UpdateEffect DEF Reset, Statuses
  <2>3. status[t] = "active"
    BY <1>2, <1>10 DEF Reset, QueueAt
  <2>4. \A u \in Tasks : OrderAt(u)'
    BY <2>1, <2>2, <2>3 DEF OrderInv, OrderAt, Earlier
  <2>5. QED
    BY <2>1, <2>4 DEF OrderInv, HeldInOrder
<1>11. QED
  BY <1>7, <1>8, <1>9, <1>10 DEF HandlePulledQueue

LEMMA OrderInvStep ==
    ASSUME OnePoll, RetriedAlone, ChainInv, OrderInv, [Next]_vars
    PROVE  OrderInv'
<1>1. ASSUME NEW t \in Tasks, AddTask(t) \/ ProcessTask(t) PROVE OrderInv'
  BY <1>1, OrderInvRecordStep
<1>2. ASSUME NEW p \in Polls, NEW q \in Queues, HandlePulledQueue(p, q) PROVE OrderInv'
  BY <1>2, OrderInvQueueStep
<1>3. ASSUME NEW p \in Polls, SendBufferTasks(p) PROVE OrderInv'
  <2>1. UNCHANGED <<status, ahead, cloud, rejections>>
    BY <1>3 DEF SendBufferTasks
  <2>2. \A r \in Polls, q \in Queues : poll'[r][q].at = "find"
    BY <1>3 DEF SendBufferTasks, OnePoll, ChainInv, TypeInv, PollsOK
  <2>3. QED
    BY <2>1, <2>2 DEF OrderInv, OrderAt, HeldInOrder, Holds, Cleared, Finished
<1>4. CASE UNCHANGED vars
  BY <1>4 DEF vars, OrderInv, OrderAt, HeldInOrder, Holds, Finished
<1>5. QED
  BY <1>1, <1>2, <1>3, <1>4 DEF Next

\* Within a queue no task of a chain is handled before the earlier ones are finished,
\* for any chain and any number of queues, while no send has failed.
THEOREM HandledInOrderHolds ==
    ASSUME OnePoll, RetriedAlone
    PROVE  Spec => HandledInOrder
<1>1. ChainInv /\ OrderInv /\ [Next]_vars => OrderInv'
  BY OrderInvStep
<1>2. ChainInv /\ OrderInv /\ [Next]_vars =>
          [rejections = 0 =>
              \A t \in Tasks : t \in handled' \ handled =>
                  \A u \in Earlier(t) : QueueOf[u] = QueueOf[t] => Finished(u)]_vars
  <2> SUFFICES ASSUME ChainInv, OrderInv, Next, rejections = 0, NEW t \in Tasks,
                      t \in handled' \ handled, NEW u \in Earlier(t), QueueOf[u] = QueueOf[t]
               PROVE  Finished(u)
    OBVIOUS
  <2>1. t \in cloud
    BY DEF Next, AddTask, ProcessTask, Handle, Complete, Fail, SendBufferTasks,
           HandlePulledQueue, FindTasks, AskActive, AskNext, Mark, Send, Reset, consumerVars
  <2>2. QED
    BY <2>1 DEF OrderInv, OrderAt, Before
<1>3. QED
  BY <1>1, <1>2, ChainInvHolds, OrderInvInit, PTL DEF Spec, HandledInOrder
=============================================================================
