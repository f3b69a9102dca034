---------------------------- MODULE SessionProofs ---------------------------
(***************************************************************************)
(* Proofs about Session, for every number of request tasks, programs, ids, *)
(* slots, worker permits and blocking threads.                             *)
(*                                                                         *)
(* An answer is conserved because a live task is the only one with its id  *)
(* and owns one slot (TasksAreRequests), and a permit because a job and    *)
(* the task that awaits it know each other (JobsKnowTheirTasks).  The      *)
(* lemmas come in three groups, one for each of the three counts: requests *)
(* and slots, answers, and worker permits.                                 *)
(***************************************************************************)
EXTENDS Session, SequenceLemmas

PCs == {"none", "spawned", "answer", "shutdown", "acquire", "granted", "job",
        "loaded", "stopping", "compiling"}
Task == [pc : PCs, id : RequestIds \cup {NoId}, method : Methods]
JobSet == [of : Users \cup {Detached}, worker : BOOLEAN]
Frames == RequestIds \cup {NoId}

Flags ==
  phase \in {"open", "ending", "closed"} /\ initialized \in BOOLEAN /\ shutdown \in BOOLEAN

OutputTyped ==
  /\ DOMAIN q = {"control", "data", "ready", "bytes", "burst"}
  /\ q.control \in Seq(Frames)
  /\ writing \in Frames \cup {NoFrame}
  /\ asked \in [RequestIds -> Int]

\* A task without a request is NoTask, and a program only waits for workers.
TasksTyped ==
  /\ task \in [Users -> Task]
  /\ \A t \in Users : task[t].pc = "none" => task[t] = NoTask
  /\ \A p \in Programs : task[p].pc \in {"none", "acquire", "granted", "job"}

PoolTyped ==
  /\ waiters \in Seq(Users) /\ IsInjective(waiters)
  /\ jobs \in Seq(JobSet)
  /\ permits \in Nat

\* A live request task has an id of its own, and every method but the compile
\* a slot.
TasksAreRequests ==
  /\ \A t \in Live : task[t].id \in RequestIds
  /\ \A t, u \in Live : task[t].id = task[u].id => t = u
  /\ ids = {task[t].id : t \in Live}
  /\ slots \in Nat
  /\ slots + Cardinality({t \in Live : Slotted(task[t].method)}) = SLOTS

\* The task that a job belongs to awaits it, and no other job.
JobsKnowTheirTasks ==
  /\ \A k \in DOMAIN jobs : jobs[k].of \in Users => task[jobs[k].of].pc = "job"
  /\ \A j, k \in DOMAIN jobs : jobs[j].of = jobs[k].of /\ jobs[j].of # Detached => j = k

\* The counting part of AnswersAreConserved.
AnswersCounted ==
  \A i \in RequestIds :
    phase = "open" => asked[i] = Cardinality({t \in Live : task[t].id = i}) + Answers(i)

Typed == Flags /\ OutputTyped /\ TasksTyped /\ PoolTyped

IndInv ==
  Typed /\ TasksAreRequests /\ JobsKnowTheirTasks /\ AnswersCounted /\ WorkersAreConserved

-----------------------------------------------------------------------------
(* Requests and slots.                                                     *)

\* There are finitely many live tasks, of any kind.
LEMMA LiveFinite ==
  ASSUME NEW T \in SUBSET Live
  PROVE  IsFiniteSet(T) /\ Cardinality(T) \in Nat
<1>1. T \in SUBSET Tasks
  BY DEF Live
<1> QED BY <1>1, FS_Subset, FS_CardinalityType, SessionAssumption DEF SessionAssumption

\* A step that leaves alone which tasks live, and their ids and methods.
LEMMA SameRequests ==
  ASSUME TasksAreRequests, UNCHANGED <<ids, slots>>,
         \A t \in Tasks : /\ task'[t].pc = "none" <=> task[t].pc = "none"
                          /\ task'[t].id = task[t].id
                          /\ task'[t].method = task[t].method
  PROVE  /\ TasksAreRequests'
         /\ Live' = Live
         /\ \A i \in RequestIds : {t \in Live : task[t].id = i}' = {t \in Live : task[t].id = i}
<1>1. Live' = Live
  BY DEF Live
<1>2. \A t \in Live : t \in Tasks
  BY DEF Live
<1>3. {t \in Live : Slotted(task[t].method)}' = {t \in Live : Slotted(task[t].method)}
  BY <1>1, <1>2 DEF Slotted
<1>4. \A i \in RequestIds : {t \in Live : task[t].id = i}' = {t \in Live : task[t].id = i}
  BY <1>1, <1>2
<1>5. {task[t].id : t \in Live}' = {task[t].id : t \in Live}
  BY <1>1, <1>2
<1>6. TasksAreRequests'
  <2>1. \A t, u \in Live : task'[t].id = task'[u].id => t = u
    BY <1>2 DEF TasksAreRequests
  <2> QED BY <1>1, <1>2, <1>3, <1>5, <2>1 DEF TasksAreRequests
<1> QED BY <1>1, <1>4, <1>6

\* A request is admitted: its id and its slot are taken.
LEMMA AdmitOK ==
  ASSUME TasksTyped, TasksAreRequests, NEW t \in Idle, NEW i \in RequestIds \ ids,
         NEW m \in Methods, Slotted(m) => slots > 0, Admit(t, i, m)
  PROVE  /\ TasksTyped'
         /\ TasksAreRequests'
         /\ \A j \in RequestIds :
              Cardinality({u \in Live : task[u].id = j}')
                = Cardinality({u \in Live : task[u].id = j}) + (IF j = i THEN 1 ELSE 0)
<1> USE DEF Admit
<1>1. /\ t \in Tasks /\ t \in Users /\ t \notin Live
      /\ task'[t] = [pc |-> "spawned", id |-> i, method |-> m]
      /\ task'[t].pc = "spawned" /\ task'[t].id = i /\ task'[t].method = m
      /\ \A u \in Users : u # t => task'[u] = task[u]
  BY DEF Idle, Users, TasksTyped
<1>2. TasksTyped'
  BY <1>1, SessionAssumption DEF SessionAssumption, TasksTyped, Task, PCs, Users
<1>3. Live' = Live \cup {t}
  BY <1>1 DEF Live, Users
<1>4. \A u \in Live : u # t /\ u \in Users /\ task'[u] = task[u]
  BY <1>1 DEF Live, Users
<1>5. ASSUME NEW j \in RequestIds
      PROVE  Cardinality({u \in Live : task[u].id = j}')
               = Cardinality({u \in Live : task[u].id = j}) + (IF j = i THEN 1 ELSE 0)
  <2> DEFINE A == {u \in Live : task[u].id = j}
  <2>1. A \in SUBSET Live
    OBVIOUS
  <2>2. IsFiniteSet(A) /\ Cardinality(A) \in Nat
    BY <2>1, LiveFinite
  <2>3. t \notin A
    BY <1>1
  <2>4. A' = IF j = i THEN A \cup {t} ELSE A
    BY <1>1, <1>3, <1>4
  <2> HIDE DEF A
  <2>5. Cardinality(A \cup {t}) = Cardinality(A) + 1
    BY <2>2, <2>3, FS_AddElement
  <2>6. Cardinality(A') = Cardinality(A) + (IF j = i THEN 1 ELSE 0)
    BY <2>2, <2>4, <2>5
  <2> QED BY <2>6 DEF A
<1>6. TasksAreRequests'
  <2>1. \A u \in Live' : task'[u].id \in RequestIds
    BY <1>1, <1>3, <1>4 DEF TasksAreRequests
  <2>2. \A u, v \in Live' : task'[u].id = task'[v].id => u = v
    BY <1>1, <1>3, <1>4 DEF TasksAreRequests
  <2>3. ids' = {task'[u].id : u \in Live'}
    BY <1>1, <1>3, <1>4 DEF TasksAreRequests
  <2>4. slots' \in Nat /\ slots' + Cardinality({u \in Live : Slotted(task[u].method)}') = SLOTS
    <3> DEFINE A == {u \in Live : Slotted(task[u].method)}
    <3>1. A \in SUBSET Live
      OBVIOUS
    <3>2. IsFiniteSet(A) /\ Cardinality(A) \in Nat
      BY <3>1, LiveFinite
    <3>3. t \notin A
      BY <1>1
    <3>4. A' = IF Slotted(m) THEN A \cup {t} ELSE A
      BY <1>1, <1>3, <1>4 DEF Slotted
    <3>5. slots \in Nat /\ slots + Cardinality(A) = SLOTS
      BY DEF TasksAreRequests
    <3> HIDE DEF A
    <3>6. Cardinality(A \cup {t}) = Cardinality(A) + 1
      BY <3>2, <3>3, FS_AddElement
    <3>7. slots' \in Nat /\ slots' + Cardinality(A') = SLOTS
      BY <3>2, <3>4, <3>5, <3>6, SessionAssumption DEF SessionAssumption
    <3> QED BY <3>7 DEF A
  <2> QED BY <2>1, <2>2, <2>3, <2>4 DEF TasksAreRequests
<1> QED BY <1>2, <1>5, <1>6

\* A request task is over: its id and its slot are free again.
LEMMA ReleaseOK ==
  ASSUME TasksTyped, TasksAreRequests, NEW t \in Live, Release(t),
         task' \in [Users -> Task], task'[t] = NoTask,
         \A u \in Tasks : u # t => /\ task'[u].pc = "none" <=> task[u].pc = "none"
                                   /\ task'[u].id = task[u].id
                                   /\ task'[u].method = task[u].method
  PROVE  /\ TasksAreRequests'
         /\ \A j \in RequestIds :
              Cardinality({u \in Live : task[u].id = j}')
                = Cardinality({u \in Live : task[u].id = j}) - (IF j = task[t].id THEN 1 ELSE 0)
<1> USE DEF Release
<1>1. t \in Tasks /\ task'[t].pc = "none"
  BY DEF Live, NoTask
<1>2. Live' = Live \ {t}
  BY <1>1 DEF Live
<1>3. \A u \in Live : u # t => task'[u].id = task[u].id /\ task'[u].method = task[u].method
  BY DEF Live
<1>4. ASSUME NEW j \in RequestIds
      PROVE  Cardinality({u \in Live : task[u].id = j}')
               = Cardinality({u \in Live : task[u].id = j}) - (IF j = task[t].id THEN 1 ELSE 0)
  <2> DEFINE A == {u \in Live : task[u].id = j}
  <2>1. A \in SUBSET Live
    OBVIOUS
  <2>2. IsFiniteSet(A) /\ Cardinality(A) \in Nat
    BY <2>1, LiveFinite
  <2>3. A' = A \ {t}
    BY <1>2, <1>3
  <2>4. t \in A <=> j = task[t].id
    OBVIOUS
  <2> HIDE DEF A
  <2>5. Cardinality(A \ {t}) = IF t \in A THEN Cardinality(A) - 1 ELSE Cardinality(A)
    BY <2>2, FS_RemoveElement
  <2>6. Cardinality(A') = Cardinality(A) - (IF j = task[t].id THEN 1 ELSE 0)
    BY <2>2, <2>3, <2>4, <2>5
  <2> QED BY <2>6 DEF A
<1>5. TasksAreRequests'
  <2>1. \A u \in Live' : task'[u].id \in RequestIds
    BY <1>2, <1>3 DEF TasksAreRequests
  <2>2. \A u, v \in Live' : task'[u].id = task'[v].id => u = v
    BY <1>2, <1>3 DEF TasksAreRequests
  <2>3. ids' = {task'[u].id : u \in Live'}
    <3>1. ids' = {task[u].id : u \in Live} \ {task[t].id}
      BY DEF TasksAreRequests
    <3>2. \A u \in Live : u # t => task[u].id # task[t].id
      BY DEF TasksAreRequests
    <3> QED BY <1>2, <1>3, <3>1, <3>2
  <2>4. slots' \in Nat /\ slots' + Cardinality({u \in Live : Slotted(task[u].method)}') = SLOTS
    <3> DEFINE A == {u \in Live : Slotted(task[u].method)}
    <3>1. A \in SUBSET Live
      OBVIOUS
    <3>2. IsFiniteSet(A) /\ Cardinality(A) \in Nat
      BY <3>1, LiveFinite
    <3>3. A' = A \ {t}
      BY <1>2, <1>3 DEF Slotted
    <3>4. t \in A <=> Slotted(task[t].method)
      OBVIOUS
    <3>5. slots \in Nat /\ slots + Cardinality(A) = SLOTS
      BY DEF TasksAreRequests
    <3> HIDE DEF A
    <3>6. Cardinality(A \ {t}) = IF t \in A THEN Cardinality(A) - 1 ELSE Cardinality(A)
      BY <3>2, FS_RemoveElement
    <3>7. slots' \in Nat /\ slots' + Cardinality(A') = SLOTS
      BY <3>2, <3>3, <3>4, <3>5, <3>6, SessionAssumption DEF SessionAssumption
    <3> QED BY <3>7 DEF A
  <2> QED BY <2>1, <2>2, <2>3, <2>4 DEF TasksAreRequests
<1> QED BY <1>4, <1>5

-----------------------------------------------------------------------------
(* Answers.                                                                *)

\* The answers that are queued, and the one that is being written.
LEMMA AnswersAre ==
  ASSUME NEW i
  PROVE  Answers(i) = CountIn(q.control, {i}) + (IF writing = i THEN 1 ELSE 0)
<1>1. {k \in DOMAIN q.control : q.control[k] = i} = PositionsIn(q.control, {i})
  BY DEF PositionsIn
<1> QED BY <1>1 DEF Answers, CountIn

\* A queued frame is an answer to the request that it names.
LEMMA PushAnswer ==
  ASSUME OutputTyped, NEW f \in Frames, q' = PushControl(q, f), UNCHANGED writing
  PROVE  /\ DOMAIN q' = DOMAIN q /\ q'.control \in Seq(Frames)
         /\ \A i \in RequestIds : Answers(i)' = Answers(i) + (IF i = f THEN 1 ELSE 0)
<1>1. DOMAIN q' = DOMAIN q /\ q'.control = Append(q.control, f)
  BY DEF PushControl, OutputTyped
<1>2. q.control \in Seq(Frames)
  BY DEF OutputTyped
<1>3. q'.control \in Seq(Frames)
  BY <1>1, <1>2, AppendProperties
<1>4. ASSUME NEW i \in RequestIds
      PROVE  Answers(i)' = Answers(i) + (IF i = f THEN 1 ELSE 0)
  <2>1. Answers(i)' = CountIn(q'.control, {i}) + (IF writing = i THEN 1 ELSE 0)
    BY AnswersAre DEF Answers, CountIn, PositionsIn
  <2>2. CountIn(q'.control, {i}) = CountIn(q.control, {i}) + (IF f \in {i} THEN 1 ELSE 0)
    BY <1>1, <1>2, CountAppend
  <2>3. CountIn(q.control, {i}) \in Nat
    BY <1>2, CountType
  <2> QED BY <2>1, <2>2, <2>3, AnswersAre
<1> QED BY <1>1, <1>3, <1>4

\* The writer takes an answer out of the queue into its hands.
LEMMA WriteStartOK ==
  ASSUME OutputTyped, WriteStart
  PROVE  /\ DOMAIN q' = DOMAIN q /\ q'.control \in Seq(Frames) /\ writing' \in Frames
         /\ \A i \in RequestIds : Answers(i)' = Answers(i)
<1>1. q.control \in Seq(Frames) /\ q.control # <<>> /\ writing = NoFrame
  BY DEF OutputTyped, WriteStart, TakesControl
<1>2. DOMAIN q' = DOMAIN q /\ q'.control = Tail(q.control) /\ writing' = Head(q.control)
  BY DEF PopControl, OutputTyped, WriteStart
<1>3. q'.control \in Seq(Frames) /\ writing' \in Frames
  BY <1>1, <1>2, HeadTailProperties
<1>4. ASSUME NEW i \in RequestIds
      PROVE  Answers(i)' = Answers(i)
  <2>1. Answers(i)' = CountIn(q'.control, {i}) + (IF writing' = i THEN 1 ELSE 0)
    BY AnswersAre DEF Answers, CountIn, PositionsIn
  <2>2. CountIn(q'.control, {i}) = CountIn(q.control, {i}) - (IF Head(q.control) \in {i} THEN 1 ELSE 0)
    BY <1>1, <1>2, CountTail
  <2>3. CountIn(q.control, {i}) \in Nat
    BY <1>1, CountType
  <2>4. writing # i
    BY <1>1, SessionAssumption DEF SessionAssumption
  <2>5. Answers(i) = CountIn(q.control, {i})
    BY <2>3, <2>4, AnswersAre
  <2> QED BY <1>2, <2>1, <2>2, <2>3, <2>5
<1> QED BY <1>2, <1>3, <1>4

\* A request that is turned from a task into an answer stays counted.
LEMMA CountsOK ==
  ASSUME OutputTyped, AnswersCounted, UNCHANGED <<phase, asked>>, NEW i \in RequestIds,
         \A j \in RequestIds : Answers(j)' = Answers(j) + (IF j = i THEN 1 ELSE 0),
         \A j \in RequestIds :
           Cardinality({u \in Live : task[u].id = j}')
             = Cardinality({u \in Live : task[u].id = j}) - (IF j = i THEN 1 ELSE 0)
  PROVE  AnswersCounted'
<1> SUFFICES ASSUME NEW j \in RequestIds, phase = "open"
             PROVE  asked[j] = Cardinality({u \in Live : task[u].id = j}') + Answers(j)'
  BY DEF AnswersCounted
<1>1. Answers(j) \in Int
  <2>1. CountIn(q.control, {j}) \in Nat
    BY CountType DEF OutputTyped
  <2> QED BY <2>1, AnswersAre
<1>2. Cardinality({u \in Live : task[u].id = j}) \in Nat
  BY LiveFinite
<1>3. asked[j] = Cardinality({u \in Live : task[u].id = j}) + Answers(j)
  BY DEF AnswersCounted
<1> QED BY <1>1, <1>2, <1>3

\* A step that touches no output keeps the count, as long as the same
\* requests live.
LEMMA SameAnswers ==
  ASSUME AnswersCounted, UNCHANGED <<q, writing, asked>>, phase' = phase,
         \A i \in RequestIds : {t \in Live : task[t].id = i}' = {t \in Live : task[t].id = i}
  PROVE  AnswersCounted'
BY DEF AnswersCounted, Answers

-----------------------------------------------------------------------------
(* Worker permits.                                                         *)

WorkerJobs == {j \in JobSet : j.worker}

\* The jobs that hold a permit, as a count of positions.
LEMMA WorkersAre ==
  ASSUME NEW s \in Seq(JobSet)
  PROVE  /\ Cardinality({k \in DOMAIN s : s[k].worker}) = CountIn(s, WorkerJobs)
         /\ CountIn(s, WorkerJobs) \in Nat
<1>1. \A k \in DOMAIN s : s[k] \in JobSet
  <2> HIDE DEF JobSet
  <2> QED OBVIOUS
<1>2. {k \in DOMAIN s : s[k].worker} = PositionsIn(s, WorkerJobs)
  BY <1>1 DEF PositionsIn, WorkerJobs
<1> QED BY <1>2, CountType DEF CountIn

\* Users are finitely many, so those that were granted a permit are.
LEMMA UsersFinite ==
  ASSUME NEW T \in SUBSET Users
  PROVE  IsFiniteSet(T) /\ Cardinality(T) \in Nat
<1>1. IsFiniteSet(Users)
  BY FS_Union, SessionAssumption DEF SessionAssumption, Users
<1> QED BY <1>1, FS_Subset, FS_CardinalityType

\* A permit that comes free is free, or with the first waiter.
LEMMA GiveOK ==
  ASSUME PoolTyped, NEW tt \in [Users -> Task], Give(tt),
         waiters # <<>> => permits = 0,
         ToSet(waiters) = {u \in Users : tt[u].pc = "acquire"}
  PROVE  /\ waiters' \in Seq(Users) /\ IsInjective(waiters') /\ permits' \in Nat
         /\ task' \in [Users -> Task]
         /\ \A u \in Users :
              task'[u] = tt[u] \/ /\ tt[u].pc = "acquire" /\ task'[u].pc = "granted"
                                  /\ task'[u].id = tt[u].id /\ task'[u].method = tt[u].method
         /\ permits' + Cardinality({u \in Users : task'[u].pc = "granted"})
              = permits + Cardinality({u \in Users : tt[u].pc = "granted"}) + 1
         /\ waiters' # <<>> => permits' = 0
         /\ ToSet(waiters') = {u \in Users : task'[u].pc = "acquire"}
<1> DEFINE G == {u \in Users : tt[u].pc = "granted"}
<1>0. IsFiniteSet(G) /\ Cardinality(G) \in Nat
  <2>1. G \in SUBSET Users
    OBVIOUS
  <2> HIDE DEF G
  <2> QED BY <2>1, UsersFinite
<1>1. CASE waiters = <<>>
  <2>1. permits' = permits + 1 /\ task' = tt /\ waiters' = waiters
    BY <1>1 DEF Give
  <2>2. {u \in Users : task'[u].pc = "granted"} = G
    BY <2>1
  <2> HIDE DEF G
  <2>3. permits' + Cardinality(G) = permits + Cardinality(G) + 1
    BY <1>0, <2>1 DEF PoolTyped
  <2> QED BY <1>1, <2>1, <2>2, <2>3 DEF PoolTyped, G
<1>2. CASE waiters # <<>>
  <2> DEFINE h == Head(waiters)
  <2>1. /\ waiters' = Tail(waiters) /\ permits' = permits
        /\ task' = [tt EXCEPT ![h].pc = "granted"]
    BY <1>2 DEF Give
  <2>2. /\ Tail(waiters) \in Seq(Users) /\ IsInjective(Tail(waiters))
        /\ ToSet(Tail(waiters)) = ToSet(waiters) \ {h}
    BY <1>2, RotateInjective DEF PoolTyped
  <2>3. h \in ToSet(waiters)
    BY <1>2 DEF PoolTyped, ToSet
  <2> HIDE DEF h
  <2>4. h \in Users /\ tt[h].pc = "acquire" /\ tt[h] \in Task
    BY <2>3
  <2>5. /\ task'[h].pc = "granted" /\ task'[h].id = tt[h].id /\ task'[h].method = tt[h].method
        /\ task'[h] \in Task
        /\ \A u \in Users : u # h => task'[u] = tt[u]
    BY <2>1, <2>4 DEF Task, PCs
  <2>6. task' \in [Users -> Task]
    BY <2>1, <2>5
  <2>7. {u \in Users : task'[u].pc = "granted"} = G \cup {h} /\ h \notin G
    BY <2>4, <2>5
  <2>8. {u \in Users : task'[u].pc = "acquire"} = {u \in Users : tt[u].pc = "acquire"} \ {h}
    BY <2>4, <2>5
  <2>9. permits' + Cardinality(G \cup {h}) = permits + Cardinality(G) + 1
    <3> HIDE DEF G
    <3>1. Cardinality(G \cup {h}) = Cardinality(G) + 1
      BY <1>0, <2>7, FS_AddElement
    <3>2. permits \in Int
      BY DEF PoolTyped
    <3> QED BY <1>0, <2>1, <3>1, <3>2
  <2>10. permits' \in Nat /\ (waiters' # <<>> => permits' = 0)
    BY <1>2, <2>1 DEF PoolTyped
  <2>11. \A u \in Users :
           task'[u] = tt[u] \/ /\ tt[u].pc = "acquire" /\ task'[u].pc = "granted"
                               /\ task'[u].id = tt[u].id /\ task'[u].method = tt[u].method
    BY <2>4, <2>5
  <2> HIDE DEF G
  <2> QED BY <2>1, <2>2, <2>6, <2>7, <2>8, <2>9, <2>10, <2>11 DEF G
<1> QED BY <1>1, <1>2

\* A step that moves no task to or from the semaphore or a job.
LEMMA SameWorkers ==
  ASSUME JobsKnowTheirTasks, WorkersAreConserved, UNCHANGED pool,
         \A u \in Users : \/ task'[u].pc = task[u].pc
                          \/ /\ task[u].pc \notin {"acquire", "granted", "job"}
                             /\ task'[u].pc \notin {"acquire", "granted", "job"}
  PROVE  JobsKnowTheirTasks' /\ WorkersAreConserved'
<1>1. Granted' = Granted
  BY DEF Granted
<1>2. {u \in Users : task'[u].pc = "acquire"} = {u \in Users : task[u].pc = "acquire"}
  OBVIOUS
<1>3. WorkersAreConserved'
  BY <1>1, <1>2 DEF WorkersAreConserved, pool
<1>4. JobsKnowTheirTasks'
  BY DEF JobsKnowTheirTasks, pool
<1> QED BY <1>3, <1>4

\* The state of the semaphore and of the jobs as one count.
LEMMA Conserved ==
  ASSUME PoolTyped, WorkersAreConserved
  PROVE  permits + Cardinality(Granted) + CountIn(jobs, WorkerJobs) = WORKERS
BY WorkersAre DEF PoolTyped, WorkersAreConserved

\* A step that keeps the count, and hands permits to waiters, keeps the
\* invariant.
LEMMA ConservedNext ==
  ASSUME jobs' \in Seq(JobSet),
         permits' + Cardinality(Granted') + CountIn(jobs', WorkerJobs) = WORKERS,
         waiters' # <<>> => permits' = 0,
         ToSet(waiters') = {u \in Users : task'[u].pc = "acquire"}
  PROVE  WorkersAreConserved'
BY WorkersAre DEF WorkersAreConserved, Granted

\* A task queues a job, under a permit or not, and awaits it.
LEMMA JobQueued ==
  ASSUME PoolTyped, JobsKnowTheirTasks, task \in [Users -> Task],
         NEW t \in Users, NEW w \in BOOLEAN, task[t].pc # "job",
         jobs' = Append(jobs, Job(t, w)), task' = [task EXCEPT ![t].pc = "job"]
  PROVE  /\ jobs' \in Seq(JobSet)
         /\ JobsKnowTheirTasks'
         /\ CountIn(jobs', WorkerJobs) = CountIn(jobs, WorkerJobs) + (IF w THEN 1 ELSE 0)
<1>1. Job(t, w) \in JobSet /\ (Job(t, w) \in WorkerJobs <=> w) /\ Job(t, w).of = t
  BY DEF Job, JobSet, WorkerJobs
<1>2. jobs \in Seq(JobSet)
  BY DEF PoolTyped
<1>3. jobs' \in Seq(JobSet)
  BY <1>1, <1>2, AppendProperties
<1>4. JobsKnowTheirTasks'
  <2>1. /\ DOMAIN jobs' = 1..(Len(jobs) + 1) /\ DOMAIN jobs = 1..Len(jobs) /\ Len(jobs) \in Nat
        /\ \A k \in 1..Len(jobs) : jobs'[k] = jobs[k]
        /\ jobs'[Len(jobs) + 1].of = t
    <3> HIDE DEF JobSet
    <3> QED BY <1>1, <1>2, AppendProperties, LenProperties
  <2>2. task'[t].pc = "job" /\ \A u \in Users : u # t => task'[u] = task[u]
    OBVIOUS
  <2>3. \A k \in 1..Len(jobs) : jobs[k].of # t
    BY <2>1 DEF JobsKnowTheirTasks
  <2>4. t # Detached
    BY SessionAssumption DEF SessionAssumption, Users
  <2>5. ASSUME NEW k \in DOMAIN jobs', jobs'[k].of \in Users
        PROVE  task'[jobs'[k].of].pc = "job"
    <3>1. CASE k = Len(jobs) + 1
      BY <2>1, <2>2, <3>1
    <3>2. CASE k \in DOMAIN jobs
      BY <2>1, <2>2, <2>3, <2>5, <3>2 DEF JobsKnowTheirTasks
    <3> QED BY <2>1, <3>1, <3>2
  <2>6. ASSUME NEW j \in DOMAIN jobs', NEW k \in DOMAIN jobs', jobs'[j].of = jobs'[k].of,
               jobs'[j].of # Detached
        PROVE  j = k
    <3>1. CASE j \in DOMAIN jobs /\ k \in DOMAIN jobs
      BY <2>1, <2>6, <3>1 DEF JobsKnowTheirTasks
    <3>2. CASE j = Len(jobs) + 1
      BY <2>1, <2>3, <2>6, <3>2
    <3>3. CASE k = Len(jobs) + 1
      BY <2>1, <2>3, <2>6, <3>3
    <3> QED BY <2>1, <3>1, <3>2, <3>3
  <2> QED BY <2>5, <2>6 DEF JobsKnowTheirTasks
<1>5. CountIn(jobs', WorkerJobs) = CountIn(jobs, WorkerJobs) + (IF w THEN 1 ELSE 0)
  <2>1. CountIn(jobs', WorkerJobs)
          = CountIn(jobs, WorkerJobs) + (IF Job(t, w) \in WorkerJobs THEN 1 ELSE 0)
    <3> HIDE DEF JobSet
    <3> QED BY <1>1, <1>2, CountAppend
  <2> QED BY <1>1, <2>1, Zenon
<1> QED BY <1>3, <1>4, <1>5

\* The job of a task that does not await it any more keeps its permit.
LEMMA DetachOK ==
  ASSUME PoolTyped, JobsKnowTheirTasks, NEW t \in Users, jobs' = Detach(t),
         \A u \in Users : u # t /\ task[u].pc = "job" => task'[u].pc = "job"
  PROVE  /\ jobs' \in Seq(JobSet)
         /\ JobsKnowTheirTasks'
         /\ CountIn(jobs', WorkerJobs) = CountIn(jobs, WorkerJobs)
<1>1. \A k \in DOMAIN jobs : jobs[k] \in JobSet
  <2>1. jobs \in Seq(JobSet)
    BY DEF PoolTyped
  <2> HIDE DEF JobSet
  <2> QED BY <2>1
<1>2. ASSUME NEW k \in DOMAIN jobs
      PROVE  /\ jobs'[k] \in JobSet
             /\ jobs'[k].of = IF jobs[k].of = t THEN Detached ELSE jobs[k].of
             /\ jobs'[k] \in WorkerJobs <=> jobs[k] \in WorkerJobs
  BY <1>1 DEF Detach, Job, JobSet, WorkerJobs
<1>3. DOMAIN jobs' = DOMAIN jobs
  BY DEF Detach
<1>4. jobs' \in Seq(JobSet)
  <2>1. DOMAIN jobs = 1..Len(jobs) /\ Len(jobs) \in Nat
    BY DEF PoolTyped
  <2>2. jobs' \in [1..Len(jobs) -> JobSet]
    <3> HIDE DEF JobSet
    <3> QED BY <1>2, <2>1 DEF Detach
  <2> HIDE DEF JobSet
  <2> QED BY <2>1, <2>2, SeqDef
<1>5. JobsKnowTheirTasks'
  BY <1>2, <1>3, SessionAssumption DEF SessionAssumption, JobsKnowTheirTasks, Users
<1>6. PositionsIn(jobs', WorkerJobs) = PositionsIn(jobs, WorkerJobs)
  BY <1>2, <1>3 DEF PositionsIn
<1> QED BY <1>4, <1>5, <1>6 DEF CountIn

\* run_blocking() of TokioTimeslicer takes a permit for its job or waits.
LEMMA AcquireWorkerOK ==
  ASSUME PoolTyped, TasksTyped, JobsKnowTheirTasks, WorkersAreConserved,
         NEW t \in Users, task[t].pc \notin {"acquire", "granted", "job"}, AcquireWorker(t)
  PROVE  /\ PoolTyped' /\ JobsKnowTheirTasks' /\ WorkersAreConserved'
         /\ \/ task' = [task EXCEPT ![t].pc = "job"]
            \/ task' = [task EXCEPT ![t].pc = "acquire"]
<1>0. /\ task \in [Users -> Task] /\ permits \in Nat
      /\ permits + Cardinality(Granted) + CountIn(jobs, WorkerJobs) = WORKERS
      /\ waiters # <<>> => permits = 0
      /\ ToSet(waiters) = {u \in Users : task[u].pc = "acquire"}
      /\ jobs \in Seq(JobSet) /\ waiters \in Seq(Users) /\ IsInjective(waiters)
  BY Conserved DEF PoolTyped, TasksTyped, WorkersAreConserved
<1>c. Cardinality(Granted) \in Nat /\ CountIn(jobs, WorkerJobs) \in Nat
  <2>1. Granted \in SUBSET Users
    BY DEF Granted
  <2> QED BY <1>0, <2>1, UsersFinite, WorkersAre
<1>1. CASE permits > 0
  <2>1. /\ permits' = permits - 1 /\ waiters' = waiters
        /\ jobs' = Append(jobs, Job(t, TRUE))
        /\ task' = [task EXCEPT ![t].pc = "job"]
    BY <1>1 DEF AcquireWorker
  <2>2. /\ jobs' \in Seq(JobSet)
        /\ JobsKnowTheirTasks'
        /\ CountIn(jobs', WorkerJobs) = CountIn(jobs, WorkerJobs) + 1
    BY <1>0, <2>1, JobQueued
  <2>3. Granted' = Granted /\ ToSet(waiters') = {u \in Users : task'[u].pc = "acquire"}
    BY <1>0, <2>1 DEF Granted
  <2>4. permits' + Cardinality(Granted') + CountIn(jobs', WorkerJobs) = WORKERS
    <3>1. permits' = permits - 1
      BY <2>1
    <3>2. CountIn(jobs', WorkerJobs) = CountIn(jobs, WorkerJobs) + 1
      BY <2>2
    <3>3. Cardinality(Granted') = Cardinality(Granted)
      BY <2>3
    <3> QED BY <1>0, <1>c, <3>1, <3>2, <3>3
  <2>5. waiters' # <<>> => permits' = 0
    BY <1>0, <1>1, <2>1
  <2>6. WorkersAreConserved'
    BY <2>2, <2>3, <2>4, <2>5, ConservedNext
  <2>7. PoolTyped'
    <3>1. permits' \in Nat
      BY <1>0, <1>1, <2>1
    <3> QED BY <1>0, <2>1, <2>2, <3>1 DEF PoolTyped
  <2> QED BY <2>1, <2>2, <2>6, <2>7
<1>2. CASE ~(permits > 0)
  <2>1. /\ waiters' = Append(waiters, t) /\ permits' = permits /\ jobs' = jobs
        /\ task' = [task EXCEPT ![t].pc = "acquire"]
    BY <1>2 DEF AcquireWorker
  <2>2. t \notin ToSet(waiters)
    BY <1>0
  <2>3. /\ waiters' \in Seq(Users) /\ IsInjective(waiters')
        /\ ToSet(waiters') = ToSet(waiters) \cup {t}
    BY <1>0, <2>1, <2>2, AppendFresh
  <2>4. Granted' = Granted /\ ToSet(waiters') = {u \in Users : task'[u].pc = "acquire"}
    BY <1>0, <2>1, <2>3 DEF Granted
  <2>5. permits' = 0
    <3>1. permits = 0
      BY <1>0, <1>2
    <3> QED BY <2>1, <3>1
  <2>6. WorkersAreConserved'
    BY <1>0, <2>1, <2>4, <2>5, ConservedNext
  <2>7. JobsKnowTheirTasks'
    BY <1>0, <2>1 DEF JobsKnowTheirTasks
  <2>8. PoolTyped'
    BY <1>0, <2>1, <2>3 DEF PoolTyped
  <2> QED BY <2>1, <2>6, <2>7, <2>8
<1> QED BY <1>1, <1>2

\* NoTask is a state of a task.
LEMMA NoTaskType == NoTask \in Task /\ NoTask.pc = "none"
BY DEF NoTask, Task, PCs, Methods

\* A job ends: its permit comes free, and its task, if it was not detached,
\* goes on.
LEMMA JobEndsOK ==
  ASSUME PoolTyped, TasksTyped, JobsKnowTheirTasks, WorkersAreConserved,
         NEW k \in DOMAIN jobs, JobEnds(k)
  PROVE  /\ PoolTyped' /\ TasksTyped' /\ JobsKnowTheirTasks' /\ WorkersAreConserved'
         /\ \A u \in Tasks : /\ task'[u].pc = "none" <=> task[u].pc = "none"
                             /\ task'[u].id = task[u].id
                             /\ task'[u].method = task[u].method
<1> DEFINE t == jobs[k].of
           after == [u \in Users |-> IF u # t THEN task[u]
                                    ELSE IF t \in Programs THEN NoTask
                                    ELSE [task[t] EXCEPT !.pc = "loaded"]]
<1>0. /\ task \in [Users -> Task] /\ permits \in Nat
      /\ permits + Cardinality(Granted) + CountIn(jobs, WorkerJobs) = WORKERS
      /\ waiters # <<>> => permits = 0
      /\ ToSet(waiters) = {u \in Users : task[u].pc = "acquire"}
      /\ waiters \in Seq(Users) /\ IsInjective(waiters)
  BY Conserved DEF PoolTyped, TasksTyped, WorkersAreConserved
<1>1. jobs \in Seq(JobSet) /\ k \in 1..Len(jobs) /\ Len(jobs) \in Nat /\ DOMAIN jobs = 1..Len(jobs)
  <2>1. jobs \in Seq(JobSet)
    BY DEF PoolTyped
  <2> HIDE DEF JobSet
  <2> QED BY <2>1
<1>2. jobs[k] \in JobSet
  <2> HIDE DEF JobSet
  <2> QED BY <1>1
<1>3. /\ jobs' = RemoveAt(jobs, k)
      /\ jobs[k].worker => Give(after)
      /\ ~jobs[k].worker => task' = after /\ permits' = permits /\ waiters' = waiters
  BY DEF JobEnds
<1>4. /\ t \in Users => task[t].pc = "job"
      /\ \A u \in Users : u # t => after[u] = task[u]
      /\ t \in Users => IF t \in Programs THEN after[t] = NoTask
                        ELSE after[t] = [task[t] EXCEPT !.pc = "loaded"]
  BY DEF JobsKnowTheirTasks
<1>5. ASSUME NEW u \in Users
      PROVE  /\ after[u] \in Task
             /\ after[u].pc = "acquire" <=> task[u].pc = "acquire"
             /\ after[u].pc = "granted" <=> task[u].pc = "granted"
             /\ u # t => after[u] = task[u]
             /\ u \in Tasks => /\ after[u].pc = "none" <=> task[u].pc = "none"
                               /\ after[u].id = task[u].id /\ after[u].method = task[u].method
             /\ after[u].pc = "none" => after[u] = NoTask
             /\ u \in Programs => after[u].pc \in {"none", "acquire", "granted", "job"}
  <2> HIDE DEF after
  <2>1. CASE u # t
    BY <1>0, <1>4, <2>1 DEF TasksTyped
  <2>2. CASE u = t /\ u \in Programs
    BY <1>4, <2>2, NoTaskType, SessionAssumption DEF SessionAssumption
  <2>3. CASE u = t /\ u \notin Programs
    <3>1. task[u] \in Task /\ task[u].pc = "job" /\ after[u] = [task[u] EXCEPT !.pc = "loaded"]
      BY <1>0, <1>4, <2>3
    <3> QED BY <2>3, <3>1 DEF Task, PCs
  <2> QED BY <2>1, <2>2, <2>3
<1> HIDE DEF after
<1>6. after \in [Users -> Task]
  BY <1>5 DEF after
<1>7. /\ {u \in Users : after[u].pc = "acquire"} = {u \in Users : task[u].pc = "acquire"}
      /\ {u \in Users : after[u].pc = "granted"} = Granted
  BY <1>5 DEF Granted
<1>8. jobs' \in Seq(JobSet)
  <2> HIDE DEF JobSet
  <2> QED BY <1>1, <1>3, RemoveAtProperties
<1>9. /\ CountIn(jobs', WorkerJobs) \in Nat /\ CountIn(jobs, WorkerJobs) \in Nat
      /\ jobs[k].worker => CountIn(jobs', WorkerJobs) = CountIn(jobs, WorkerJobs) - 1
      /\ ~jobs[k].worker => CountIn(jobs', WorkerJobs) = CountIn(jobs, WorkerJobs)
  <2>1. CountIn(jobs', WorkerJobs)
          = CountIn(jobs, WorkerJobs) - (IF jobs[k] \in WorkerJobs THEN 1 ELSE 0)
    <3> HIDE DEF JobSet
    <3> QED BY <1>1, <1>3, CountRemoveAt
  <2>2. jobs[k] \in WorkerJobs <=> jobs[k].worker
    BY <1>2 DEF WorkerJobs
  <2>3. CountIn(jobs', WorkerJobs) \in Nat /\ CountIn(jobs, WorkerJobs) \in Nat
    BY <1>1, <1>8, WorkersAre
  <2>4. CASE jobs[k] \in WorkerJobs
    BY <2>1, <2>2, <2>3, <2>4
  <2>5. CASE jobs[k] \notin WorkerJobs
    BY <2>1, <2>2, <2>3, <2>5
  <2> QED BY <2>4, <2>5
<1>10. /\ waiters' \in Seq(Users) /\ IsInjective(waiters') /\ permits' \in Nat
       /\ task' \in [Users -> Task]
       /\ \A u \in Users :
            task'[u] = after[u] \/ /\ after[u].pc = "acquire" /\ task'[u].pc = "granted"
                                   /\ task'[u].id = after[u].id /\ task'[u].method = after[u].method
       /\ permits' + Cardinality(Granted') + CountIn(jobs', WorkerJobs) = WORKERS
       /\ waiters' # <<>> => permits' = 0
       /\ ToSet(waiters') = {u \in Users : task'[u].pc = "acquire"}
  <2>1. CASE jobs[k].worker
    <3>1. Give(after)
      BY <1>3, <2>1
    <3>2. /\ waiters' \in Seq(Users) /\ IsInjective(waiters') /\ permits' \in Nat
          /\ task' \in [Users -> Task]
          /\ \A u \in Users :
               task'[u] = after[u] \/ /\ after[u].pc = "acquire" /\ task'[u].pc = "granted"
                                      /\ task'[u].id = after[u].id
                                      /\ task'[u].method = after[u].method
          /\ permits' + Cardinality({u \in Users : task'[u].pc = "granted"})
               = permits + Cardinality({u \in Users : after[u].pc = "granted"}) + 1
          /\ waiters' # <<>> => permits' = 0
          /\ ToSet(waiters') = {u \in Users : task'[u].pc = "acquire"}
      BY <1>0, <1>6, <1>7, <3>1, GiveOK
    <3>3. Cardinality(Granted) \in Nat /\ Cardinality(Granted') \in Nat
      <4>1. Granted \in SUBSET Users /\ Granted' \in SUBSET Users
        BY DEF Granted
      <4> QED BY <4>1, UsersFinite
    <3>4. Granted' = {u \in Users : task'[u].pc = "granted"}
      BY DEF Granted
    <3>5. permits' + Cardinality(Granted') = permits + Cardinality(Granted) + 1
      BY <1>7, <3>2, <3>4
    <3>6. CountIn(jobs', WorkerJobs) = CountIn(jobs, WorkerJobs) - 1
      BY <1>9, <2>1
    <3>7. permits' \in Nat /\ permits \in Nat
      BY <1>0, <3>2
    <3>8. permits' + Cardinality(Granted') + CountIn(jobs', WorkerJobs) = WORKERS
      BY <1>0, <1>9, <3>3, <3>5, <3>6, <3>7
    <3> QED BY <3>2, <3>8
  <2>2. CASE ~jobs[k].worker
    <3>1. task' = after /\ permits' = permits /\ waiters' = waiters
      BY <1>3, <2>2
    <3>2. Granted' = Granted
      BY <1>7, <3>1 DEF Granted
    <3>3. CountIn(jobs', WorkerJobs) = CountIn(jobs, WorkerJobs)
      BY <1>9, <2>2
    <3> QED BY <1>0, <1>6, <1>7, <3>1, <3>2, <3>3
  <2> QED BY <2>1, <2>2
<1>11. WorkersAreConserved'
  BY <1>8, <1>10, ConservedNext
<1>12. PoolTyped'
  BY <1>8, <1>10 DEF PoolTyped
<1>13. TasksTyped'
  BY <1>5, <1>10 DEF TasksTyped, Users
<1>14. JobsKnowTheirTasks'
  <2> DEFINE at(j) == IF j < k THEN j ELSE j + 1
  <2>1. /\ DOMAIN jobs' = 1..(Len(jobs) - 1)
        /\ \A j \in 1..(Len(jobs) - 1) : jobs'[j] = jobs[at(j)]
    <3>1. /\ Len(jobs') = Len(jobs) - 1
          /\ \A j \in 1..(Len(jobs) - 1) : jobs'[j] = IF j < k THEN jobs[j] ELSE jobs[j + 1]
      <4> HIDE DEF JobSet
      <4> QED BY <1>1, <1>3, RemoveAtProperties
    <3>2. DOMAIN jobs' = 1..Len(jobs')
      <4> HIDE DEF JobSet
      <4> QED BY <1>8
    <3> QED BY <1>1, <3>1, <3>2
  <2>2. \A j \in 1..(Len(jobs) - 1) : at(j) \in DOMAIN jobs /\ at(j) # k
    BY <1>1
  <2>3. \A i, j \in 1..(Len(jobs) - 1) : at(i) = at(j) => i = j
    BY <1>1
  <2> HIDE DEF at
  <2>4. ASSUME NEW j \in DOMAIN jobs', jobs'[j].of \in Users
        PROVE  task'[jobs'[j].of].pc = "job"
    <3>1. jobs'[j].of = jobs[at(j)].of /\ at(j) \in DOMAIN jobs /\ at(j) # k
      BY <2>1, <2>2
    <3>2. jobs'[j].of # t /\ task[jobs'[j].of].pc = "job"
      BY <2>4, <3>1, SessionAssumption DEF SessionAssumption, JobsKnowTheirTasks, Users
    <3>3. after[jobs'[j].of].pc = "job"
      BY <1>5, <2>4, <3>2
    <3> QED BY <1>10, <2>4, <3>3
  <2>5. ASSUME NEW i \in DOMAIN jobs', NEW j \in DOMAIN jobs', jobs'[i].of = jobs'[j].of,
               jobs'[i].of # Detached
        PROVE  i = j
    BY <2>1, <2>2, <2>3, <2>5 DEF JobsKnowTheirTasks
  <2> QED BY <2>4, <2>5 DEF JobsKnowTheirTasks
<1>15. ASSUME NEW u \in Tasks
       PROVE  /\ task'[u].pc = "none" <=> task[u].pc = "none"
              /\ task'[u].id = task[u].id
              /\ task'[u].method = task[u].method
  <2>1. u \in Users
    BY DEF Users
  <2> QED BY <1>5, <1>10, <2>1
<1> QED BY <1>11, <1>12, <1>13, <1>14, <1>15

\* A future that is dropped gives back a permit that it was granted, leaves
\* the queue of the semaphore, and leaves its job alone.
LEMMA DropOK ==
  ASSUME PoolTyped, TasksTyped, JobsKnowTheirTasks, WorkersAreConserved,
         NEW t \in Users, Drop(t)
  PROVE  /\ PoolTyped' /\ TasksTyped' /\ JobsKnowTheirTasks' /\ WorkersAreConserved'
         /\ task'[t] = NoTask
         /\ \A u \in Users : u # t => /\ task'[u].pc = "none" <=> task[u].pc = "none"
                                      /\ task'[u].id = task[u].id
                                      /\ task'[u].method = task[u].method
<1> DEFINE dropped == [task EXCEPT ![t] = NoTask]
           G == {u \in Users : dropped[u].pc = "granted"}
           A == {u \in Users : dropped[u].pc = "acquire"}
<1>0. /\ task \in [Users -> Task] /\ permits \in Nat
      /\ permits + Cardinality(Granted) + CountIn(jobs, WorkerJobs) = WORKERS
      /\ waiters # <<>> => permits = 0
      /\ ToSet(waiters) = {u \in Users : task[u].pc = "acquire"}
      /\ waiters \in Seq(Users) /\ IsInjective(waiters)
  BY Conserved DEF PoolTyped, TasksTyped, WorkersAreConserved
<1>1. /\ jobs' = Detach(t)
      /\ task[t].pc = "granted" => Give(dropped)
      /\ task[t].pc # "granted" =>
           waiters' = RemoveFirst(waiters, t) /\ task' = dropped /\ permits' = permits
  BY DEF Drop
<1>2. /\ dropped[t] = NoTask /\ dropped[t].pc = "none"
      /\ \A u \in Users : u # t => dropped[u] = task[u]
      /\ dropped \in [Users -> Task]
  BY <1>0, NoTaskType
<1>3. /\ G = Granted \ {t} /\ A = {u \in Users : task[u].pc = "acquire"} \ {t}
  BY <1>2 DEF Granted
<1>4. IsFiniteSet(Granted) /\ Cardinality(Granted) \in Nat /\ Cardinality(Granted') \in Nat
  <2>1. Granted \in SUBSET Users /\ Granted' \in SUBSET Users
    BY DEF Granted
  <2> QED BY <2>1, UsersFinite
<1>5. CountIn(jobs, WorkerJobs) \in Nat
  BY WorkersAre DEF PoolTyped
<1> HIDE DEF dropped
<1>6. /\ waiters' \in Seq(Users) /\ IsInjective(waiters') /\ permits' \in Nat
      /\ task' \in [Users -> Task]
      /\ \A u \in Users :
           task'[u] = dropped[u] \/ /\ dropped[u].pc = "acquire" /\ task'[u].pc = "granted"
                                    /\ task'[u].id = dropped[u].id
                                    /\ task'[u].method = dropped[u].method
      /\ permits' + Cardinality(Granted') = permits + Cardinality(Granted)
      /\ waiters' # <<>> => permits' = 0
      /\ ToSet(waiters') = {u \in Users : task'[u].pc = "acquire"}
  <2>1. CASE task[t].pc = "granted"
    <3>1. Give(dropped)
      BY <1>1, <2>1
    <3>2. ToSet(waiters) = A
      BY <1>0, <1>3, <2>1
    <3>3. /\ waiters' \in Seq(Users) /\ IsInjective(waiters') /\ permits' \in Nat
          /\ task' \in [Users -> Task]
          /\ \A u \in Users :
               task'[u] = dropped[u] \/ /\ dropped[u].pc = "acquire" /\ task'[u].pc = "granted"
                                        /\ task'[u].id = dropped[u].id
                                        /\ task'[u].method = dropped[u].method
          /\ permits' + Cardinality({u \in Users : task'[u].pc = "granted"})
               = permits + Cardinality(G) + 1
          /\ waiters' # <<>> => permits' = 0
          /\ ToSet(waiters') = {u \in Users : task'[u].pc = "acquire"}
      BY <1>0, <1>2, <3>1, <3>2, GiveOK
    <3>4. Cardinality(G) = Cardinality(Granted) - 1
      <4>1. t \in Granted
        BY <2>1 DEF Granted
      <4> HIDE DEF G
      <4> QED BY <1>3, <1>4, <4>1, FS_RemoveElement
    <3>5. Granted' = {u \in Users : task'[u].pc = "granted"}
      BY DEF Granted
    <3>6. permits' + Cardinality(Granted') = permits + Cardinality(Granted)
      <4>1. permits' + Cardinality(Granted') = permits + Cardinality(G) + 1
        BY <3>3, <3>5
      <4> HIDE DEF G
      <4> QED BY <1>0, <1>4, <3>3, <3>4, <4>1
    <3> QED BY <3>3, <3>6
  <2>2. CASE task[t].pc # "granted"
    <3>1. /\ waiters' = RemoveFirst(waiters, t) /\ task' = dropped /\ permits' = permits
      BY <1>1, <2>2
    <3>2. /\ waiters' \in Seq(Users) /\ IsInjective(waiters')
          /\ ToSet(waiters') = ToSet(waiters) \ {t}
      BY <1>0, <3>1, RemoveFirstInjective
    <3>3. Granted' = Granted
      BY <1>2, <2>2, <3>1 DEF Granted
    <3>4. ToSet(waiters') = {u \in Users : task'[u].pc = "acquire"}
      BY <1>0, <1>3, <3>1, <3>2
    <3>5. waiters' # <<>> => waiters # <<>>
      BY <1>0, <3>1 DEF RemoveFirst
    <3> QED BY <1>0, <1>2, <3>1, <3>2, <3>3, <3>4, <3>5
  <2> QED BY <2>1, <2>2
<1> HIDE DEF G, A
<1>7. \A u \in Users : u # t /\ task[u].pc = "job" => task'[u].pc = "job"
  BY <1>2, <1>6
<1>8. /\ jobs' \in Seq(JobSet)
      /\ JobsKnowTheirTasks'
      /\ CountIn(jobs', WorkerJobs) = CountIn(jobs, WorkerJobs)
  BY <1>1, <1>7, DetachOK
<1>9. permits' + Cardinality(Granted') + CountIn(jobs', WorkerJobs) = WORKERS
  BY <1>0, <1>4, <1>5, <1>6, <1>8
<1>10. WorkersAreConserved'
  BY <1>6, <1>8, <1>9, ConservedNext
<1>11. PoolTyped'
  BY <1>6, <1>8 DEF PoolTyped
<1>12. task'[t] = NoTask
  BY <1>2, <1>6
<1>13. \A u \in Users : u # t => /\ task'[u].pc = "none" <=> task[u].pc = "none"
                                 /\ task'[u].id = task[u].id
                                 /\ task'[u].method = task[u].method
  BY <1>2, <1>6
<1>14. TasksTyped'
  <2>1. ASSUME NEW u \in Users, u # t
        PROVE  /\ task'[u].pc = "none" => task'[u] = NoTask
               /\ u \in Programs => task'[u].pc \in {"none", "acquire", "granted", "job"}
    BY <1>2, <1>6, <2>1 DEF TasksTyped
  <2> QED BY <1>6, <1>12, <2>1, NoTaskType DEF TasksTyped, Users
<1> QED BY <1>8, <1>10, <1>11, <1>12, <1>13, <1>14

-----------------------------------------------------------------------------
(* The steps. *)

\* An answer fits into the queue and ends its task, or the task waits with it.
\* The jobs may change meanwhile, as when a deadline detaches one.
LEMMA AnswerOK ==
  ASSUME IndInv, NEW t \in Live, NEW r \in Replying, Answer(t, r),
         task[t].pc \notin {"acquire", "granted"},
         UNCHANGED <<phase, writing, asked, permits, waiters>>,
         (jobs' = jobs /\ task[t].pc # "job") \/ jobs' = Detach(t),
         initialized' \in BOOLEAN
  PROVE  IndInv'
<1> USE DEF IndInv, Typed
<1>0. /\ t \in Tasks /\ t \in Users /\ t \notin Programs /\ task \in [Users -> Task]
      /\ task[t].pc # "none" /\ task[t].id \in RequestIds /\ task[t].id \in Frames
      /\ TasksAreRequests /\ TasksTyped /\ PoolTyped /\ OutputTyped
      /\ JobsKnowTheirTasks /\ WorkersAreConserved /\ AnswersCounted
  BY SessionAssumption DEF SessionAssumption, Live, Users, TasksTyped, TasksAreRequests, Frames
<1>1. /\ task' \in [Users -> Task]
      /\ \A u \in Users : u # t => task'[u] = task[u]
      /\ task'[t].pc \in {"none", "answer", "shutdown"}
      /\ task'[t].pc = "none" => task'[t] = NoTask
      /\ task'[t] = NoTask \/ (task'[t].id = task[t].id /\ task'[t].method = task[t].method)
  <2>1. task' = [task EXCEPT ![t] = NoTask] \/ task' = [task EXCEPT ![t].pc = r]
    BY DEF Answer
  <2>2. CASE task' = [task EXCEPT ![t] = NoTask]
    <3>1. task'[t] = NoTask
      BY <1>0, <2>2
    <3>2. NoTask \in Task /\ NoTask.pc = "none"
      BY NoTaskType
    <3>3. task' \in [Users -> Task]
      BY <1>0, <2>2, <3>2
    <3>4. \A u \in Users : u # t => task'[u] = task[u]
      BY <1>0, <2>2
    <3>5. task'[t].pc = "none"
      BY <3>1, <3>2
    <3>6. task'[t].pc \in {"none", "answer", "shutdown"}
      BY <3>5
    <3> QED BY <3>1, <3>3, <3>4, <3>6
  <2>3. CASE task' = [task EXCEPT ![t].pc = r]
    <3>1. task[t] \in Task /\ r \in {"answer", "shutdown"}
      BY <1>0 DEF Replying
    <3> QED BY <1>0, <2>3, <3>1 DEF Task, PCs
  <2> QED BY <2>1, <2>2, <2>3
<1>2. TasksTyped'
  <2>1. ASSUME NEW u \in Users, task'[u].pc = "none"
        PROVE  task'[u] = NoTask
    BY <1>0, <1>1, <2>1 DEF TasksTyped
  <2>2. ASSUME NEW p \in Programs
        PROVE  task'[p].pc \in {"none", "acquire", "granted", "job"}
    <3>1. p \in Users /\ p # t
      BY <1>0 DEF Users
    <3> QED BY <1>0, <1>1, <3>1 DEF TasksTyped
  <2> QED BY <1>1, <2>1, <2>2 DEF TasksTyped
<1>3. PoolTyped' /\ JobsKnowTheirTasks' /\ WorkersAreConserved'
  <2>1. Granted' = Granted /\ {u \in Users : task'[u].pc = "acquire"} = {u \in Users : task[u].pc = "acquire"}
    BY <1>0, <1>1 DEF Granted
  <2>2. CASE jobs' = jobs /\ task[t].pc # "job"
    <3>1. JobsKnowTheirTasks'
      BY <1>0, <1>1, <2>2 DEF JobsKnowTheirTasks
    <3>2. WorkersAreConserved'
      BY <1>0, <2>1, <2>2 DEF WorkersAreConserved
    <3> QED BY <1>0, <2>2, <3>1, <3>2 DEF PoolTyped
  <2>3. CASE jobs' = Detach(t)
    <3>1. \A u \in Users : u # t /\ task[u].pc = "job" => task'[u].pc = "job"
      BY <1>1
    <3>2. /\ jobs' \in Seq(JobSet)
          /\ JobsKnowTheirTasks'
          /\ CountIn(jobs', WorkerJobs) = CountIn(jobs, WorkerJobs)
      BY <1>0, <2>3, <3>1, DetachOK
    <3>3. /\ permits' + Cardinality(Granted') + CountIn(jobs', WorkerJobs) = WORKERS
          /\ waiters' # <<>> => permits' = 0
          /\ ToSet(waiters') = {u \in Users : task'[u].pc = "acquire"}
      BY <1>0, <2>1, <3>2, Conserved DEF WorkersAreConserved
    <3>4. WorkersAreConserved'
      BY <3>2, <3>3, ConservedNext
    <3> QED BY <1>0, <3>2, <3>4 DEF PoolTyped
  <2> QED BY <2>2, <2>3
<1>4. CASE ControlRoom(q)
  <2>1. /\ q' = PushControl(q, task[t].id) /\ Release(t) /\ task'[t] = NoTask
        /\ shutdown' = (shutdown \/ r = "shutdown")
    BY <1>0, <1>4 DEF Answer
  <2>2. /\ DOMAIN q' = DOMAIN q /\ q'.control \in Seq(Frames)
        /\ \A i \in RequestIds : Answers(i)' = Answers(i) + (IF i = task[t].id THEN 1 ELSE 0)
    BY <1>0, <2>1, PushAnswer
  <2>3. \A u \in Tasks : u # t => task'[u] = task[u]
    BY <1>1 DEF Users
  <2>4. /\ TasksAreRequests'
        /\ \A j \in RequestIds :
             Cardinality({u \in Live : task[u].id = j}')
               = Cardinality({u \in Live : task[u].id = j}) - (IF j = task[t].id THEN 1 ELSE 0)
    BY <1>0, <1>1, <2>1, <2>3, ReleaseOK
  <2>5. AnswersCounted'
    BY <1>0, <2>2, <2>4, CountsOK
  <2>6. OutputTyped'
    BY <1>0, <2>2 DEF OutputTyped
  <2>7. Flags'
    BY <2>1 DEF Flags
  <2> QED BY <1>2, <1>3, <2>4, <2>5, <2>6, <2>7
<1>5. CASE ~ControlRoom(q)
  <2>1. /\ task' = [task EXCEPT ![t].pc = r]
        /\ UNCHANGED <<q, shutdown, ids, slots>>
    BY <1>5 DEF Answer
  <2>2. \A u \in Tasks : /\ task'[u].pc = "none" <=> task[u].pc = "none"
                         /\ task'[u].id = task[u].id
                         /\ task'[u].method = task[u].method
    BY <1>0, <2>1 DEF Replying, Users
  <2>3. /\ TasksAreRequests'
        /\ \A i \in RequestIds : {u \in Live : task[u].id = i}' = {u \in Live : task[u].id = i}
    BY <1>0, <2>1, <2>2, SameRequests
  <2>4. AnswersCounted'
    BY <1>0, <2>1, <2>3, SameAnswers
  <2>5. OutputTyped' /\ Flags'
    BY <1>0, <2>1 DEF OutputTyped, Flags
  <2> QED BY <1>2, <1>3, <2>3, <2>4, <2>5
<1> QED BY <1>4, <1>5

\* A user that goes on to another wait.
LEMMA MoveOn ==
  ASSUME TasksTyped, NEW t \in Users, NEW p \in PCs \ {"none"},
         task' = [task EXCEPT ![t].pc = p],
         t \in Programs \/ task[t].pc # "none",
         t \in Programs => p \in {"acquire", "granted", "job"}
  PROVE  /\ TasksTyped'
         /\ task'[t].pc = p /\ \A u \in Users : u # t => task'[u] = task[u]
         /\ \A u \in Tasks : /\ task'[u].pc = "none" <=> task[u].pc = "none"
                             /\ task'[u].id = task[u].id
                             /\ task'[u].method = task[u].method
<1>0. task \in [Users -> Task]
  BY DEF TasksTyped
<1>1. task[t] \in Task
  BY <1>0
<1>2. /\ task'[t] = [task[t] EXCEPT !.pc = p]
      /\ \A u \in Users : u # t => task'[u] = task[u]
  BY <1>0
<1>3. /\ task'[t] \in Task /\ task'[t].pc = p
      /\ task'[t].id = task[t].id /\ task'[t].method = task[t].method
  BY <1>1, <1>2 DEF Task
<1>4. task' \in [Users -> Task]
  BY <1>0, <1>3
<1>5. ASSUME NEW u \in Users, task'[u].pc = "none"
      PROVE  task'[u] = NoTask
  BY <1>2, <1>3, <1>5 DEF TasksTyped
<1>6. ASSUME NEW u \in Programs
      PROVE  task'[u].pc \in {"none", "acquire", "granted", "job"}
  BY <1>2, <1>3 DEF TasksTyped, Users
<1>7. TasksTyped'
  BY <1>4, <1>5, <1>6 DEF TasksTyped
<1>8. ASSUME NEW u \in Tasks
      PROVE  /\ task'[u].pc = "none" <=> task[u].pc = "none"
             /\ task'[u].id = task[u].id
             /\ task'[u].method = task[u].method
  <2>1. CASE u = t
    <3>1. t \notin Programs
      BY <2>1, SessionAssumption DEF SessionAssumption
    <3> QED BY <1>3, <2>1, <3>1
  <2>2. CASE u # t
    BY <1>2, <2>2 DEF Users
  <2> QED BY <2>1, <2>2
<1> QED BY <1>2, <1>3, <1>7, <1>8

\* A step of the workers: the requests and their answers stay as they are.
LEMMA WorkerStep ==
  ASSUME IndInv, UNCHANGED <<loop, output, ids, slots>>,
         \A u \in Tasks : /\ task'[u].pc = "none" <=> task[u].pc = "none"
                          /\ task'[u].id = task[u].id
                          /\ task'[u].method = task[u].method,
         PoolTyped', TasksTyped', JobsKnowTheirTasks', WorkersAreConserved'
  PROVE  IndInv'
<1>0. TasksAreRequests /\ AnswersCounted /\ OutputTyped /\ Flags
  BY DEF IndInv, Typed
<1>1. /\ TasksAreRequests'
      /\ \A i \in RequestIds : {u \in Live : task[u].id = i}' = {u \in Live : task[u].id = i}
  BY <1>0, SameRequests
<1>2. AnswersCounted'
  BY <1>0, <1>1, SameAnswers DEF loop, output
<1>3. OutputTyped' /\ Flags'
  BY <1>0 DEF OutputTyped, Flags, loop, output
<1> QED BY <1>1, <1>2, <1>3 DEF IndInv, Typed

\* A refusal is an answer that is queued at once; without room for it the
\* session ends.
LEMMA RefuseOK ==
  ASSUME IndInv, NEW f \in Frames, NEW more \in [RequestIds -> Int], Refuse(f, more),
         \A i \in RequestIds : more[i] = asked[i] + (IF i = f THEN 1 ELSE 0),
         UNCHANGED <<initialized, shutdown, writing, ids, slots, task, pool>>
  PROVE  IndInv'
<1>0. /\ TasksAreRequests /\ AnswersCounted /\ OutputTyped /\ Flags /\ TasksTyped /\ PoolTyped
      /\ JobsKnowTheirTasks /\ WorkersAreConserved
  BY DEF IndInv, Typed
<1>1. /\ TasksAreRequests'
      /\ \A i \in RequestIds : {u \in Live : task[u].id = i}' = {u \in Live : task[u].id = i}
  BY <1>0, SameRequests
<1>2. JobsKnowTheirTasks' /\ WorkersAreConserved'
  BY <1>0, SameWorkers
<1>3. TasksTyped' /\ PoolTyped'
  BY <1>0 DEF TasksTyped, PoolTyped, pool
<1>4. CASE ControlRoom(q)
  <2>1. q' = PushControl(q, f) /\ asked' = more /\ phase' = phase
    BY <1>4 DEF Refuse
  <2>2. /\ DOMAIN q' = DOMAIN q /\ q'.control \in Seq(Frames)
        /\ \A i \in RequestIds : Answers(i)' = Answers(i) + (IF i = f THEN 1 ELSE 0)
    BY <1>0, <2>1, PushAnswer
  <2>3. OutputTyped' /\ Flags'
    BY <1>0, <2>1, <2>2 DEF OutputTyped, Flags
  <2>4. ASSUME NEW i \in RequestIds, phase' = "open"
        PROVE  asked'[i] = Cardinality({u \in Live : task[u].id = i}') + Answers(i)'
    <3>1. asked[i] = Cardinality({u \in Live : task[u].id = i}) + Answers(i)
      BY <1>0, <2>1, <2>4 DEF AnswersCounted
    <3>2. Cardinality({u \in Live : task[u].id = i}) \in Nat
      BY LiveFinite
    <3>3. Answers(i) \in Int
      <4>1. CountIn(q.control, {i}) \in Nat
        BY <1>0, CountType DEF OutputTyped
      <4> QED BY <4>1, AnswersAre
    <3>4. asked'[i] = asked[i] + (IF i = f THEN 1 ELSE 0)
      BY <2>1
    <3>5. Answers(i)' = Answers(i) + (IF i = f THEN 1 ELSE 0)
      BY <2>2
    <3>6. Cardinality({u \in Live : task[u].id = i}') = Cardinality({u \in Live : task[u].id = i})
      BY <1>1
    <3> QED BY <3>1, <3>2, <3>3, <3>4, <3>5, <3>6
  <2>5. AnswersCounted'
    BY <2>4 DEF AnswersCounted
  <2> QED BY <1>1, <1>2, <1>3, <2>3, <2>5 DEF IndInv, Typed
<1>5. CASE ~ControlRoom(q)
  <2>1. asked' = NoneAsked /\ phase' = "ending" /\ q' = q
    BY <1>5 DEF Refuse, NoRoom
  <2>2. OutputTyped' /\ Flags'
    BY <1>0, <2>1 DEF OutputTyped, Flags, NoneAsked
  <2>3. AnswersCounted'
    BY <2>1 DEF AnswersCounted
  <2> QED BY <1>1, <1>2, <1>3, <2>2, <2>3 DEF IndInv, Typed
<1> QED BY <1>4, <1>5

\* The session starts without requests, with all slots and permits free.
LEMMA InitOK == Init => IndInv
<1> SUFFICES ASSUME Init PROVE IndInv
  OBVIOUS
<1>1. /\ phase = "open" /\ initialized = FALSE /\ shutdown = FALSE
      /\ q = EmptyQueues /\ writing = NoFrame /\ ids = {} /\ slots = SLOTS
      /\ task = [t \in Users |-> NoTask]
      /\ permits = WORKERS /\ waiters = <<>> /\ jobs = <<>> /\ asked = NoneAsked
  BY DEF Init
<1>2. \A u \in Users : task[u] = NoTask /\ task[u] \in Task /\ task[u].pc = "none"
  BY <1>1, NoTaskType
<1>3. Live = {} /\ Granted = {} /\ {u \in Users : task[u].pc = "acquire"} = {}
  BY <1>2 DEF Live, Granted, Users
<1>4. Cardinality({}) = 0
  BY FS_EmptySet
<1>5. Flags
  BY <1>1 DEF Flags
<1>6. OutputTyped
  BY <1>1 DEF OutputTyped, EmptyQueues, NoneAsked
<1>7. TasksTyped
  <2>1. task \in [Users -> Task]
    BY <1>1, NoTaskType
  <2> QED BY <1>2, <2>1 DEF TasksTyped, Users
<1>8. PoolTyped
  <2>1. waiters \in Seq(Users) /\ IsInjective(waiters) /\ jobs \in Seq(JobSet)
    BY <1>1 DEF IsInjective
  <2> QED BY <1>1, <2>1, SessionAssumption DEF PoolTyped, SessionAssumption
<1>9. TasksAreRequests
  <2>1. {t \in Live : Slotted(task[t].method)} = {} /\ {task[t].id : t \in Live} = {}
    BY <1>3
  <2> QED BY <1>1, <1>3, <1>4, <2>1, SessionAssumption DEF TasksAreRequests, SessionAssumption
<1>10. JobsKnowTheirTasks
  BY <1>1 DEF JobsKnowTheirTasks
<1>11. AnswersCounted
  <2> SUFFICES ASSUME NEW i \in RequestIds
               PROVE  asked[i] = Cardinality({t \in Live : task[t].id = i}) + Answers(i)
    BY DEF AnswersCounted
  <2>1. {t \in Live : task[t].id = i} = {}
    BY <1>3
  <2>2. {k \in DOMAIN q.control : q.control[k] = i} = {}
    BY <1>1 DEF EmptyQueues
  <2>3. writing # i
    BY <1>1, SessionAssumption DEF SessionAssumption
  <2>4. Answers(i) = 0
    BY <1>4, <2>2, <2>3 DEF Answers
  <2>5. asked[i] = 0
    BY <1>1 DEF NoneAsked
  <2> QED BY <1>4, <2>1, <2>4, <2>5
<1>12. WorkersAreConserved
  <2>1. {k \in DOMAIN jobs : jobs[k].worker} = {}
    BY <1>1
  <2>2. ToSet(waiters) = {}
    BY <1>1 DEF ToSet
  <2> QED BY <1>1, <1>3, <1>4, <2>1, <2>2, SessionAssumption DEF WorkersAreConserved, SessionAssumption
<1> QED BY <1>5, <1>6, <1>7, <1>8, <1>9, <1>10, <1>11, <1>12 DEF IndInv, Typed

\* A frame that is read is refused, or its request gets a task.
LEMMA ReceiveOK ==
  ASSUME IndInv, NEW i \in RequestIds, NEW m \in Methods, Receive(i, m)
  PROVE  IndInv'
<1> DEFINE more == [asked EXCEPT ![i] = @ + 1]
<1>0. /\ TasksAreRequests /\ AnswersCounted /\ OutputTyped /\ Flags /\ TasksTyped /\ PoolTyped
      /\ JobsKnowTheirTasks /\ WorkersAreConserved
  BY DEF IndInv, Typed
<1>1. /\ more \in [RequestIds -> Int]
      /\ \A j \in RequestIds : more[j] = asked[j] + (IF j = i THEN 1 ELSE 0)
  <2>1. asked \in [RequestIds -> Int]
    BY <1>0 DEF OutputTyped
  <2>2. \A j \in RequestIds : asked[j] \in Int
    BY <2>1
  <2> QED BY <2>1, <2>2
<1>2. UNCHANGED <<initialized, shutdown, writing, pool>>
  BY DEF Receive
<1>3. CASE Refuse(i, more) /\ UNCHANGED <<ids, slots, task>>
  <2> HIDE DEF more
  <2>1. i \in Frames
    BY DEF Frames
  <2> QED BY <1>1, <1>2, <1>3, <2>1, RefuseOK
<1>4. CASE /\ i \notin ids /\ (Slotted(m) => slots > 0) /\ Idle # {}
           /\ Admit(FreeTask, i, m)
           /\ asked' = more
  <2> HIDE DEF more
  <2>1. PICK t \in Idle : Admit(t, i, m)
    BY <1>4 DEF FreeTask
  <2>2. /\ TasksTyped'
        /\ TasksAreRequests'
        /\ \A j \in RequestIds :
             Cardinality({u \in Live : task[u].id = j}')
               = Cardinality({u \in Live : task[u].id = j}) + (IF j = i THEN 1 ELSE 0)
    BY <1>0, <1>4, <2>1, AdmitOK
  <2>3. t \in Tasks /\ t \in Users /\ task[t].pc = "none" /\ task'[t].pc = "spawned"
        /\ \A u \in Users : u # t => task'[u] = task[u]
    BY <1>0, <2>1 DEF Idle, Live, Users, Admit, TasksTyped
  <2>4. JobsKnowTheirTasks' /\ WorkersAreConserved'
    BY <1>0, <1>2, <2>3, SameWorkers
  <2>5. phase' = phase /\ q' = q
    BY <2>1 DEF Admit
  <2>6. OutputTyped' /\ Flags' /\ PoolTyped'
    BY <1>0, <1>1, <1>2, <1>4, <2>5 DEF OutputTyped, Flags, PoolTyped, pool
  <2>7. ASSUME NEW j \in RequestIds, phase' = "open"
        PROVE  asked'[j] = Cardinality({u \in Live : task[u].id = j}') + Answers(j)'
    <3>1. asked[j] = Cardinality({u \in Live : task[u].id = j}) + Answers(j)
      BY <1>0, <2>5, <2>7 DEF AnswersCounted
    <3>2. Cardinality({u \in Live : task[u].id = j}) \in Nat
      BY LiveFinite
    <3>3. Answers(j) \in Int
      <4>1. CountIn(q.control, {j}) \in Nat
        BY <1>0, CountType DEF OutputTyped
      <4> QED BY <4>1, AnswersAre
    <3>4. asked'[j] = asked[j] + (IF j = i THEN 1 ELSE 0)
      BY <1>1, <1>4
    <3>5. Answers(j)' = Answers(j)
      BY <1>2, <2>5 DEF Answers
    <3>6. Cardinality({u \in Live : task[u].id = j}')
            = Cardinality({u \in Live : task[u].id = j}) + (IF j = i THEN 1 ELSE 0)
      BY <2>2
    <3> QED BY <3>1, <3>2, <3>3, <3>4, <3>5, <3>6
  <2>8. AnswersCounted'
    BY <2>7 DEF AnswersCounted
  <2> QED BY <2>2, <2>4, <2>6, <2>8 DEF IndInv, Typed
<1> QED BY <1>3, <1>4 DEF Receive

\* A poll of a request task.
LEMMA TaskPollOK ==
  ASSUME IndInv, NEW t \in Tasks, TaskPoll(t) \/ CompilerNeedsCode(t)
  PROVE  IndInv'
<1>0. /\ PoolTyped /\ TasksTyped /\ JobsKnowTheirTasks /\ WorkersAreConserved /\ Flags
      /\ task \in [Users -> Task] /\ t \in Users
  BY DEF IndInv, Typed, TasksTyped, Users
<1>1. CASE Resume(t)
  <2>1. task[t].pc \in Replying /\ t \in Live
    BY <1>1 DEF Resume, Replying, Live
  <2>2. /\ Answer(t, task[t].pc) /\ jobs' = jobs
        /\ UNCHANGED <<phase, writing, asked, permits, waiters>> /\ initialized' = initialized
    BY <1>1 DEF Resume, pool
  <2>3. task[t].pc \notin {"acquire", "granted"} /\ task[t].pc # "job"
    BY <2>1 DEF Replying
  <2> QED BY <1>0, <2>1, <2>2, <2>3, AnswerOK DEF Flags
<1>2. CASE HandleNow(t)
  <2>1. task[t].pc = "spawned" /\ t \in Live
    BY <1>2 DEF HandleNow, Live
  <2>2. PICK r \in Replying : Answer(t, r)
    BY <1>2 DEF HandleNow, Replying
  <2>3. /\ jobs' = jobs /\ initialized' \in BOOLEAN
        /\ UNCHANGED <<phase, writing, asked, permits, waiters>>
    BY <1>0, <1>2 DEF HandleNow, pool, Flags
  <2> QED BY <2>1, <2>2, <2>3, AnswerOK
<1>3. CASE HandleReturns(t)
  <2>1. task[t].pc \in {"stopping", "loaded", "compiling"} /\ t \in Live
    BY <1>3 DEF HandleReturns, Live
  <2>2. /\ Answer(t, "answer") /\ jobs' = jobs
        /\ UNCHANGED <<phase, writing, asked, permits, waiters>> /\ initialized' = initialized
    BY <1>3 DEF HandleReturns, pool
  <2>3. "answer" \in Replying
    BY DEF Replying
  <2> QED BY <1>0, <2>1, <2>2, <2>3, AnswerOK DEF Flags
<1>4. CASE CompilerDeadline(t)
  <2>1. task[t].pc \in {"job", "compiling"} /\ t \in Live
    BY <1>4 DEF CompilerDeadline, Live
  <2>2. /\ Answer(t, "answer") /\ jobs' = Detach(t)
        /\ UNCHANGED <<phase, writing, asked, permits, waiters>> /\ initialized' = initialized
    BY <1>4 DEF CompilerDeadline
  <2>3. "answer" \in Replying
    BY DEF Replying
  <2> QED BY <1>0, <2>1, <2>2, <2>3, AnswerOK DEF Flags
<1>5. ASSUME NEW p \in PCs \ {"none"}, task' = [task EXCEPT ![t].pc = p], task[t].pc # "none",
             PoolTyped', JobsKnowTheirTasks', WorkersAreConserved',
             UNCHANGED <<loop, output, ids, slots>>
      PROVE  IndInv'
  <2>1. t \notin Programs
    BY SessionAssumption DEF SessionAssumption
  <2>2. /\ TasksTyped'
        /\ \A u \in Tasks : /\ task'[u].pc = "none" <=> task[u].pc = "none"
                            /\ task'[u].id = task[u].id
                            /\ task'[u].method = task[u].method
    BY <1>0, <1>5, <2>1, MoveOn
  <2> QED BY <1>5, <2>2, WorkerStep
<1>6. ASSUME task[t].pc \notin {"none", "acquire", "granted", "job"},
             jobs' = Append(jobs, Job(t, FALSE)), task' = [task EXCEPT ![t].pc = "job"],
             UNCHANGED <<loop, output, ids, slots, permits, waiters>>
      PROVE  IndInv'
  <2>1. /\ jobs' \in Seq(JobSet)
        /\ JobsKnowTheirTasks'
        /\ CountIn(jobs', WorkerJobs) = CountIn(jobs, WorkerJobs)
    <3>1. /\ jobs' \in Seq(JobSet)
          /\ JobsKnowTheirTasks'
          /\ CountIn(jobs', WorkerJobs) = CountIn(jobs, WorkerJobs) + 0
      BY <1>0, <1>6, JobQueued
    <3>2. CountIn(jobs, WorkerJobs) \in Nat
      BY <1>0, WorkersAre DEF PoolTyped
    <3> QED BY <3>1, <3>2
  <2>2. Granted' = Granted /\ {u \in Users : task'[u].pc = "acquire"} = {u \in Users : task[u].pc = "acquire"}
    BY <1>0, <1>6 DEF Granted
  <2>3. /\ permits' + Cardinality(Granted') + CountIn(jobs', WorkerJobs) = WORKERS
        /\ waiters' # <<>> => permits' = 0
        /\ ToSet(waiters') = {u \in Users : task'[u].pc = "acquire"}
    BY <1>0, <1>6, <2>1, <2>2, Conserved DEF WorkersAreConserved
  <2>4. WorkersAreConserved'
    BY <2>1, <2>3, ConservedNext
  <2>5. PoolTyped'
    BY <1>0, <1>6, <2>1 DEF PoolTyped
  <2>6. "job" \in PCs \ {"none"}
    BY DEF PCs
  <2> QED BY <1>5, <1>6, <2>1, <2>4, <2>5, <2>6
<1>7. CASE HandleWaits(t)
  <2>1. task[t].pc = "spawned" /\ UNCHANGED <<loop, output, ids, slots>>
    BY <1>7 DEF HandleWaits
  <2>2. CASE task' = [task EXCEPT ![t].pc = "stopping"] /\ UNCHANGED pool
    <3>1. \A u \in Users : \/ task'[u].pc = task[u].pc
                           \/ /\ task[u].pc \notin {"acquire", "granted", "job"}
                              /\ task'[u].pc \notin {"acquire", "granted", "job"}
      BY <1>0, <2>1, <2>2
    <3>2. JobsKnowTheirTasks' /\ WorkersAreConserved'
      BY <1>0, <2>2, <3>1, SameWorkers
    <3>3. PoolTyped'
      BY <1>0, <2>2 DEF PoolTyped, pool
    <3>4. "stopping" \in PCs \ {"none"}
      BY DEF PCs
    <3> QED BY <1>5, <2>1, <2>2, <3>2, <3>3, <3>4
  <2>3. CASE AcquireWorker(t)
    <3>1. /\ PoolTyped' /\ JobsKnowTheirTasks' /\ WorkersAreConserved'
          /\ \/ task' = [task EXCEPT ![t].pc = "job"]
             \/ task' = [task EXCEPT ![t].pc = "acquire"]
      BY <1>0, <2>1, <2>3, AcquireWorkerOK
    <3>2. "job" \in PCs \ {"none"} /\ "acquire" \in PCs \ {"none"}
      BY DEF PCs
    <3> QED BY <1>5, <2>1, <3>1, <3>2
  <2>4. CASE /\ jobs' = Append(jobs, Job(t, FALSE)) /\ task' = [task EXCEPT ![t].pc = "job"]
             /\ UNCHANGED <<permits, waiters>>
    BY <1>6, <2>1, <2>4
  <2> QED BY <1>7, <2>2, <2>3, <2>4 DEF HandleWaits
<1>8. CASE CompilerRuns(t)
  <2>1. /\ task[t].pc = "loaded" /\ task' = [task EXCEPT ![t].pc = "compiling"]
        /\ UNCHANGED <<loop, output, ids, slots, pool>>
    BY <1>8 DEF CompilerRuns
  <2>2. \A u \in Users : \/ task'[u].pc = task[u].pc
                         \/ /\ task[u].pc \notin {"acquire", "granted", "job"}
                            /\ task'[u].pc \notin {"acquire", "granted", "job"}
    BY <1>0, <2>1
  <2>3. JobsKnowTheirTasks' /\ WorkersAreConserved'
    BY <1>0, <2>1, <2>2, SameWorkers
  <2>4. PoolTyped'
    BY <1>0, <2>1 DEF PoolTyped, pool
  <2>5. "compiling" \in PCs \ {"none"}
    BY DEF PCs
  <2> QED BY <1>5, <2>1, <2>3, <2>4, <2>5
<1>9. CASE CompilerNeedsCode(t)
  <2>1. /\ task[t].pc = "compiling"
        /\ jobs' = Append(jobs, Job(t, FALSE)) /\ task' = [task EXCEPT ![t].pc = "job"]
        /\ UNCHANGED <<loop, output, ids, slots, permits, waiters>>
    BY <1>9 DEF CompilerNeedsCode
  <2> QED BY <1>6, <2>1
<1> QED BY <1>1, <1>2, <1>3, <1>4, <1>7, <1>8, <1>9 DEF TaskPoll

\* A task that was handed a permit queues its job under it.
LEMMA UseWorkerOK ==
  ASSUME IndInv, NEW t \in Users, UseWorker(t)
  PROVE  IndInv'
<1>0. /\ PoolTyped /\ TasksTyped /\ JobsKnowTheirTasks /\ WorkersAreConserved
      /\ task \in [Users -> Task] /\ permits \in Nat
  BY DEF IndInv, Typed, TasksTyped, PoolTyped
<1>1. /\ task[t].pc = "granted" /\ jobs' = Append(jobs, Job(t, TRUE))
      /\ task' = [task EXCEPT ![t].pc = "job"]
      /\ UNCHANGED <<loop, output, ids, slots, permits, waiters>>
  BY DEF UseWorker
<1>2. /\ jobs' \in Seq(JobSet)
      /\ JobsKnowTheirTasks'
      /\ CountIn(jobs', WorkerJobs) = CountIn(jobs, WorkerJobs) + 1
  BY <1>0, <1>1, JobQueued
<1>3. IsFiniteSet(Granted) /\ Cardinality(Granted) \in Nat
  <2>1. Granted \in SUBSET Users
    BY DEF Granted
  <2> QED BY <2>1, UsersFinite
<1>4. Cardinality(Granted') = Cardinality(Granted) - 1
  <2>1. Granted' = Granted \ {t} /\ t \in Granted
    BY <1>0, <1>1 DEF Granted
  <2> QED BY <1>3, <2>1, FS_RemoveElement
<1>5. permits' + Cardinality(Granted') + CountIn(jobs', WorkerJobs) = WORKERS
  <2>1. permits + Cardinality(Granted) + CountIn(jobs, WorkerJobs) = WORKERS
    BY <1>0, Conserved
  <2>2. CountIn(jobs, WorkerJobs) \in Nat
    BY <1>0, WorkersAre DEF PoolTyped
  <2>3. permits' = permits
    BY <1>1
  <2>4. CountIn(jobs', WorkerJobs) = CountIn(jobs, WorkerJobs) + 1
    BY <1>2
  <2> QED BY <1>0, <1>3, <1>4, <2>1, <2>2, <2>3, <2>4
<1>6. WorkersAreConserved'
  <2>1. {u \in Users : task'[u].pc = "acquire"} = {u \in Users : task[u].pc = "acquire"}
    BY <1>0, <1>1
  <2>2. /\ waiters' # <<>> => permits' = 0
        /\ ToSet(waiters') = {u \in Users : task'[u].pc = "acquire"}
    BY <1>0, <1>1, <2>1 DEF WorkersAreConserved
  <2> QED BY <1>2, <1>5, <2>2, ConservedNext
<1>7. PoolTyped'
  BY <1>0, <1>1, <1>2 DEF PoolTyped
<1>8. /\ TasksTyped'
      /\ \A u \in Tasks : /\ task'[u].pc = "none" <=> task[u].pc = "none"
                          /\ task'[u].id = task[u].id
                          /\ task'[u].method = task[u].method
  <2>1. "job" \in PCs \ {"none"} /\ task[t].pc # "none"
    BY <1>1 DEF PCs
  <2> QED BY <1>0, <1>1, <2>1, MoveOn
<1> QED BY <1>1, <1>2, <1>6, <1>7, <1>8, WorkerStep

\* A program meets code that is not compiled yet.
LEMMA ProgramNeedsCodeOK ==
  ASSUME IndInv, NEW p \in Programs, ProgramNeedsCode(p)
  PROVE  IndInv'
<1>0. /\ PoolTyped /\ TasksTyped /\ JobsKnowTheirTasks /\ WorkersAreConserved /\ p \in Users
  BY DEF IndInv, Typed, Users
<1>1. task[p].pc = "none" /\ AcquireWorker(p) /\ UNCHANGED <<loop, output, ids, slots>>
  BY NoTaskType DEF ProgramNeedsCode
<1>2. /\ PoolTyped' /\ JobsKnowTheirTasks' /\ WorkersAreConserved'
      /\ \/ task' = [task EXCEPT ![p].pc = "job"]
         \/ task' = [task EXCEPT ![p].pc = "acquire"]
  BY <1>0, <1>1, AcquireWorkerOK
<1>3. "job" \in PCs \ {"none"} /\ "acquire" \in PCs \ {"none"}
  BY DEF PCs
<1>4. /\ TasksTyped'
      /\ \A u \in Tasks : /\ task'[u].pc = "none" <=> task[u].pc = "none"
                          /\ task'[u].id = task[u].id
                          /\ task'[u].method = task[u].method
  <2>1. CASE task' = [task EXCEPT ![p].pc = "job"]
    BY <1>0, <1>3, <2>1, MoveOn
  <2>2. CASE task' = [task EXCEPT ![p].pc = "acquire"]
    BY <1>0, <1>3, <2>2, MoveOn
  <2> QED BY <1>2, <2>1, <2>2
<1> QED BY <1>1, <1>2, <1>4, WorkerStep

\* The end of the session drops a request task: its id, its slot and its place
\* among the workers.
LEMMA AbortTaskOK ==
  ASSUME IndInv, NEW t \in Tasks, AbortTask(t)
  PROVE  IndInv'
<1>0. /\ PoolTyped /\ TasksTyped /\ JobsKnowTheirTasks /\ WorkersAreConserved
      /\ TasksAreRequests /\ OutputTyped /\ Flags /\ t \in Users /\ t \in Live
  BY DEF IndInv, Typed, Users, AbortTask
<1>1. phase = "ending" /\ Release(t) /\ Drop(t) /\ UNCHANGED <<loop, output>>
  BY DEF AbortTask
<1>2. /\ PoolTyped' /\ TasksTyped' /\ JobsKnowTheirTasks' /\ WorkersAreConserved'
      /\ task'[t] = NoTask
      /\ \A u \in Users : u # t => /\ task'[u].pc = "none" <=> task[u].pc = "none"
                                   /\ task'[u].id = task[u].id
                                   /\ task'[u].method = task[u].method
  BY <1>0, <1>1, DropOK
<1>3. TasksAreRequests'
  <2>1. \A u \in Tasks : u # t => /\ task'[u].pc = "none" <=> task[u].pc = "none"
                                  /\ task'[u].id = task[u].id
                                  /\ task'[u].method = task[u].method
    BY <1>2 DEF Users
  <2>2. task' \in [Users -> Task]
    BY <1>2 DEF TasksTyped
  <2> QED BY <1>0, <1>1, <1>2, <2>1, <2>2, ReleaseOK
<1>4. AnswersCounted'
  BY <1>1 DEF AnswersCounted, loop
<1>5. OutputTyped' /\ Flags'
  BY <1>0, <1>1 DEF OutputTyped, Flags, loop, output
<1> QED BY <1>2, <1>3, <1>4, <1>5 DEF IndInv, Typed

\* An object ends, perhaps amid a compilation, and says so without an id.
LEMMA ProgramEndsOK ==
  ASSUME IndInv, NEW p \in Programs, ProgramEnds(p)
  PROVE  IndInv'
<1>0. /\ PoolTyped /\ TasksTyped /\ JobsKnowTheirTasks /\ WorkersAreConserved
      /\ TasksAreRequests /\ OutputTyped /\ Flags /\ AnswersCounted /\ p \in Users
  BY DEF IndInv, Typed, Users
<1>1. /\ Drop(p) /\ q' = (IF ControlRoom(q) THEN PushControl(q, NoId) ELSE q)
      /\ UNCHANGED <<loop, writing, asked, ids, slots>>
  BY DEF ProgramEnds
<1>2. /\ PoolTyped' /\ TasksTyped' /\ JobsKnowTheirTasks' /\ WorkersAreConserved'
      /\ \A u \in Users : u # p => /\ task'[u].pc = "none" <=> task[u].pc = "none"
                                   /\ task'[u].id = task[u].id
                                   /\ task'[u].method = task[u].method
  BY <1>0, <1>1, DropOK
<1>3. /\ TasksAreRequests'
      /\ \A i \in RequestIds : {u \in Live : task[u].id = i}' = {u \in Live : task[u].id = i}
  <2>1. ASSUME NEW u \in Tasks
        PROVE  /\ task'[u].pc = "none" <=> task[u].pc = "none"
               /\ task'[u].id = task[u].id
               /\ task'[u].method = task[u].method
    BY <1>2, SessionAssumption DEF SessionAssumption, Users
  <2> QED BY <1>0, <1>1, <2>1, SameRequests
<1>4. /\ DOMAIN q' = DOMAIN q /\ q'.control \in Seq(Frames)
      /\ \A i \in RequestIds : Answers(i)' = Answers(i)
  <2>1. CASE ControlRoom(q)
    <3>1. q' = PushControl(q, NoId) /\ NoId \in Frames /\ writing' = writing
      BY <1>1, <2>1 DEF Frames
    <3>2. /\ DOMAIN q' = DOMAIN q /\ q'.control \in Seq(Frames)
          /\ \A i \in RequestIds : Answers(i)' = Answers(i) + (IF i = NoId THEN 1 ELSE 0)
      BY <1>0, <3>1, PushAnswer
    <3>3. ASSUME NEW i \in RequestIds
          PROVE  Answers(i)' = Answers(i)
      <4>1. Answers(i) \in Int
        <5>1. CountIn(q.control, {i}) \in Nat
          BY <1>0, CountType DEF OutputTyped
        <5> QED BY <5>1, AnswersAre
      <4>2. i # NoId
        BY SessionAssumption DEF SessionAssumption
      <4> QED BY <3>2, <4>1, <4>2
    <3> QED BY <3>2, <3>3
  <2>2. CASE ~ControlRoom(q)
    BY <1>0, <1>1, <2>2 DEF Answers, OutputTyped
  <2> QED BY <2>1, <2>2
<1>5. AnswersCounted'
  BY <1>0, <1>1, <1>3, <1>4 DEF AnswersCounted, loop
<1>6. OutputTyped' /\ Flags'
  BY <1>0, <1>1, <1>4 DEF OutputTyped, Flags, loop
<1> QED BY <1>2, <1>3, <1>5, <1>6 DEF IndInv, Typed

\* The steps of the writer and of the loop, and a step that changes nothing,
\* leave the tasks alone.
LEMMA SessionStepOK ==
  ASSUME IndInv, WriteStart \/ Written \/ LoopEnds \/ Close \/ UNCHANGED svars
  PROVE  IndInv'
<1>0. /\ PoolTyped /\ TasksTyped /\ JobsKnowTheirTasks /\ WorkersAreConserved
      /\ TasksAreRequests /\ OutputTyped /\ Flags /\ AnswersCounted
  BY DEF IndInv, Typed
<1>1. UNCHANGED <<ids, slots, task, pool>>
  BY DEF WriteStart, Written, LoopEnds, Close, svars
<1>2. /\ TasksAreRequests'
      /\ \A i \in RequestIds : {u \in Live : task[u].id = i}' = {u \in Live : task[u].id = i}
  BY <1>0, <1>1, SameRequests
<1>3. JobsKnowTheirTasks' /\ WorkersAreConserved'
  BY <1>0, <1>1, SameWorkers
<1>4. TasksTyped' /\ PoolTyped'
  BY <1>0, <1>1 DEF TasksTyped, PoolTyped, pool
<1>5. CASE WriteStart
  <2>1. /\ DOMAIN q' = DOMAIN q /\ q'.control \in Seq(Frames) /\ writing' \in Frames
        /\ \A i \in RequestIds : Answers(i)' = Answers(i)
    BY <1>0, <1>5, WriteStartOK
  <2>2. UNCHANGED <<loop, asked>>
    BY <1>5 DEF WriteStart
  <2>3. AnswersCounted'
    BY <1>0, <1>2, <2>1, <2>2 DEF AnswersCounted, loop
  <2>4. OutputTyped' /\ Flags'
    BY <1>0, <2>1, <2>2 DEF OutputTyped, Flags, loop
  <2> QED BY <1>2, <1>3, <1>4, <2>3, <2>4 DEF IndInv, Typed
<1>6. CASE Written
  <2>1. /\ writing # NoFrame /\ writing' = NoFrame /\ UNCHANGED <<loop, q>>
        /\ asked' = [i \in RequestIds |->
                      IF i = writing /\ phase = "open" THEN asked[i] - 1 ELSE asked[i]]
    BY <1>6 DEF Written
  <2>2. asked' \in [RequestIds -> Int]
    BY <1>0, <2>1 DEF OutputTyped
  <2>3. ASSUME NEW i \in RequestIds, phase' = "open"
        PROVE  asked'[i] = Cardinality({u \in Live : task[u].id = i}') + Answers(i)'
    <3>1. asked[i] = Cardinality({u \in Live : task[u].id = i}) + Answers(i)
      BY <1>0, <2>1, <2>3 DEF AnswersCounted, loop
    <3>2. Cardinality({u \in Live : task[u].id = i}) \in Nat
      BY LiveFinite
    <3>3. CountIn(q.control, {i}) \in Nat
      BY <1>0, CountType DEF OutputTyped
    <3>4. Answers(i)' = CountIn(q.control, {i})
      <4>1. writing' # i
        BY <2>1, SessionAssumption DEF SessionAssumption
      <4>2. Answers(i)' = Cardinality({k \in DOMAIN q.control : q.control[k] = i}) + 0
        BY <2>1, <4>1 DEF Answers
      <4>3. CountIn(q.control, {i}) = Cardinality({k \in DOMAIN q.control : q.control[k] = i})
        <5>1. {k \in DOMAIN q.control : q.control[k] = i} = PositionsIn(q.control, {i})
          BY DEF PositionsIn
        <5> QED BY <5>1 DEF CountIn
      <4> QED BY <3>3, <4>2, <4>3
    <3>5. Answers(i) = CountIn(q.control, {i}) + (IF writing = i THEN 1 ELSE 0)
      BY AnswersAre
    <3>6. asked'[i] = IF i = writing THEN asked[i] - 1 ELSE asked[i]
      BY <2>1, <2>3 DEF loop
    <3>7. Cardinality({u \in Live : task[u].id = i}') = Cardinality({u \in Live : task[u].id = i})
      BY <1>2
    <3> QED BY <3>1, <3>2, <3>3, <3>4, <3>5, <3>6, <3>7
  <2>4. AnswersCounted'
    BY <2>3 DEF AnswersCounted
  <2>5. OutputTyped' /\ Flags'
    BY <1>0, <2>1, <2>2 DEF OutputTyped, Flags, loop
  <2> QED BY <1>2, <1>3, <1>4, <2>4, <2>5 DEF IndInv, Typed
<1>7. CASE LoopEnds \/ Close
  <2>1. /\ phase' \in {"ending", "closed"}
        /\ UNCHANGED <<initialized, shutdown, q, writing>> /\ asked' \in {asked, NoneAsked}
    BY <1>7 DEF LoopEnds, Close, output
  <2>2. OutputTyped' /\ Flags'
    BY <1>0, <2>1 DEF OutputTyped, Flags, NoneAsked
  <2>3. AnswersCounted'
    BY <2>1 DEF AnswersCounted
  <2> QED BY <1>2, <1>3, <1>4, <2>2, <2>3 DEF IndInv, Typed
<1>8. CASE UNCHANGED svars
  BY <1>0, <1>2, <1>3, <1>4, <1>8, SameAnswers
     DEF IndInv, Typed, OutputTyped, Flags, svars, loop, output
<1> QED BY <1>5, <1>6, <1>7, <1>8

\* The inductive step, one case for each kind of step.
LEMMA NextOK == IndInv /\ [Next]_svars => IndInv'
<1> SUFFICES ASSUME IndInv, [Next]_svars PROVE IndInv'
  OBVIOUS
<1>0. PoolTyped /\ TasksTyped /\ JobsKnowTheirTasks /\ WorkersAreConserved
  BY DEF IndInv, Typed
<1>1. CASE ReceiveMalformed
  <2>1. /\ Refuse(NoId, asked) /\ NoId \in Frames
        /\ UNCHANGED <<initialized, shutdown, writing, ids, slots, task, pool>>
    BY <1>1 DEF ReceiveMalformed, Frames
  <2>2. /\ asked \in [RequestIds -> Int]
        /\ \A i \in RequestIds : asked[i] = asked[i] + (IF i = NoId THEN 1 ELSE 0)
    BY SessionAssumption DEF SessionAssumption, IndInv, Typed, OutputTyped
  <2> QED BY <2>1, <2>2, RefuseOK
<1>2. CASE \E i \in RequestIds, m \in Methods : Receive(i, m)
  BY <1>2, ReceiveOK
<1>3. CASE \E t \in Tasks : TaskPoll(t) \/ CompilerNeedsCode(t)
  BY <1>3, TaskPollOK
<1>4. CASE \E t \in Tasks : AbortTask(t)
  BY <1>4, AbortTaskOK
<1>5. CASE \E p \in Programs : ProgramNeedsCode(p) \/ ProgramEnds(p)
  BY <1>5, ProgramNeedsCodeOK, ProgramEndsOK
<1>6. CASE \E t \in Users : UseWorker(t)
  BY <1>6, UseWorkerOK
<1>7. CASE \E k \in DOMAIN jobs : JobEnds(k)
  <2>1. PICK k \in DOMAIN jobs : JobEnds(k)
    BY <1>7
  <2>2. /\ PoolTyped' /\ TasksTyped' /\ JobsKnowTheirTasks' /\ WorkersAreConserved'
        /\ \A u \in Tasks : /\ task'[u].pc = "none" <=> task[u].pc = "none"
                            /\ task'[u].id = task[u].id
                            /\ task'[u].method = task[u].method
    BY <1>0, <2>1, JobEndsOK
  <2>3. UNCHANGED <<loop, output, ids, slots>>
    BY <2>1 DEF JobEnds
  <2> QED BY <2>2, <2>3, WorkerStep
<1>8. CASE WriteStart \/ Written \/ LoopEnds \/ Close \/ UNCHANGED svars
  BY <1>8, SessionStepOK
<1> QED BY <1>1, <1>2, <1>3, <1>4, <1>5, <1>6, <1>7, <1>8 DEF Next

-----------------------------------------------------------------------------
(* The theorems. *)

\* The inductive invariant holds in every state the session can reach, under
\* any interleaving of the reader, the request tasks, the programs, the
\* blocking jobs and the writer.
THEOREM InductiveInvariant == Spec => []IndInv
<1>1. Init => IndInv
  BY InitOK
<1>2. IndInv /\ [Next]_svars => IndInv'
  BY NextOK
<1> QED BY <1>1, <1>2, PTL DEF Spec

\* No step of run_blocking(), of a job or of an abort leaks a worker permit or
\* makes one up, and nobody waits while one is free.
THEOREM NoWorkerLeaks == Spec => []WorkersAreConserved
<1>1. IndInv => WorkersAreConserved
  BY DEF IndInv
<1> QED BY <1>1, InductiveInvariant, PTL

\* Every request is answered once: it is with its task, in the control queue
\* or in the hands of the writer as long as the session is open.
THEOREM EveryRequestIsAnsweredOnce == Spec => []AnswersAreConserved
<1>1. ASSUME IndInv PROVE AnswersAreConserved
  <2>0. /\ PoolTyped /\ TasksTyped /\ WorkersAreConserved /\ TasksAreRequests /\ Flags
        /\ AnswersCounted
    BY <1>1 DEF IndInv, Typed
  <2>1. ids \subseteq RequestIds
    BY <2>0 DEF TasksAreRequests
  <2>2. slots \in 0..SLOTS
    <3>1. Cardinality({t \in Live : Slotted(task[t].method)}) \in Nat
      BY LiveFinite
    <3> QED BY <2>0, <3>1, SessionAssumption DEF TasksAreRequests, SessionAssumption
  <2>3. permits \in 0..WORKERS
    <3>1. permits + Cardinality(Granted) + CountIn(jobs, WorkerJobs) = WORKERS /\ permits \in Nat
      BY <2>0, Conserved DEF PoolTyped
    <3>2. Cardinality(Granted) \in Nat
      <4>1. Granted \in SUBSET Users
        BY DEF Granted
      <4> QED BY <4>1, UsersFinite
    <3>3. CountIn(jobs, WorkerJobs) \in Nat
      BY <2>0, WorkersAre DEF PoolTyped
    <3> QED BY <3>1, <3>2, <3>3, SessionAssumption DEF SessionAssumption
  <2>4. ToSet(waiters) \subseteq Users /\ IsInjective(waiters)
    BY <2>0 DEF PoolTyped, ToSet
  <2>5. \A t \in Live : task[t].id \in RequestIds /\ task[t].method \in Methods
    <3>1. ASSUME NEW t \in Live
          PROVE  task[t].method \in Methods
      <4>1. task[t] \in Task
        BY <2>0 DEF TasksTyped, Live, Users
      <4> QED BY <4>1 DEF Task
    <3> QED BY <2>0, <3>1 DEF TasksAreRequests
  <2>6. TypeOK
    BY <2>0, <2>1, <2>2, <2>3, <2>4, <2>5 DEF TypeOK, Flags
  <2> QED BY <2>0, <2>6 DEF AnswersAreConserved, AnswersCounted
<1> QED BY <1>1, InductiveInvariant, PTL

\* The requests that the embedder has no answer to, one for each live task.
LEMMA SlotsAreOutstanding ==
  ASSUME IndInv, phase = "open"
  PROVE  /\ IsFiniteSet(Unanswered)
         /\ Cardinality({t \in Live : Slotted(task[t].method)}) <= Outstanding
<1> DEFINE T == {t \in Live : Slotted(task[t].method)}
           own == [t \in T |-> <<task[t].id, 1>>]
<1>0. TasksAreRequests /\ OutputTyped /\ AnswersCounted
  BY DEF IndInv, Typed
<1>1. \A i \in RequestIds : asked[i] \in Int
  BY <1>0 DEF OutputTyped
<1>2. IsFiniteSet(Unanswered)
  <2> DEFINE of(i) == {i} \X (1..asked[i])
             S == {of(i) : i \in RequestIds}
  <2>1. ASSUME NEW i \in RequestIds PROVE IsFiniteSet(of(i))
    <3>1. IsFiniteSet({i})
      BY FS_Singleton
    <3>2. IsFiniteSet(1..asked[i])
      BY <1>1, FS_Interval
    <3> QED BY <3>1, <3>2, FS_Product
  <2>2. IsFiniteSet(S)
    <3>1. IsFiniteSet(RequestIds)
      BY SessionAssumption DEF SessionAssumption
    <3> HIDE DEF of
    <3>2. [i \in RequestIds |-> of(i)] \in Surjection(RequestIds, S)
      BY DEF Surjection
    <3> QED BY <3>1, <3>2, FS_Surjection
  <2>3. \A s \in S : IsFiniteSet(s)
    BY <2>1
  <2>4. Unanswered = UNION S
    BY DEF Unanswered
  <2> HIDE DEF S
  <2> QED BY <2>2, <2>3, <2>4, FS_UNION
<1>3. ASSUME NEW t \in Live
      PROVE  <<task[t].id, 1>> \in Unanswered
  <2>1. task[t].id \in RequestIds
    BY <1>0 DEF TasksAreRequests
  <2>2. asked[task[t].id] > 0
    <3> DEFINE A == {u \in Live : task[u].id = task[t].id}
    <3>1. A \in SUBSET Live /\ t \in A
      OBVIOUS
    <3>2. IsFiniteSet(A) /\ Cardinality(A) \in Nat
      BY <3>1, LiveFinite
    <3>3. Cardinality(A) # 0
      <4> HIDE DEF A
      <4> QED BY <3>1, <3>2, FS_EmptySet
    <3>4. asked[task[t].id] = Cardinality(A) + Answers(task[t].id)
      BY <1>0, <2>1 DEF AnswersCounted
    <3>5. Answers(task[t].id) = CountIn(q.control, {task[t].id}) + (IF writing = task[t].id THEN 1 ELSE 0)
      BY AnswersAre
    <3>6. CountIn(q.control, {task[t].id}) \in Nat
      BY <1>0, CountType DEF OutputTyped
    <3> HIDE DEF A
    <3> QED BY <3>2, <3>3, <3>4, <3>5, <3>6
  <2>3. 1 \in 1..asked[task[t].id]
    BY <1>1, <2>1, <2>2
  <2> QED BY <2>1, <2>3 DEF Unanswered
<1>4. own \in Injection(T, Unanswered)
  <2>1. own \in [T -> Unanswered]
    BY <1>3
  <2>2. \A t, u \in T : own[t] = own[u] => t = u
    BY <1>0 DEF TasksAreRequests
  <2> QED BY <2>1, <2>2 DEF Injection, IsInjective
<1>5. Cardinality(T) <= Cardinality(Unanswered)
  <2> HIDE DEF T, own
  <2> QED BY <1>2, <1>4, FS_Injection
<1> QED BY <1>2, <1>5 DEF Outstanding

\* A request is turned away only if the embedder has a request of this id, or
\* SLOTS requests, whose answers it did not get yet.
THEOREM RefusalsAreDeserved == Spec => RefusalIsDeserved
<1>1. ASSUME IndInv, Next, NEW i \in RequestIds, TurnedAway(i)
      PROVE  asked[i] > 0 \/ Outstanding >= SLOTS
  <2>0. /\ TasksAreRequests /\ OutputTyped /\ AnswersCounted /\ TasksTyped
        /\ asked \in [RequestIds -> Int]
    BY <1>1 DEF IndInv, Typed, OutputTyped
  <2>1. asked' # asked /\ asked'[i] = asked[i] + 1 /\ task' = task
    BY <1>1, <2>0 DEF TurnedAway
  <2>2. \/ \E j \in RequestIds, m \in Methods : Receive(j, m)
        \/ ReceiveMalformed \/ Written \/ LoopEnds
    BY <1>1, <2>1 DEF Next, TaskPoll, Resume, HandleNow, HandleWaits, HandleReturns, CompilerRuns,
         CompilerDeadline, CompilerNeedsCode, AbortTask, ProgramNeedsCode, ProgramEnds, UseWorker,
         JobEnds, WriteStart, Close, output
  <2>3. ~Written
    <3>1. ASSUME Written PROVE asked'[i] = asked[i] - 1 \/ asked'[i] = asked[i]
      BY <3>1 DEF Written
    <3> QED BY <2>0, <2>1, <3>1
  <2>4. phase = "open"
    BY <2>2, <2>3 DEF ReceiveMalformed, Receive, Reads, LoopEnds
  <2>5. asked[i] \in Nat
    <3>1. Cardinality({t \in Live : task[t].id = i}) \in Nat
      BY LiveFinite
    <3>2. CountIn(q.control, {i}) \in Nat
      BY <2>0, CountType DEF OutputTyped
    <3>3. Answers(i) = CountIn(q.control, {i}) + (IF writing = i THEN 1 ELSE 0)
      BY AnswersAre
    <3>4. asked[i] = Cardinality({t \in Live : task[t].id = i}) + Answers(i)
      BY <2>0, <2>4 DEF AnswersCounted
    <3> QED BY <3>1, <3>2, <3>3, <3>4
  <2>6. asked' # NoneAsked /\ asked' # asked
    BY <2>1, <2>5 DEF NoneAsked
  <2>7. PICK j \in RequestIds, m \in Methods : Receive(j, m)
    BY <2>2, <2>3, <2>6 DEF ReceiveMalformed, LoopEnds, Refuse, NoRoom
  <2>8. asked' = [asked EXCEPT ![j] = @ + 1]
    BY <2>6, <2>7 DEF Receive, Refuse, NoRoom
  <2>9. j = i
    BY <2>0, <2>1, <2>5, <2>8
  <2>10. CASE i \in ids
    <3>1. PICK t \in Live : task[t].id = i
      BY <2>0, <2>10 DEF TasksAreRequests
    <3> DEFINE A == {u \in Live : task[u].id = i}
    <3>2. A \in SUBSET Live /\ t \in A
      BY <3>1
    <3>3. IsFiniteSet(A) /\ Cardinality(A) \in Nat
      BY <3>2, LiveFinite
    <3>4. Cardinality(A) # 0
      <4> HIDE DEF A
      <4> QED BY <3>2, <3>3, FS_EmptySet
    <3>5. CountIn(q.control, {i}) \in Nat
      BY <2>0, CountType DEF OutputTyped
    <3>6. Answers(i) = CountIn(q.control, {i}) + (IF writing = i THEN 1 ELSE 0)
      BY AnswersAre
    <3>7. asked[i] = Cardinality(A) + Answers(i)
      BY <2>0, <2>4 DEF AnswersCounted
    <3> HIDE DEF A
    <3> QED BY <3>3, <3>4, <3>5, <3>6, <3>7
  <2>11. CASE slots = 0
    <3>1. Cardinality({t \in Live : Slotted(task[t].method)}) <= Outstanding
      BY <1>1, <2>4, SlotsAreOutstanding
    <3>2. Cardinality({t \in Live : Slotted(task[t].method)}) \in Nat
      BY LiveFinite
    <3>3. slots + Cardinality({t \in Live : Slotted(task[t].method)}) = SLOTS
      BY <2>0 DEF TasksAreRequests
    <3>4. Outstanding \in Nat
      BY <1>1, <2>4, SlotsAreOutstanding, FS_CardinalityType DEF Outstanding
    <3> QED BY <2>11, <3>1, <3>2, <3>3, <3>4
  <2>12. CASE Idle # {} /\ Admit(FreeTask, i, m)
    <3>1. PICK t \in Idle : Admit(t, i, m)
      BY <2>12 DEF FreeTask
    <3>2. t \in Users /\ task[t].pc = "none" /\ task'[t].pc = "spawned"
      BY <2>0, <3>1 DEF Idle, Live, Users, Admit, TasksTyped
    <3> QED BY <2>1, <3>2
  <2> QED BY <2>7, <2>9, <2>10, <2>11, <2>12 DEF Receive
<1>2. IndInv /\ [Next]_svars
        => [\A i \in RequestIds : TurnedAway(i) => asked[i] > 0 \/ Outstanding >= SLOTS]_svars
  BY <1>1
<1> QED BY <1>2, InductiveInvariant, PTL DEF Spec, RefusalIsDeserved
=============================================================================
