------------------------------ MODULE Session -------------------------------
(***************************************************************************)
(* Requests of one session: admission in the loop of serve_with_config,    *)
(* the request tasks around Service::handle (src/src/protocol.rs), their   *)
(* replies through the control queue, and the blocking jobs of loads and   *)
(* compiles (TokioTimeslicer in src/src/runtime.rs, CompilerTimeslicer in  *)
(* src/src/build/compiler.rs) on the worker threads of src/src/main.rs.    *)
(*                                                                         *)
(* One action is one poll of one task, or one step of the embedder or of a *)
(* worker thread.  Methods are told apart by how they wait:                *)
(*   "sf.initialize", "sf.shutdown"  answer at once and change the session *)
(*   "sf.object.load"                runs a job under a worker permit      *)
(*   "sf.build.compile"              runs a job without one, then a guest  *)
(*   "other"                         answers at once, or waits for an      *)
(*                                   object to stop (stop, unload)         *)
(* A task name is used again when its task is over.  The writer takes the  *)
(* control queue only; module Outbox has both queues and all wakeups, and  *)
(* shows that a sender that waits is woken when room appears.              *)
(*                                                                         *)
(* Definitions named Mut... are faulty variants of the definition after    *)
(* them.                                                                   *)
(***************************************************************************)
EXTENDS OutboxQueues

CONSTANTS Tasks,      \* names of request tasks; bound of the model: a frame
                      \* is not read while all are in use
          Programs,   \* names of running objects: they too need workers
          RequestIds, \* JSON-RPC ids of the embedder
          SLOTS,      \* requests in progress, compiles apart (48)
          WORKERS,    \* permits of TokioTimeslicer (2)
          THREADS,    \* blocking threads of the executor (2)
          JOBS        \* bound of the model: no compile queues a job beyond;
                      \* the queue of the blocking pool has no bound

NoFrame == "no frame"
Detached == "detached"

\* The ids of frames of at most MAX_FRAME bytes are finitely many.
ASSUME SessionAssumption ==
  /\ SLOTS \in Nat \ {0}
  /\ WORKERS \in Nat \ {0}
  /\ THREADS \in Nat \ {0}
  /\ JOBS \in Nat
  /\ IsFiniteSet(Tasks) /\ IsFiniteSet(Programs) /\ IsFiniteSet(RequestIds)
  /\ Tasks \cap Programs = {} /\ Detached \notin Tasks \cup Programs
  /\ NoId \notin RequestIds /\ NoFrame \notin RequestIds

VARIABLES phase,       \* "open", "ending" (abort_all and the cleanup), "closed"
          initialized, \* Service::initialized
          shutdown,    \* Service::shutdown is cancelled
          q,           \* the outbox; only its control queue is used
          writing,     \* the frame in write_all, or NoFrame; a frame is the id
                       \* it answers
          ids,         \* outstanding ids
          slots,       \* free permits of the semaphore "slots"
          task,        \* [Tasks -> the request task, or NoTask]; a program
                       \* that runs compiled code is NoTask as well
          permits,     \* free permits of TokioTimeslicer::workers
          waiters,     \* tasks that wait for one, first come first served
          jobs,        \* the blocking pool: the first THREADS jobs run
          asked        \* history: [RequestIds -> requests not yet answered on
                       \* the wire], kept while the session is open

loop == <<phase, initialized, shutdown>>
output == <<q, writing, asked>>
pool == <<permits, waiters, jobs>>
svars == <<loop, output, ids, slots, task, pool>>

Methods == {"sf.initialize", "sf.shutdown", "sf.object.load",
            "sf.build.compile", "other"}
NoTask == [pc |-> "none", id |-> NoId, method |-> "other"]
Users == Tasks \cup Programs
Live == {t \in Tasks : task[t].pc # "none"}
Idle == Tasks \ Live
FreeTask == CHOOSE t \in Idle : TRUE   \* any name will do: no two are told apart

\* Compiles take no slot: "compile concurrency is owned by the embedder".
Slotted(m) == m # "sf.build.compile"

-----------------------------------------------------------------------------
(* The reader: one frame of the embedder.                                  *)

NoneAsked == [i \in RequestIds |-> 0]

MutNoRoom(more) == asked' = more /\ UNCHANGED phase   \* the refusal is dropped

\* Not even a refusal fits: the loop breaks.
NoRoom(more) == asked' = NoneAsked /\ phase' = "ending"

\* try_control() of an error reply; "more" is the history with this request.
Refuse(i, more) ==
  IF ControlRoom(q)
  THEN q' = PushControl(q, i) /\ asked' = more /\ UNCHANGED phase
  ELSE NoRoom(more) /\ UNCHANGED q

\* The biased select looks at the shutdown token before it reads.
Reads == phase = "open" /\ ~shutdown

\* A line that is no JSON object, no JSON-RPC 2.0, no method, or a wrong id:
\* answered without an id.
ReceiveMalformed ==
  /\ Reads
  /\ Refuse(NoId, asked)
  /\ UNCHANGED <<initialized, shutdown, writing, ids, slots, task, pool>>

Admit(t, i, m) ==
  /\ ids' = ids \cup {i}
  /\ slots' = IF Slotted(m) THEN slots - 1 ELSE slots
  /\ task' = [task EXCEPT ![t] = [pc |-> "spawned", id |-> i, method |-> m]]
  /\ UNCHANGED <<phase, q>>

Receive(i, m) ==
  LET more == [asked EXCEPT ![i] = @ + 1] IN
  /\ Reads
  /\ \/ /\ i \in ids
        /\ Refuse(i, more)                  \* DUPLICATE_ID
        /\ UNCHANGED <<ids, slots, task>>
     \/ /\ i \notin ids /\ Slotted(m) /\ slots = 0
        /\ Refuse(i, more)                  \* BUSY
        /\ UNCHANGED <<ids, slots, task>>
     \/ /\ i \notin ids /\ (Slotted(m) => slots > 0)
        /\ Idle # {}
        /\ Admit(FreeTask, i, m)
        /\ asked' = more
  /\ UNCHANGED <<initialized, shutdown, writing, pool>>

-----------------------------------------------------------------------------
(* The end of a request task: control(), then the token of sf.shutdown,    *)
(* then the slot and the id are dropped, all in one poll.                  *)

MutRelease(t) ==                         \* the id is dropped by join_next only
  /\ slots' = IF Slotted(task[t].method) THEN slots + 1 ELSE slots
  /\ UNCHANGED ids

\* Drop of the slot's permit and of ActiveId.
Release(t) ==
  /\ ids' = ids \ {task[t].id}
  /\ slots' = IF Slotted(task[t].method) THEN slots + 1 ELSE slots

\* A handler returned a result or an error; its task answers, or waits for
\* room.  r = "shutdown" is the result of sf.shutdown.
Answer(t, r) ==
  IF ControlRoom(q)
  THEN /\ q' = PushControl(q, task[t].id)
       /\ shutdown' = (shutdown \/ r = "shutdown")
       /\ task' = [task EXCEPT ![t] = NoTask]
       /\ Release(t)
  ELSE /\ task' = [task EXCEPT ![t].pc = r]
       /\ UNCHANGED <<q, shutdown, ids, slots>>

Replying == {"answer", "shutdown"}

Resume(t) ==
  /\ phase = "open"
  /\ task[t].pc \in Replying
  /\ ControlRoom(q)
  /\ Answer(t, task[t].pc)
  /\ UNCHANGED <<phase, initialized, writing, asked, pool>>

-----------------------------------------------------------------------------
(* Worker permits and blocking jobs.  A tokio semaphore is fair: a permit  *)
(* that is released goes to the first waiter, which is then "granted".     *)

MutGive(tt) ==                           \* the first waiter sleeps on
  permits' = permits + 1 /\ task' = tt /\ UNCHANGED waiters

\* A permit comes free; tt are the tasks after this step but for the waiter.
Give(tt) ==
  IF waiters = <<>>
  THEN permits' = permits + 1 /\ task' = tt /\ UNCHANGED waiters
  ELSE /\ waiters' = Tail(waiters)
       /\ task' = [tt EXCEPT ![Head(waiters)].pc = "granted"]
       /\ UNCHANGED permits

Job(t, worker) == [of |-> t, worker |-> worker]

MutDetach(t) ==                          \* the permit does not stay with the job
  [k \in DOMAIN jobs |-> IF jobs[k].of = t THEN Job(Detached, FALSE) ELSE jobs[k]]

\* The future that awaits a job is dropped; the job runs on.
Detach(t) ==
  [k \in DOMAIN jobs |-> IF jobs[k].of = t THEN Job(Detached, jobs[k].worker) ELSE jobs[k]]

\* run_blocking() of TokioTimeslicer, first poll.
AcquireWorker(t) ==
  IF permits > 0
  THEN /\ permits' = permits - 1
       /\ jobs' = Append(jobs, Job(t, TRUE))
       /\ task' = [task EXCEPT ![t].pc = "job"]
       /\ UNCHANGED waiters
  ELSE /\ waiters' = Append(waiters, t)
       /\ task' = [task EXCEPT ![t].pc = "acquire"]
       /\ UNCHANGED <<permits, jobs>>

UseWorker(t) ==
  /\ phase = "open" \/ t \in Programs
  /\ task[t].pc = "granted"
  /\ jobs' = Append(jobs, Job(t, TRUE))
  /\ task' = [task EXCEPT ![t].pc = "job"]
  /\ UNCHANGED <<loop, output, ids, slots, permits, waiters>>

\* A running job ends, whoever awaits it, in any phase.
JobEnds(k) ==
  LET t     == jobs[k].of
      after == [u \in Users |-> IF u # t THEN task[u]
                               ELSE IF t \in Programs THEN NoTask
                               ELSE [task[t] EXCEPT !.pc = "loaded"]]
  IN  /\ k <= THREADS
      /\ jobs' = RemoveAt(jobs, k)
      /\ IF jobs[k].worker
         THEN Give(after)
         ELSE task' = after /\ UNCHANGED <<permits, waiters>>
      /\ UNCHANGED <<loop, output, ids, slots>>

\* A program meets code that is not compiled yet.
ProgramNeedsCode(p) ==
  /\ phase # "closed"
  /\ task[p] = NoTask
  /\ AcquireWorker(p)
  /\ UNCHANGED <<loop, output, ids, slots>>

-----------------------------------------------------------------------------
(* Request tasks.                                                          *)

\* The first poll of a task: Service::handle up to its first await.  The
\* arguments of any method may be refused.
HandleNow(t) ==
  LET m == task[t].method
  IN  /\ phase = "open"
      /\ task[t].pc = "spawned"
      /\ \/ m = "sf.initialize" /\ initialized' = TRUE /\ Answer(t, "answer")
         \/ m = "sf.shutdown" /\ initialized /\ Answer(t, "shutdown")
              /\ UNCHANGED initialized
         \/ Answer(t, "answer") /\ UNCHANGED initialized
      /\ UNCHANGED <<phase, writing, asked, pool>>

HandleWaits(t) ==
  /\ phase = "open"
  /\ task[t].pc = "spawned"
  /\ initialized
  /\ \/ /\ task[t].method = "other"
        /\ task' = [task EXCEPT ![t].pc = "stopping"]
        /\ UNCHANGED pool
     \/ /\ task[t].method = "sf.object.load"
        /\ AcquireWorker(t)
     \/ /\ task[t].method = "sf.build.compile"
        /\ Len(jobs) < JOBS
        /\ jobs' = Append(jobs, Job(t, FALSE))
        /\ task' = [task EXCEPT ![t].pc = "job"]
        /\ UNCHANGED <<permits, waiters>>
  /\ UNCHANGED <<loop, output, ids, slots>>

\* Object::stop returns (module Lifecycle); a load has its program or an
\* error; the compiler guest ends.
HandleReturns(t) ==
  /\ phase = "open"
  /\ task[t].pc \in {"stopping", "loaded", "compiling"}
  /\ task[t].method = "sf.build.compile" => task[t].pc = "compiling"
  /\ Answer(t, "answer")
  /\ UNCHANGED <<phase, initialized, writing, asked, pool>>

CompilerRuns(t) ==
  /\ phase = "open"
  /\ task[t].pc = "loaded" /\ task[t].method = "sf.build.compile"
  /\ task' = [task EXCEPT ![t].pc = "compiling"]
  /\ UNCHANGED <<loop, output, ids, slots, pool>>

\* The guest meets code that is not compiled yet: another job.
CompilerNeedsCode(t) ==
  /\ phase = "open"
  /\ task[t].pc = "compiling"
  /\ Len(jobs) < JOBS
  /\ jobs' = Append(jobs, Job(t, FALSE))
  /\ task' = [task EXCEPT ![t].pc = "job"]
  /\ UNCHANGED <<loop, output, ids, slots, permits, waiters>>

\* "compiler exceeded 15 second deadline": loading and compiling both count.
CompilerDeadline(t) ==
  /\ phase = "open"
  /\ task[t].method = "sf.build.compile"
  /\ task[t].pc \in {"job", "compiling"}
  /\ jobs' = Detach(t)
  /\ Answer(t, "answer")
  /\ UNCHANGED <<phase, initialized, writing, asked, permits, waiters>>

-----------------------------------------------------------------------------
(* The writer and the end of the session.                                  *)

WriteStart ==
  /\ writing = NoFrame
  /\ TakesControl(q)
  /\ q' = PopControl(q)
  /\ writing' = Head(q.control)
  /\ UNCHANGED <<loop, asked, ids, slots, task, pool>>

Written ==
  /\ writing # NoFrame
  /\ writing' = NoFrame
  /\ asked' = [i \in RequestIds |->
                IF i = writing /\ phase = "open" THEN asked[i] - 1 ELSE asked[i]]
  /\ UNCHANGED <<loop, q, ids, slots, task, pool>>

\* The shutdown token, a signal, the end of stdin, a frame too long, a broken
\* stdout or a request task that panicked end the loop.
LoopEnds ==
  /\ phase = "open"
  /\ phase' = "ending" /\ asked' = NoneAsked
  /\ UNCHANGED <<initialized, shutdown, q, writing, ids, slots, task, pool>>

\* The future of t is dropped where it waits.
Drop(t) ==
  LET dropped == [task EXCEPT ![t] = NoTask]
  IN  /\ jobs' = Detach(t)
      /\ IF task[t].pc = "granted"
         THEN Give(dropped)
         ELSE /\ waiters' = RemoveFirst(waiters, t)
              /\ task' = dropped
              /\ UNCHANGED permits

\* abort_all().
AbortTask(t) ==
  /\ phase = "ending"
  /\ t \in Live
  /\ Release(t)
  /\ Drop(t)
  /\ UNCHANGED <<loop, output>>

\* An object exits or is stopped, also amid a compilation, and says so with
\* try_control(sf.object.state); its name may be used for the next object.
ProgramEnds(p) ==
  /\ phase # "closed"
  /\ Drop(p)
  /\ q' = IF ControlRoom(q) THEN PushControl(q, NoId) ELSE q
  /\ UNCHANGED <<loop, writing, asked, ids, slots>>

\* All requests are joined, all objects are stopped; the outbox is closed.
Close ==
  /\ phase = "ending"
  /\ \A t \in Users : task[t] = NoTask
  /\ phase' = "closed"
  /\ UNCHANGED <<initialized, shutdown, output, ids, slots, task, pool>>

-----------------------------------------------------------------------------
Init ==
  /\ phase = "open" /\ initialized = FALSE /\ shutdown = FALSE
  /\ q = EmptyQueues /\ writing = NoFrame
  /\ ids = {} /\ slots = SLOTS
  /\ task = [t \in Users |-> NoTask]
  /\ permits = WORKERS /\ waiters = <<>> /\ jobs = <<>>
  /\ asked = NoneAsked

TaskPoll(t) ==
  \/ Resume(t) \/ HandleNow(t) \/ HandleWaits(t)
  \/ HandleReturns(t) \/ CompilerRuns(t) \/ CompilerDeadline(t)

Next ==
  \/ ReceiveMalformed
  \/ \E i \in RequestIds, m \in Methods : Receive(i, m)
  \/ \E t \in Tasks : TaskPoll(t) \/ CompilerNeedsCode(t) \/ AbortTask(t)
  \/ \E p \in Programs : ProgramNeedsCode(p) \/ ProgramEnds(p)
  \/ \E t \in Users : UseWorker(t)
  \/ \E k \in DOMAIN jobs : JobEnds(k)
  \/ WriteStart \/ Written \/ LoopEnds \/ Close

\* A job that runs ends, and the executor polls a task that was woken or
\* aborted.
Fairness ==
  /\ WF_svars(1 \in DOMAIN jobs /\ JobEnds(1))
  /\ \A t \in Users : WF_svars(UseWorker(t))
  /\ \A t \in Tasks : WF_svars(AbortTask(t))

Spec == Init /\ [][Next]_svars /\ Fairness

-----------------------------------------------------------------------------
TypeOK ==
  /\ phase \in {"open", "ending", "closed"}
  /\ initialized \in BOOLEAN /\ shutdown \in BOOLEAN
  /\ ids \subseteq RequestIds /\ slots \in 0..SLOTS
  /\ permits \in 0..WORKERS
  /\ ToSet(waiters) \subseteq Users /\ IsInjective(waiters)
  /\ \A t \in Live : task[t].id \in RequestIds /\ task[t].method \in Methods

Answers(i) ==
  Cardinality({k \in DOMAIN q.control : q.control[k] = i})
    + (IF writing = i THEN 1 ELSE 0)

\* Every request that was read is answered exactly once: as long as the
\* session is open it is with its task, in the control queue or in the
\* writer's hands, also while two requests use one id and one of them was
\* refused.  (abort_all drops requests, but only when the loop has ended.)
AnswersAreConserved ==
  /\ TypeOK
  /\ \A i \in RequestIds :
       phase = "open" =>
         asked[i] = Cardinality({t \in Live : task[t].id = i}) + Answers(i)

\* The requests without an answer, the n-th of id i as <<i, n>>.
Unanswered == UNION {{i} \X (1..asked[i]) : i \in RequestIds}

Outstanding == Cardinality(Unanswered)

TurnedAway(i) == asked'[i] = asked[i] + 1 /\ task' = task

\* A request is turned away (DUPLICATE_ID or BUSY) only if the embedder has a
\* request of this id, or SLOTS requests, whose answers it did not get yet: one
\* that keeps to the limits it can see is never refused, because ids and slots
\* go back when an answer is queued and never lag behind the wire.
RefusalIsDeserved ==
  [][\A i \in RequestIds :
       TurnedAway(i) => asked[i] > 0 \/ Outstanding >= SLOTS]_svars

Granted == {t \in Users : task[t].pc = "granted"}

\* No step leaks a worker permit or makes one up: it is free, handed to a
\* waiter that was not polled yet, or with a job, which keeps it after its
\* request was aborted (DESIGN.md:275, "no ... concurrency permits leak").
\* Nobody waits while a permit is free, and those who wait are the tasks in
\* the queue of the semaphore.
WorkersAreConserved ==
  /\ permits + Cardinality(Granted)
       + Cardinality({k \in DOMAIN jobs : jobs[k].worker}) = WORKERS
  /\ waiters # <<>> => permits = 0
  /\ ToSet(waiters) = {t \in Users : task[t].pc = "acquire"}

\* A load that waits for a worker gets one, whatever loads were aborted with
\* their jobs running and whatever compiles share the blocking threads.
EveryLoadGetsAWorker ==
  \A t \in Tasks :
    task[t].pc \in {"acquire", "granted", "job"}
      ~> task[t].pc \notin {"acquire", "granted", "job"}
=============================================================================
