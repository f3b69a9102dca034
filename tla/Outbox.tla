------------------------------- MODULE Outbox -------------------------------
(***************************************************************************)
(* The bounded output of spinfoam (src/src/outbox.rs) between the tasks    *)
(* that produce frames and the one task that writes them to stdout (the    *)
(* writer spawned by serve_with_config, src/src/protocol.rs).              *)
(*                                                                         *)
(* Everything runs on one thread: the code between two awaits is atomic,   *)
(* and one action is one poll of one task.  The tasks are                  *)
(*   - request handlers, which send their reply with control(), and wait   *)
(*     while the control queue is full;                                    *)
(*   - the reader and the object tasks, which use try_control();           *)
(*   - one guest program per object, which logs with try_data() and sends  *)
(*     a host call with data(), and waits while its bytes do not fit;      *)
(*   - the writer, which waits in next() while nothing is queued.          *)
(* A waiting task is "parked" until a Notify or the cancellation of        *)
(* "closed" makes it ready, and runs again at an arbitrary later time.     *)
(*                                                                         *)
(* A guest has one call at a time, so the object name stands for the id of *)
(* its call: the guard of a call removes the id before the next call.      *)
(*                                                                         *)
(* Definitions named Mut... are faulty variants of the definition after    *)
(* them, used to confirm that the properties notice the fault.             *)
(***************************************************************************)
EXTENDS OutboxQueues

CONSTANTS Requests,      \* request handlers
          Objects,       \* objects
          Lengths,       \* lengths of the JSON texts handed to the outbox
          MAX_FRAME,     \* bytes of a frame with its newline (256 KiB)
          DROPPED_MAX    \* where "dropped" saturates (u64::MAX)

ASSUME OutboxAssumption ==
  /\ Lengths \subseteq Nat \ {0}
  /\ MAX_FRAME \in Nat
  /\ DROPPED_MAX \in Nat
  /\ NoId \notin Objects
  /\ IsFiniteSet(Objects)

VARIABLES q,         \* Outbox::queues
          closed,    \* Outbox::closed is cancelled
          dropped,   \* Outbox::dropped
          changed,   \* a permit is stored in Outbox::changed
          writer,    \* the writer task: [pc, from, frame]
          handler,   \* [Requests -> [pc, body]]: a control() in progress
          guest,     \* [Objects -> [pc, len]]: a data() in progress
          streak,    \* history: control frames taken in a row while data waits
          passed     \* history: frames of others taken since o became ready

vars == <<q, closed, dropped, changed, writer, handler, guest, streak, passed>>

Notice == "notice"                   \* the sender of a try_control() frame
Control == "control"                 \* the queue a control frame comes from

NoFrame == [pc |-> "none", from |-> Control, frame |-> NoId]
WriterAt(pc) == [NoFrame EXCEPT !.pc = pc]
Writing(from, frame) == [pc |-> "writing", from |-> from, frame |-> frame]

IdleHandler == [pc |-> "idle", body |-> "reply"]
IdleGuest == [pc |-> "idle", len |-> 0]

Ready == ToSet(q.ready)

-----------------------------------------------------------------------------
(* Encoding and notification.                                              *)

\* encode(): serialized text of MAX_FRAME bytes or more is refused, because
\* the newline that ends the frame no longer fits.
Encodable(text) == text < MAX_FRAME
FrameLen(text) == text + 1

\* A text that is too long is replaced by an error reply to the same id.
ControlBody(text) == IF Encodable(text) THEN "reply" ELSE "RESPONSE_TOO_LARGE"

\* changed.notify_one(): wakes the parked writer, or stores the one permit.
NotifyChanged ==
  IF writer.pc = "parked"
  THEN writer' = WriterAt("woken") /\ UNCHANGED changed
  ELSE changed' = TRUE /\ UNCHANGED writer

\* space.notify_waiters(): wakes every parked sender, stores nothing.
Woken(tasks) ==
  [t \in DOMAIN tasks |->
     IF tasks[t].pc = "parked" THEN [tasks[t] EXCEPT !.pc = "woken"] ELSE tasks[t]]

NotifySpace ==
  /\ handler' = Woken(handler)
  /\ guest' = Woken(guest)

MutRunnable(task) == task.pc = "woken"     \* the wait has no closed branch

\* A parked task is polled when its Notified or closed.cancelled() is ready.
Runnable(task) == task.pc = "woken" \/ (task.pc = "parked" /\ closed)

-----------------------------------------------------------------------------
(* control() and try_control().                                            *)

\* One turn of the loop of control().
ControlTurn(r, body) ==
  /\ \/ /\ closed
        /\ handler' = [handler EXCEPT ![r] = IdleHandler]
        /\ UNCHANGED <<q, writer, changed>>
     \/ /\ ~closed /\ ControlRoom(q)
        /\ q' = PushControl(q, [from |-> r, body |-> body])
        /\ NotifyChanged
        /\ handler' = [handler EXCEPT ![r] = IdleHandler]
     \/ /\ ~closed /\ ~ControlRoom(q)
        /\ handler' = [handler EXCEPT ![r] = [pc |-> "parked", body |-> body]]
        /\ UNCHANGED <<q, writer, changed>>
  /\ UNCHANGED <<closed, dropped, guest, streak, passed>>

ControlStart(r) ==
  /\ handler[r].pc = "idle"
  /\ \E text \in Lengths : ControlTurn(r, ControlBody(text))

ControlResume(r) ==
  /\ Runnable(handler[r])
  /\ ControlTurn(r, handler[r].body)

\* tasks.abort_all() of serve_with_config drops a control() that waits.
ControlAbort(r) ==
  /\ handler[r].pc \in {"parked", "woken"}
  /\ handler' = [handler EXCEPT ![r] = IdleHandler]
  /\ UNCHANGED <<q, closed, dropped, changed, writer, guest, streak, passed>>

MutTryControl ==            \* changed.notify_one() forgotten
  /\ ~closed
  /\ ControlRoom(q)
  /\ q' = PushControl(q, [from |-> Notice, body |-> "reply"])
  /\ UNCHANGED <<closed, dropped, changed, writer, handler, guest, streak, passed>>

\* A refused notice (too long, closed, or no slot) changes nothing.
TryControl ==
  /\ ~closed
  /\ ControlRoom(q)
  /\ q' = PushControl(q, [from |-> Notice, body |-> "reply"])
  /\ NotifyChanged
  /\ UNCHANGED <<closed, dropped, handler, guest, streak, passed>>

-----------------------------------------------------------------------------
(* push_data(), try_data() and data().                                     *)

Accepts(o, len) == ~closed /\ DataRoom(q, o, len)

Accept(o, f) ==
  /\ q' = PushData(q, o, f)
  /\ NotifyChanged

CountDropped(n) == IF n < DROPPED_MAX THEN n + 1 ELSE n

\* A log line of a running guest.  A text that does not encode is refused
\* without being counted.
TryData(o, text) ==
  /\ guest[o].pc = "idle"
  /\ Encodable(text)
  /\ \/ /\ Accepts(o, FrameLen(text))
        /\ Accept(o, [len |-> FrameLen(text), req |-> NoId])
        /\ UNCHANGED dropped
     \/ /\ ~Accepts(o, FrameLen(text))
        /\ dropped' = CountDropped(dropped)
        /\ UNCHANGED <<q, writer, changed>>
  /\ UNCHANGED <<closed, handler, guest, streak, passed>>

\* One turn of the loop of data(); the call's guard outlives its return.
DataTurn(o, len) ==
  /\ \/ /\ closed
        /\ guest' = [guest EXCEPT ![o] = [pc |-> "returned", len |-> len]]
        /\ UNCHANGED <<q, writer, changed>>
     \/ /\ ~closed /\ Accepts(o, len)
        /\ Accept(o, [len |-> len, req |-> o])
        /\ guest' = [guest EXCEPT ![o] = [pc |-> "returned", len |-> len]]
     \/ /\ ~closed /\ ~Accepts(o, len)
        /\ guest' = [guest EXCEPT ![o] = [pc |-> "parked", len |-> len]]
        /\ UNCHANGED <<q, writer, changed>>
  /\ UNCHANGED <<closed, dropped, handler, streak, passed>>

\* A frame that no queue can ever hold is refused at once instead of waiting.
DataStart(o, text) ==
  /\ guest[o].pc = "idle"
  /\ \/ /\ Encodable(text) /\ FrameLen(text) <= OBJECT_BYTES
        /\ DataTurn(o, FrameLen(text))
     \/ /\ ~Encodable(text) \/ FrameLen(text) > OBJECT_BYTES
        /\ guest' = [guest EXCEPT ![o] = [pc |-> "returned", len |-> FrameLen(text)]]
        /\ UNCHANGED <<q, closed, dropped, changed, writer, handler, streak, passed>>

DataResume(o) ==
  /\ Runnable(guest[o])
  /\ DataTurn(o, guest[o].len)

-----------------------------------------------------------------------------
(* remove_request() and remove_object().                                   *)

\* The history of an object that left "ready" starts over.
ForgetRemoved == passed' = [x \in Objects |-> IF x \in DOMAIN q'.data THEN passed[x] ELSE 0]

MutRemoveRequestOf(o) ==    \* space.notify_waiters() forgotten
  /\ guest[o].pc # "idle"
  /\ q' = RemoveRequest(q, o, o)
  /\ guest' = [guest EXCEPT ![o] = IdleGuest]
  /\ ForgetRemoved
  /\ UNCHANGED <<closed, dropped, changed, writer, handler, streak>>

\* The guard of the call of o is dropped: the call was answered, timed out,
\* or its object was stopped, possibly while data() still waits.
RemoveRequestOf(o) ==
  /\ guest[o].pc # "idle"
  /\ q' = RemoveRequest(q, o, o)
  /\ IF o \in DOMAIN q.data
     THEN /\ handler' = Woken(handler)
          /\ guest' = [Woken(guest) EXCEPT ![o] = IdleGuest]
     ELSE /\ guest' = [guest EXCEPT ![o] = IdleGuest]
          /\ UNCHANGED handler
  /\ ForgetRemoved
  /\ UNCHANGED <<closed, dropped, changed, writer, streak>>

\* The task of o ended; its guest is gone.  Names of objects are used again
\* here for new objects, which the program numbers afresh.
RemoveObjectOf(o) ==
  /\ guest[o].pc = "idle"
  /\ q' = RemoveObject(q, o)
  /\ NotifySpace
  /\ ForgetRemoved
  /\ UNCHANGED <<closed, dropped, changed, writer, streak>>

-----------------------------------------------------------------------------
(* The writer: next() and write_all().                                     *)

\* The writer runs next() from its start, or its Notified is ready.
WriterScans == writer.pc \in {"start", "woken"}

TakeControl ==
  /\ WriterScans
  /\ TakesControl(q)
  /\ q' = PopControl(q)
  /\ writer' = Writing(Control, Head(q.control))
  /\ NotifySpace
  /\ streak' = IF q.ready = <<>> THEN 0 ELSE streak + 1
  /\ UNCHANGED <<closed, dropped, changed, passed>>

TakeData ==
  LET o == Head(q.ready)
  IN  /\ WriterScans
      /\ TakesData(q)
      /\ HeadIsServable(q)
      /\ q' = PopData(q)
      /\ writer' = Writing(o, Head(q.data[o]))
      /\ NotifySpace
      /\ streak' = 0
      /\ passed' = [x \in Objects |->
                      IF x = o \/ x \notin Ready THEN 0 ELSE passed[x] + 1]
      /\ UNCHANGED <<closed, dropped, changed>>

\* Nothing is queued.  A stored permit only makes the loop turn once more.
WriterWait ==
  /\ WriterScans
  /\ q.control = <<>> /\ q.ready = <<>>
  /\ ~closed
  /\ changed' = FALSE
  /\ writer' = WriterAt("parked")
  /\ UNCHANGED <<q, closed, dropped, handler, guest, streak, passed>>

\* next() returns None: seen closed with empty queues, or the closed branch
\* of the select of a waiting writer, which tokio may choose although the
\* other branch is ready as well.
WriterFinish ==
  /\ closed
  /\ \/ WriterScans /\ q.control = <<>> /\ q.ready = <<>>
     \/ writer.pc \in {"parked", "woken"}
  /\ writer' = WriterAt("finished")
  /\ UNCHANGED <<q, closed, dropped, changed, handler, guest, streak, passed>>

Write ==
  /\ writer.pc = "writing"
  /\ writer' = WriterAt("start")
  /\ UNCHANGED <<q, closed, dropped, changed, handler, guest, streak, passed>>

\* stdout is broken: the writer closes the outbox and ends.
WriteFail ==
  /\ writer.pc = "writing"
  /\ writer' = WriterAt("failed")
  /\ closed' = TRUE
  /\ UNCHANGED <<q, dropped, changed, handler, guest, streak, passed>>

\* The session ends: out.closed.cancel() of serve_with_config ...
Close ==
  /\ ~closed
  /\ closed' = TRUE
  /\ UNCHANGED <<q, dropped, changed, writer, handler, guest, streak, passed>>

WriterEnded == writer.pc \in {"finished", "failed", "aborted"}

\* ... and the abort of a writer that did not end within two seconds.
WriterAbort ==
  /\ closed
  /\ ~WriterEnded
  /\ writer' = WriterAt("aborted")
  /\ UNCHANGED <<q, closed, dropped, changed, handler, guest, streak, passed>>

-----------------------------------------------------------------------------
Init ==
  /\ q = EmptyQueues
  /\ closed = FALSE
  /\ dropped = 0
  /\ changed = FALSE
  /\ writer = WriterAt("start")
  /\ handler = [r \in Requests |-> IdleHandler]
  /\ guest = [o \in Objects |-> IdleGuest]
  /\ streak = 0
  /\ passed = [o \in Objects |-> 0]

WriterPoll == TakeControl \/ TakeData \/ WriterWait \/ WriterFinish

Next ==
  \/ \E r \in Requests : ControlStart(r) \/ ControlResume(r) \/ ControlAbort(r)
  \/ TryControl
  \/ \E o \in Objects, text \in Lengths : TryData(o, text) \/ DataStart(o, text)
  \/ \E o \in Objects : DataResume(o) \/ RemoveRequestOf(o) \/ RemoveObjectOf(o)
  \/ WriterPoll \/ Write \/ WriteFail
  \/ Close \/ WriterAbort

Spec == Init /\ [][Next]_vars

\* The scheduler polls a task that is ready, and the embedder "reads stdout
\* continuously" (docs/PROTOCOL.md), so a write completes.  Nothing says that
\* a write fails, that the session closes, or that anybody sends.
Fairness ==
  /\ WF_vars(WriterPoll)
  /\ WF_vars(Write)
  /\ \A o \in Objects : WF_vars(DataResume(o))
  /\ \A r \in Requests : WF_vars(ControlResume(r))

FairSpec == Spec /\ Fairness

-----------------------------------------------------------------------------
(* Properties.                                                             *)

FrameLens == {FrameLen(text) : text \in Lengths}
Frame == [len : FrameLens, req : Objects \cup {NoId}]
ControlFrame == [from : Requests \cup {Notice},
                 body : {"reply", "RESPONSE_TOO_LARGE"}]

\* The shape of the queues; ByteAccounting says what the total is.
QueuesTyped(x) ==
  /\ DOMAIN x = {"control", "data", "ready", "bytes", "burst"}
  /\ x.control \in Seq(ControlFrame)
  /\ DOMAIN x.data \subseteq Objects
  /\ x.data \in [DOMAIN x.data -> Seq(Frame)]
  /\ x.ready \in Seq(Objects)
  /\ x.burst \in 0..BURST

WriterPcs == {"start", "parked", "woken", "writing", "finished", "failed", "aborted"}

TasksTyped ==
  /\ closed \in BOOLEAN
  /\ changed \in BOOLEAN
  /\ dropped \in 0..DROPPED_MAX
  /\ writer.pc \in WriterPcs
  /\ writer.from \in Objects \cup {Control}
  /\ handler \in [Requests -> [pc : {"idle", "parked", "woken"},
                              body : {"reply", "RESPONSE_TOO_LARGE"}]]
  /\ guest \in [Objects -> [pc : {"idle", "parked", "woken", "returned"}, len : Nat]]
  /\ \A o \in Objects : guest[o].pc \in {"parked", "woken"} => guest[o].len \in FrameLens
  /\ streak \in Nat
  /\ passed \in [Objects -> Nat]

\* Type correctness: every queue holds frames of its kind, the map and the
\* queue of names know only objects, and the control burst and the count of
\* dropped frames stay within their bounds.
TypeOK == QueuesTyped(q) /\ TasksTyped

\* "ready queue invariant" and "nonempty queue", the two expect() calls of
\* next(), never panic, whatever pushes, removals and pops came before: the
\* objects in "ready" are exactly those with a queue, each once, and no
\* queue is empty.
ReadyQueueInvariant == TypeOK /\ ReadyMatchesData(q)

\* The running total q.bytes, maintained by five methods, is the number of
\* bytes in the data queues; it never goes below zero (usize would wrap) and
\* the per-object and total limits of push_data hold.
ByteAccounting ==
  /\ q.bytes = SumFunction([o \in DOMAIN q.data |-> FrameBytes(q.data[o])])
  /\ q.bytes <= DATA_BYTES
  /\ \A o \in DOMAIN q.data : FrameBytes(q.data[o]) <= OBJECT_BYTES

\* No lost wakeup of the writer: it never sleeps while a frame is queued,
\* although notify_one() may come before, while or after it looks.
WriterNeverSleepsOnWork ==
  writer.pc = "parked" => q.control = <<>> /\ q.ready = <<>>

\* No lost wakeup of a sender: nobody sleeps although its frame fits.  Room
\* appears when the writer takes a frame, and when the requests or the queue
\* of another object are removed.
SendersNeverSleepOnRoom ==
  ~closed =>
    /\ \A r \in Requests : handler[r].pc = "parked" => ~ControlRoom(q)
    /\ \A o \in Objects : guest[o].pc = "parked" => ~DataRoom(q, o, guest[o].len)

\* "control output gets priority with an eight-frame burst limit": between
\* two data frames at most BURST control frames pass a waiting object.
BurstBound == streak <= BURST

\* What makes BurstBound inductive: the counter of next() never lags behind
\* the frames that really passed, also when control frames were taken while
\* no object waited, and whatever removals emptied "ready" in between.
StreakWithinBurst == streak <= q.burst

\* "Data output is round-robin": an object that has output waits for at most
\* one frame of every other object, whatever they send meanwhile.
RoundRobinBound == \A o \in Objects : passed[o] < Cardinality(Objects)

\* Every object with output gets a frame written unless its output is
\* removed or the session closes, even when control frames never stop.
EveryObjectIsServed ==
  \A o \in Objects :
    (o \in Ready) ~> (o \notin Ready \/ writer.from = o \/ closed)

\* A closed session releases everybody: the senders in control() and data()
\* return, and the writer ends.
ClosedReleasesAll ==
  closed ~> /\ WriterEnded
            /\ \A r \in Requests : handler[r].pc = "idle"
            /\ \A o \in Objects : guest[o].pc # "parked"

\* The outbox implements the channel of module OutputChannel: per queue first
\* in first out, nothing lost, duplicated or handed out twice, and only the
\* removals that the code asks for.
Channel == INSTANCE OutputChannel WITH
  Frames <- Frame,
  ControlFrames <- ControlFrame,
  None <- NoFrame,
  control <- q.control,
  data <- [o \in Objects |-> FramesOf(q, o)],
  out <- IF writer.pc = "writing" THEN writer.frame ELSE NoFrame

ImplementsChannel == Channel!Spec

\* What comments and docs say of the end of a session: the frames queued
\* before "closed" are written before the writer ends on its own.
DrainedWhenFinished ==
  writer.pc = "finished" => q.control = <<>> /\ q.ready = <<>>
=============================================================================
