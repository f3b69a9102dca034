---------------------------- MODULE OutboxQueues ----------------------------
(***************************************************************************)
(* The value behind Outbox::queues (src/src/outbox.rs): the control queue, *)
(* one data queue per object that has output, the round-robin order        *)
(* "ready" of those objects, the byte total and the control burst.         *)
(*                                                                         *)
(* Every method of Outbox borrows the RefCell once and leaves no await     *)
(* inside the borrow, so what one method does to the queues is one         *)
(* function from a queues value to a queues value.  Those functions are    *)
(* below; the modules of the components apply them in their actions.       *)
(*                                                                         *)
(* A control frame is whatever the module that uses this one puts in it.   *)
(* A data frame is [len, req]: its encoded length and the JSON-RPC id it   *)
(* carries, NoId for a log notification.                                   *)
(*                                                                         *)
(* Definitions named Mut... are faulty variants of the definition after    *)
(* them, used to confirm that the properties notice the fault.             *)
(***************************************************************************)
EXTENDS Integers, FiniteSets, SequencesExt

CONSTANTS CONTROL_SLOTS,   \* frames the control queue holds (64)
          DATA_BYTES,      \* bytes all data queues hold (4 MiB)
          OBJECT_BYTES,    \* bytes the queue of one object holds (64 KiB)
          BURST            \* control frames in a row while data waits (8)

ASSUME BoundsAssumption ==
  /\ CONTROL_SLOTS \in Nat \ {0}
  /\ DATA_BYTES \in Nat
  /\ OBJECT_BYTES \in Nat
  /\ BURST \in Nat \ {0}

NoId == "no id"

EmptyQueues ==
  [control |-> <<>>, data |-> <<>>, ready |-> <<>>, bytes |-> 0, burst |-> 0]

-----------------------------------------------------------------------------
(* Lengths.                                                                *)

\* The bytes of a queue.
FrameBytes(s) == SumFunction([i \in DOMAIN s |-> s[i].len])

\* q.data.get(object), as the empty queue when the map has no entry.
FramesOf(q, o) == IF o \in DOMAIN q.data THEN q.data[o] ELSE <<>>

ControlRoom(q) == Len(q.control) < CONTROL_SLOTS

DataRoom(q, o, len) ==
  /\ FrameBytes(FramesOf(q, o)) + len <= OBJECT_BYTES
  /\ q.bytes + len <= DATA_BYTES

-----------------------------------------------------------------------------
(* Senders.                                                                *)

PushControl(q, f) == [q EXCEPT !.control = Append(@, f)]

\* entry(o).or_default() of the BTreeMap, as a function with a new domain.
Put(data, o, frames) ==
  [x \in DOMAIN data \cup {o} |-> IF x = o THEN frames ELSE data[x]]

Without(data, o) == [x \in DOMAIN data \ {o} |-> data[x]]

MutPushData(q, o, f) ==                \* push_front
  [q EXCEPT !.data = Put(@, o, <<f>> \o FramesOf(q, o)),
            !.ready = IF o \in DOMAIN q.data THEN @ ELSE Append(@, o),
            !.bytes = @ + f.len]

PushData(q, o, f) ==
  [q EXCEPT !.data = Put(@, o, Append(FramesOf(q, o), f)),
            !.ready = IF o \in DOMAIN q.data THEN @ ELSE Append(@, o),
            !.bytes = @ + f.len]

-----------------------------------------------------------------------------
(* Removal.  The code's two calls of retain drop every match; an object    *)
(* occurs once in "ready" (Outbox!ReadyQueueInvariant) and an id is        *)
(* carried by one frame (HostCalls!NothingOutlivesItsOwner), so dropping   *)
(* the first match is the same.                                            *)

WithoutId(frames, id) == RemoveFirstMatch(frames, LAMBDA f : f.req = id)

MutRemoveRequestReady(q, o, id) ==     \* "ready" keeps the object
  LET left == WithoutId(q.data[o], id)
  IN  IF o \notin DOMAIN q.data THEN q
      ELSE [q EXCEPT
              !.bytes = @ - (FrameBytes(q.data[o]) - FrameBytes(left)),
              !.data  = IF left = <<>> THEN Without(@, o) ELSE Put(@, o, left)]

MutRemoveRequestBytes(q, o, id) ==     \* the bytes stay counted
  LET left == WithoutId(q.data[o], id)
  IN  IF o \notin DOMAIN q.data THEN q
      ELSE [q EXCEPT
              !.data  = IF left = <<>> THEN Without(@, o) ELSE Put(@, o, left),
              !.ready = IF left = <<>> THEN RemoveFirst(@, o) ELSE @]

RemoveRequest(q, o, id) ==
  LET left == WithoutId(q.data[o], id)
  IN  IF o \notin DOMAIN q.data THEN q
      ELSE [q EXCEPT
              !.bytes = @ - (FrameBytes(q.data[o]) - FrameBytes(left)),
              !.data  = IF left = <<>> THEN Without(@, o) ELSE Put(@, o, left),
              !.ready = IF left = <<>> THEN RemoveFirst(@, o) ELSE @]

RemoveObject(q, o) ==
  [q EXCEPT !.bytes = @ - FrameBytes(FramesOf(q, o)),
            !.data  = Without(@, o),
            !.ready = RemoveFirst(@, o)]

-----------------------------------------------------------------------------
(* The writer's choice: control first, but at most BURST control frames in *)
(* a row while some object waits.  A burst of BURST or more is the same to *)
(* every test the code makes, so the counter stops there.                  *)

MutTakesControl(q) == q.control # <<>>

TakesControl(q) ==
  /\ q.control # <<>>
  /\ q.burst < BURST \/ q.ready = <<>>

MutTakesData(q) == q.control = <<>> /\ q.ready # <<>>   \* only without control

TakesData(q) == ~TakesControl(q) /\ q.ready # <<>>

PopControl(q) ==
  [q EXCEPT !.control = Tail(@),
            !.burst = IF @ < BURST THEN @ + 1 ELSE @]

\* The two expect() calls of next(): the object at the head of "ready" has a
\* queue, and the queue is not empty.  A false one is a panic of the writer.
HeadIsServable(q) ==
  /\ Head(q.ready) \in DOMAIN q.data
  /\ q.data[Head(q.ready)] # <<>>

MutPopData(q) ==                       \* the object stays first
  LET o    == Head(q.ready)
      f    == Head(q.data[o])
      left == Tail(q.data[o])
  IN  [q EXCEPT !.data  = IF left = <<>> THEN Without(@, o) ELSE Put(@, o, left),
                !.ready = IF left = <<>> THEN Tail(@) ELSE @,
                !.bytes = @ - f.len,
                !.burst = 0]

PopData(q) ==
  LET o    == Head(q.ready)
      f    == Head(q.data[o])
      left == Tail(q.data[o])
  IN  [q EXCEPT !.data  = IF left = <<>> THEN Without(@, o) ELSE Put(@, o, left),
                !.ready = IF left = <<>> THEN Tail(@) ELSE Append(Tail(@), o),
                !.bytes = @ - f.len,
                !.burst = 0]
-----------------------------------------------------------------------------
\* What the two expect() calls rely on: the objects in "ready" are exactly
\* those with a queue, each once, and no queue is empty.
ReadyMatchesData(q) ==
  /\ IsInjective(q.ready)
  /\ ToSet(q.ready) = DOMAIN q.data
  /\ \A o \in DOMAIN q.data : q.data[o] # <<>>
=============================================================================
