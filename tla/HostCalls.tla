----------------------------- MODULE HostCalls ------------------------------
(***************************************************************************)
(* Guest-to-host RPC (src/src/host.rs) through the outbox: the serial ids, *)
(* the table of pending calls, the guard that cleans up after a call, the  *)
(* routing of replies read from stdin, and what reaches the embedder.      *)
(*                                                                         *)
(* One action is one poll.  A guest has one call at a time, because the    *)
(* helper h_call suspends the program until the call returns; the call is  *)
(*   "sending"  while Outbox::data waits for room,                         *)
(*   "sent"     while the oneshot receiver waits for the answer.           *)
(* Module Outbox shows that a sender is woken when room appears, so here a *)
(* sending call is polled when its frame fits.  All data frames have       *)
(* length 1: the byte limits count frames.                                 *)
(*                                                                         *)
(* The embedder is not trusted: it replies to any id, any number of times. *)
(* Definitions named Mut... are faulty variants of the definition after    *)
(* them.                                                                   *)
(***************************************************************************)
EXTENDS OutboxQueues

CONSTANTS Objects,
          MAX_SERIAL,     \* the largest serial number (u64::MAX)
          MAX_PENDING,    \* entries of the pending table (16384)
          IGNORED_MAX     \* where "ignored" saturates (u64::MAX)

ASSUME HostAssumption ==
  /\ MAX_SERIAL \in Nat
  /\ MAX_PENDING \in Nat
  /\ IGNORED_MAX \in Nat
  /\ IsFiniteSet(Objects)

VARIABLES q,          \* the outbox
          closed,     \* Outbox::closed
          next,       \* Host::next, the last serial number used
          pending,    \* Host::pending, [ids -> Objects]
          ignored,    \* Host::ignored
          call,       \* [Objects -> the call of the guest, or NoCall]
          ended,      \* objects whose task has ended
          written,    \* history: ids of the host.call frames on the wire
          cancelled,  \* history: ids of the host.cancel frames on the wire
          reply,      \* history: the reply that was accepted for an id
          outcome     \* history: what the call of an id returned

hvars == <<q, closed, next, pending, ignored, call, ended,
           written, cancelled, reply, outcome>>

Ids == 1..MAX_SERIAL
NoCall == [id |-> 0, pc |-> "none", rx |-> "empty"]

\* What arrives in a reply: a result within the limits, one beyond them, an
\* error (or anything without a usable result).
Results == {"OK", "LIMIT", "HOST_ERROR"}

-----------------------------------------------------------------------------
(* Functions of the queues and of the pending table.                       *)

CallFrame(id) == [len |-> 1, req |-> id]
LogFrame == [len |-> 1, req |-> 0]         \* no serial number is 0
CancelFrame(id) == [kind |-> "host.cancel", id |-> id]
OtherFrame == [kind |-> "other", id |-> 0]

\* try_control(): best effort.
TryControl(x, f) == IF ~closed /\ ControlRoom(x) THEN PushControl(x, f) ELSE x

Unrouted(p, ids) == [id \in DOMAIN p \ ids |-> p[id]]

MutDropGuard(x, o, c) ==                \* the queued request stays
  IF c.id \in DOMAIN pending /\ c.pc = "sent"
  THEN TryControl(x, CancelFrame(c.id)) ELSE x

MutDropGuardAlways(x, o, c) ==          \* also after an answer
  LET y == RemoveRequest(x, o, c.id)
  IN  IF c.pc = "sent" THEN TryControl(y, CancelFrame(c.id)) ELSE y

\* Drop of CallGuard: the queued request goes first; the embedder hears of
\* the cancellation when the call was still pending and "sent" was set.
DropGuard(x, o, c) ==
  LET y == RemoveRequest(x, o, c.id)
  IN  IF c.id \in DOMAIN pending /\ c.pc = "sent"
      THEN TryControl(y, CancelFrame(c.id)) ELSE y

-----------------------------------------------------------------------------
(* Host::call.                                                             *)

\* The call of o returns r and its guard is dropped, in the same poll.
Return(o, c, r) ==
  /\ q' = DropGuard(q, o, c)
  /\ pending' = Unrouted(pending, {c.id})
  /\ call' = [call EXCEPT ![o] = NoCall]
  /\ outcome' = [outcome EXCEPT ![c.id] = r]

\* A refused call (the table is full, the serial numbers are used up) changes
\* nothing.  Otherwise the id is routed before data() is polled, and the
\* first poll may find the outbox closed, full, or with room.
CallStart(o) ==
  LET id == next + 1
      c  == [id |-> id, pc |-> "sending", rx |-> "empty"]
  IN  /\ o \notin ended
      /\ call[o] = NoCall
      /\ Cardinality(DOMAIN pending) < MAX_PENDING
      /\ next < MAX_SERIAL
      /\ next' = id
      /\ \/ /\ closed
            /\ pending' = Unrouted(pending, {id})
            /\ q' = RemoveRequest(q, o, id)
            /\ outcome' = [outcome EXCEPT ![id] = "CLOSED"]
            /\ UNCHANGED call
         \/ /\ ~closed /\ DataRoom(q, o, 1)
            /\ pending' = Put(pending, id, o)
            /\ q' = PushData(q, o, CallFrame(id))
            /\ call' = [call EXCEPT ![o] = [c EXCEPT !.pc = "sent"]]
            /\ UNCHANGED outcome
         \/ /\ ~closed /\ ~DataRoom(q, o, 1)
            /\ pending' = Put(pending, id, o)
            /\ call' = [call EXCEPT ![o] = c]
            /\ UNCHANGED <<q, outcome>>
      /\ UNCHANGED <<closed, ignored, ended, written, cancelled, reply>>

\* data() finds room or the end of the session.  An answer that is already
\* there is returned in the same poll.
CallSend(o) ==
  LET c    == call[o]
      sent == [c EXCEPT !.pc = "sent"]
  IN  /\ c.pc = "sending"
      /\ \/ closed /\ Return(o, c, "CLOSED")
         \/ /\ ~closed /\ DataRoom(q, o, 1) /\ c.rx = "empty"
            /\ q' = PushData(q, o, CallFrame(c.id))
            /\ call' = [call EXCEPT ![o] = sent]
            /\ UNCHANGED <<pending, outcome>>
         \/ /\ ~closed /\ DataRoom(q, o, 1) /\ c.rx # "empty"
            /\ q' = RemoveRequest(PushData(q, o, CallFrame(c.id)), o, c.id)
            /\ pending' = Unrouted(pending, {c.id})
            /\ call' = [call EXCEPT ![o] = NoCall]
            /\ outcome' = [outcome EXCEPT ![c.id] = c.rx]
      /\ UNCHANGED <<closed, next, ignored, ended, written, cancelled, reply>>

CallAnswer(o) ==
  /\ call[o].pc = "sent"
  /\ call[o].rx # "empty"
  /\ Return(o, call[o], call[o].rx)
  /\ UNCHANGED <<closed, next, ignored, ended, written, cancelled, reply>>

MutCallTimeout(o) ==                    \* the timer is looked at first
  /\ call[o].pc \in {"sending", "sent"}
  /\ Return(o, call[o], "TIMEOUT")
  /\ UNCHANGED <<closed, next, ignored, ended, written, cancelled, reply>>

MutCallTimeoutLate(o) ==                \* the timer starts when the call is sent
  /\ call[o].pc = "sent" /\ call[o].rx = "empty"
  /\ Return(o, call[o], "TIMEOUT")
  /\ UNCHANGED <<closed, next, ignored, ended, written, cancelled, reply>>

\* tokio::time::timeout polls the operation before the timer: the call times
\* out only when the operation cannot make progress in the same poll.
CallTimeout(o) ==
  /\ \/ call[o].pc = "sending" /\ ~closed /\ ~DataRoom(q, o, 1)
     \/ call[o].pc = "sent" /\ call[o].rx = "empty"
  /\ Return(o, call[o], "TIMEOUT")
  /\ UNCHANGED <<closed, next, ignored, ended, written, cancelled, reply>>

-----------------------------------------------------------------------------
(* Host::response, from the reader of stdin.                               *)

Answered(o, id, r) == IF call[o].id = id THEN [call[o] EXCEPT !.rx = r] ELSE call[o]

MutResponse(id, r) ==                   \* the routing entry stays
  /\ id \in DOMAIN pending
  /\ call' = [o \in Objects |-> Answered(o, id, r)]
  /\ reply' = [reply EXCEPT ![id] = r]
  /\ UNCHANGED <<q, closed, next, pending, ignored, ended, written, cancelled, outcome>>

\* The first reply to a pending id is sent through the oneshot channel.
Response(id, r) ==
  /\ id \in DOMAIN pending
  /\ pending' = Unrouted(pending, {id})
  /\ call' = [o \in Objects |-> Answered(o, id, r)]
  /\ reply' = [reply EXCEPT ![id] = r]
  /\ UNCHANGED <<q, closed, next, ignored, ended, written, cancelled, outcome>>

\* Unknown, repeated, late and old-session replies are counted.
ResponseIgnored ==
  /\ ignored' = IF ignored < IGNORED_MAX THEN ignored + 1 ELSE ignored
  /\ UNCHANGED <<q, closed, next, pending, call, ended, written, cancelled, reply, outcome>>

-----------------------------------------------------------------------------
(* The end of an object task (Runtime::start): the program and with it the *)
(* guard of a call in progress are dropped, then cancel_object() and       *)
(* remove_object() run and the state notice is sent.                       *)

RoutedTo(p, o) == {id \in DOMAIN p : p[id] = o}

\* cancel_object(): a notification for each call that is still routed.
CancelObject(x, ids) == FoldSet(LAMBDA id, y : TryControl(y, CancelFrame(id)), x, ids)

ObjectEnd(o) ==
  LET c == call[o]
      x == IF c = NoCall THEN q ELSE DropGuard(q, o, c)
      p == Unrouted(pending, {c.id})
      y == RemoveObject(CancelObject(x, RoutedTo(p, o)), o)
  IN  /\ o \notin ended
      /\ ended' = ended \cup {o}
      /\ q' = TryControl(y, OtherFrame)
      /\ pending' = Unrouted(p, RoutedTo(p, o))
      /\ call' = [call EXCEPT ![o] = NoCall]
      /\ outcome' = IF c = NoCall THEN outcome ELSE [outcome EXCEPT ![c.id] = "dropped"]
      /\ UNCHANGED <<closed, next, ignored, written, cancelled, reply>>

-----------------------------------------------------------------------------
(* The rest of the program: logs, other control frames, the writer, the    *)
(* end of the session.                                                     *)

Log(o) ==
  /\ o \notin ended
  /\ call[o] = NoCall
  /\ ~closed /\ DataRoom(q, o, 1)
  /\ q' = PushData(q, o, LogFrame)
  /\ UNCHANGED <<closed, next, pending, ignored, call, ended, written, cancelled, reply, outcome>>

OtherControl ==
  /\ ~closed /\ ControlRoom(q)
  /\ q' = PushControl(q, OtherFrame)
  /\ UNCHANGED <<closed, next, pending, ignored, call, ended, written, cancelled, reply, outcome>>

WriteControl ==
  /\ TakesControl(q)
  /\ q' = PopControl(q)
  /\ cancelled' = cancelled \cup ({Head(q.control).id} \ {0})
  /\ UNCHANGED <<closed, next, pending, ignored, call, ended, written, reply, outcome>>

WriteData ==
  /\ TakesData(q)
  /\ q' = PopData(q)
  /\ written' = written \cup ({Head(q.data[Head(q.ready)]).req} \ {0})
  /\ UNCHANGED <<closed, next, pending, ignored, call, ended, cancelled, reply, outcome>>

Close ==
  /\ ~closed
  /\ closed' = TRUE
  /\ UNCHANGED <<q, next, pending, ignored, call, ended, written, cancelled, reply, outcome>>

Init ==
  /\ q = EmptyQueues
  /\ closed = FALSE
  /\ next = 0
  /\ pending = <<>>
  /\ ignored = 0
  /\ call = [o \in Objects |-> NoCall]
  /\ ended = {}
  /\ written = {} /\ cancelled = {}
  /\ reply = [id \in Ids |-> "none"]
  /\ outcome = [id \in Ids |-> "none"]

Next ==
  \/ \E o \in Objects : \/ CallStart(o) \/ CallSend(o) \/ CallAnswer(o) \/ CallTimeout(o)
                        \/ ObjectEnd(o) \/ Log(o)
  \/ \E id \in Ids, r \in Results : Response(id, r)
  \/ ResponseIgnored
  \/ OtherControl \/ WriteControl \/ WriteData \/ Close

Spec == Init /\ [][Next]_hvars

\* The scheduler polls a ready task, and a timer fires (h_call caps it at a
\* day).  The embedder may be silent, and stdout may be blocked for ever.
FairSpec ==
  Spec /\ \A o \in Objects :
            WF_hvars(CallSend(o) \/ CallAnswer(o) \/ CallTimeout(o))

-----------------------------------------------------------------------------
(* Properties.                                                             *)

CallIds == {call[o].id : o \in Objects} \ {0}
Carriers(id) ==
  UNION {{<<o, i>> : i \in {j \in DOMAIN q.data[o] : q.data[o][j].req = id}} : o \in DOMAIN q.data}
Queued(id) == Carriers(id) # {}
CancelPositions(id) == {i \in DOMAIN q.control : q.control[i] = CancelFrame(id)}
CancelIssued(id) == id \in cancelled \/ CancelPositions(id) # {}

TypeOK ==
  /\ closed \in BOOLEAN
  /\ next \in 0..MAX_SERIAL
  /\ ignored \in 0..IGNORED_MAX
  /\ pending \in [DOMAIN pending -> Objects] /\ DOMAIN pending \subseteq Ids
  /\ call \in [Objects -> [id : 0..MAX_SERIAL, pc : {"none", "sending", "sent"},
                           rx : Results \cup {"empty"}]]
  /\ ended \subseteq Objects
  /\ written \subseteq Ids /\ cancelled \subseteq Ids
  /\ reply \in [Ids -> Results \cup {"none"}]
  /\ outcome \in [Ids -> Results \cup {"none", "TIMEOUT", "CLOSED", "dropped"}]

\* The routing table holds exactly the calls in progress that nobody has
\* answered, each routed to its own object: no entry outlives its call
\* whichever way the call ends, and no live call is unroutable.
PendingIsExact ==
  /\ TypeOK
  /\ \A id \in Ids : id \in DOMAIN pending <=>
       \E o \in Objects : call[o].id = id /\ call[o].rx = "empty" /\ pending[id] = o

\* Nothing is left in the outbox to be executed in vain: a request that waits
\* there waits once and belongs to a call in progress, whether answers,
\* timeouts or the end of its object came in between, and an object that has
\* ended has no frame of any kind queued.
NothingOutlivesItsOwner ==
  /\ \A id \in Ids : Queued(id) => id \in CallIds /\ Cardinality(Carriers(id)) = 1
  /\ ended \cap DOMAIN q.data = {}

\* A cancellation is announced once at most, only for a call that has ended,
\* and never for a call whose answer was accepted.  It never overtakes its
\* request, although control frames pass data frames: once the cancellation is
\* queued or written, the request is not in the outbox any more.
CancelIsTruthful ==
  \A id \in Ids : CancelIssued(id) =>
    /\ id \notin cancelled \/ CancelPositions(id) = {}
    /\ Cardinality(CancelPositions(id)) <= 1
    /\ id \notin CallIds
    /\ reply[id] = "none"
    /\ ~Queued(id)

\* A call returns the reply to its own id, and an answer that came in time is
\* not lost to the timeout: a request that reached the embedder times out
\* only if no reply to it was accepted.
ReplyReachesItsCall ==
  \A id \in Ids :
    /\ outcome[id] \in Results => outcome[id] = reply[id]
    /\ outcome[id] = "TIMEOUT" /\ id \in written => reply[id] = "none"

\* What a guest and the embedder may rely on, module CallProtocol, whatever
\* the queues, the table, the guards and the writer do in between.
Protocol == INSTANCE CallProtocol WITH
  Replies <- Results,
  last <- next,
  open <- [o \in Objects |-> call[o].id],
  over <- ended,
  asked <- written,
  withdrawn <- cancelled,
  answer <- reply,
  result <- outcome

\* The calls implement that protocol: a request leaves the outbox only while
\* its call is open, a cancellation only after a call was given up without an
\* answer, and one answer at most reaches the guest, by the id it was asked.
ImplementsProtocol == Protocol!Spec

\* Every call returns, even if the embedder is silent and stdout is blocked.
EveryCallReturns == \A o \in Objects : call[o].pc # "none" ~> call[o].pc = "none"
=============================================================================
