------------------------------- MODULE Mailbox ------------------------------
(***************************************************************************)
(* The mailbox of one object (src/src/runtime.rs) between the requests     *)
(* that deliver events and the guest that waits for one with               *)
(* sf_event_next (h_event in src/src/helpers.rs).                          *)
(*                                                                         *)
(* One action is one poll.  deliver() and clear() do not wait; receive()   *)
(* waits on the Notify "changed" under a timeout, which polls receive()    *)
(* before it looks at the timer.  When receive() has returned, the helper  *)
(* puts the event into the handle table of the guest, which may be full.   *)
(*                                                                         *)
(* An event is its id and its encoded size.  MaxAccepts bounds the         *)
(* histories.  Definitions named Mut... are faulty variants of the         *)
(* definition after them.                                                  *)
(***************************************************************************)
EXTENDS Integers, FiniteSets, SequencesExt

CONSTANTS EventIds,
          Sizes,             \* encoded sizes of events
          MAX_VALUE_BYTES,   \* of one event (16 KiB)
          MAX_ENTRIES,       \* of the mailbox (32)
          MAX_BYTES,         \* of the mailbox (32 KiB)
          WINDOW,            \* ids remembered (128)
          MAX_HANDLES,       \* of the guest (128)
          MaxAccepts         \* bound of the model: events accepted

ASSUME MailboxAssumption ==
  /\ Sizes \subseteq Nat
  /\ {MAX_VALUE_BYTES, MAX_ENTRIES, MAX_BYTES, MAX_HANDLES, MaxAccepts} \subseteq Nat
  /\ WINDOW \in Nat \ {0}

VARIABLES entries,    \* Mailbox::entries, of [id, size]
          bytes,      \* Mailbox::bytes
          recent,     \* Mailbox::recent
          changed,    \* a permit is stored in Mailbox::changed
          receiver,   \* receive() of the guest: "none", "parked", "woken"
          handles,    \* handles the guest owns
          life,       \* "accepting" (Loaded to Running), "stopping", "over"
          accepted,   \* history: ids accepted, in order
          taken       \* history: ids taken out of the mailbox, in order

mvars == <<entries, bytes, recent, changed, receiver, handles, life, accepted, taken>>

-----------------------------------------------------------------------------
(* Mailbox::deliver.                                                       *)

IsDuplicate(id) == Contains(recent, id)

Fits(size) ==
  /\ size <= MAX_VALUE_BYTES
  /\ Len(entries) < MAX_ENTRIES
  /\ bytes + size <= MAX_BYTES

MutRememberLess(ids, id) ==              \* the window is one short
  Append(IF Len(ids) >= WINDOW - 1 THEN Tail(ids) ELSE ids, id)

\* The window forgets its oldest id when it is full.
Remember(ids, id) == Append(IF Len(ids) = WINDOW THEN Tail(ids) ELSE ids, id)

MutDeliverSilently(id, size) ==          \* changed.notify_one() forgotten
  /\ life = "accepting"
  /\ ~IsDuplicate(id)
  /\ Fits(size)
  /\ Len(accepted) < MaxAccepts
  /\ entries' = Append(entries, [id |-> id, size |-> size])
  /\ bytes' = bytes + size
  /\ recent' = Remember(recent, id)
  /\ accepted' = Append(accepted, id)
  /\ UNCHANGED <<changed, receiver, handles, life, taken>>

\* A duplicate is acknowledged, an event that does not fit is refused; both
\* leave the mailbox as it is.
Deliver(id, size) ==
  /\ life = "accepting"
  /\ ~IsDuplicate(id)
  /\ Fits(size)
  /\ Len(accepted) < MaxAccepts
  /\ entries' = Append(entries, [id |-> id, size |-> size])
  /\ bytes' = bytes + size
  /\ recent' = Remember(recent, id)
  /\ accepted' = Append(accepted, id)
  /\ IF receiver = "parked"
     THEN receiver' = "woken" /\ UNCHANGED changed
     ELSE changed' = TRUE /\ UNCHANGED receiver
  /\ UNCHANGED <<handles, life, taken>>

-----------------------------------------------------------------------------
(* h_event: receive() under a timeout, then the handle.                    *)

MutTakeFirst ==                          \* the latest event is taken first
  /\ entries' = Front(entries)
  /\ bytes' = bytes - Last(entries).size
  /\ taken' = Append(taken, Last(entries).id)
  /\ handles' = IF handles < MAX_HANDLES THEN handles + 1 ELSE handles
  /\ receiver' = "none"

\* The event is gone from the mailbox also when no handle is left for it.
TakeFirst ==
  /\ entries' = Tail(entries)
  /\ bytes' = bytes - Head(entries).size
  /\ taken' = Append(taken, Head(entries).id)
  /\ handles' = IF handles < MAX_HANDLES THEN handles + 1 ELSE handles
  /\ receiver' = "none"

ReceiveNow ==
  /\ life = "accepting"
  /\ receiver = "none"
  /\ entries # <<>>
  /\ TakeFirst
  /\ UNCHANGED <<recent, changed, life, accepted>>

\* A permit left by an event that was already taken turns the loop once.
ReceiveWaits ==
  /\ life = "accepting"
  /\ receiver = "none"
  /\ entries = <<>>
  /\ changed' = FALSE
  /\ receiver' = "parked"
  /\ UNCHANGED <<entries, bytes, recent, handles, life, accepted, taken>>

\* The loop looks at the entries again; only deliver() notifies, so there is one.
ReceiveWakes ==
  /\ life = "accepting"
  /\ receiver = "woken"
  /\ TakeFirst
  /\ UNCHANGED <<recent, changed, life, accepted>>

\* The timer is polled after receive(): a waiting event wins.
ReceiveTimeout ==
  /\ life = "accepting"
  /\ receiver = "parked"
  /\ receiver' = "none"
  /\ UNCHANGED <<entries, bytes, recent, changed, handles, life, accepted, taken>>

DropHandle ==
  /\ life = "accepting" /\ receiver = "none"
  /\ handles > 0
  /\ handles' = handles - 1
  /\ UNCHANGED <<entries, bytes, recent, changed, receiver, life, accepted, taken>>

\* stop() of a started object: events are refused from now on, and the biased
\* select of the object task no longer polls the guest.
StopRequested ==
  /\ life = "accepting"
  /\ life' = "stopping"
  /\ UNCHANGED <<entries, bytes, recent, changed, receiver, handles, accepted, taken>>

MutEmptied ==                            \* the byte count stays
  entries' = <<>> /\ recent' = <<>> /\ UNCHANGED bytes

\* clear().
Emptied == entries' = <<>> /\ bytes' = 0 /\ recent' = <<>>

\* The object ends, by itself or stopped, possibly while the guest waits.
ObjectEnds ==
  /\ life # "over"
  /\ life' = "over"
  /\ Emptied
  /\ receiver' = "none"
  /\ handles' = 0
  /\ UNCHANGED <<changed, accepted, taken>>

-----------------------------------------------------------------------------
Init ==
  /\ entries = <<>> /\ bytes = 0 /\ recent = <<>>
  /\ changed = FALSE /\ receiver = "none" /\ handles = 0 /\ life = "accepting"
  /\ accepted = <<>> /\ taken = <<>>

Next ==
  \/ \E id \in EventIds, size \in Sizes : Deliver(id, size)
  \/ ReceiveNow \/ ReceiveWaits \/ ReceiveWakes \/ ReceiveTimeout
  \/ DropHandle \/ StopRequested \/ ObjectEnds

Spec == Init /\ [][Next]_mvars

-----------------------------------------------------------------------------
(* Properties.                                                             *)

TypeOK ==
  /\ entries \in Seq([id : EventIds, size : Sizes])
  /\ bytes \in 0..MAX_BYTES
  /\ recent \in Seq(EventIds)
  /\ changed \in BOOLEAN /\ life \in {"accepting", "stopping", "over"}
  /\ receiver \in {"none", "parked", "woken"}
  /\ handles \in 0..MAX_HANDLES
  /\ accepted \in Seq(EventIds) /\ taken \in Seq(EventIds)

\* The byte count is the sum of the sizes of the entries, through deliveries,
\* receipts and the clearing, and no mailbox exceeds its limits.
BytesAreCounted ==
  /\ TypeOK
  /\ bytes = SumFunction([i \in DOMAIN entries |-> entries[i].size])
  /\ Len(entries) <= MAX_ENTRIES

\* "Delivery is FIFO per object": the accepted events are those taken, in
\* order, followed by those that wait; nothing is lost or repeated before
\* the object ends, whatever timeouts happen in between.
DeliveryIsFifo ==
  LET waiting == [i \in DOMAIN entries |-> entries[i].id]
  IN  IF life = "over" THEN IsPrefix(taken, accepted) ELSE accepted = taken \o waiting

\* "The most recent 128 accepted event IDs are deduplicated", including after
\* consumption: the same id is accepted again only after WINDOW others.  What
\* is remembered are accepted ids and nothing else, so that an event that was
\* refused because the mailbox was full can be delivered again.
WindowIsExact ==
  /\ \A i, j \in DOMAIN accepted :
       i < j /\ accepted[i] = accepted[j] => j - i > WINDOW
  /\ life # "over" => IsSuffix(recent, accepted) /\ Len(recent) <= WINDOW

\* The guest never sleeps while an event waits, also when the notification
\* came before it slept, or while it handled an earlier event.
ReceiverNeverSleepsOnEvent == receiver = "parked" => entries = <<>>
=============================================================================
