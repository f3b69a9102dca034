------------------------------- MODULE Guest --------------------------------
(***************************************************************************)
(* The helpers of a guest program (src/src/helpers.rs): its handle table,  *)
(* the JSON values and byte strings it owns, and the limits on them.       *)
(*                                                                         *)
(* One action is one helper call, or the completion of one that waits      *)
(* (sleep, yield, event, call); a guest that waits calls nothing.  r0 is   *)
(* what the guest gets back, read as the i64 the SDK declares.             *)
(*                                                                         *)
(* A JSON value is a tree: a function from the paths of its nodes, the     *)
(* root's being <<>>, to [kind, val].  A path is a sequence of keys; the   *)
(* children of an array have the keys 1, 2, ..., those of an object any    *)
(* numbers.  A string is known by its length, and so is a byte string; a   *)
(* number has val 0 if it is an i64.  Left out: guest memory (memcpy,      *)
(* memset, memcmp), the clocks, and logs.                                  *)
(*                                                                         *)
(* Definitions named Mut... are faulty variants of the definition after    *)
(* them.                                                                   *)
(***************************************************************************)
EXTENDS Integers, FiniteSets, SequencesExt

CONSTANTS MAX_HANDLES,      \* handles of one object (128)
          I64_MAX,          \* largest i64; ids are given while below (2^63 - 1)
          MAX_DEPTH,        \* nesting of a value (32)
          MAX_NODES,        \* nodes of a value (4096)
          MAX_VALUE_BYTES,  \* encoded length of a value (16384)
          Texts,            \* values the guest parses, and lengths it passes
          Lengths,
          Config,           \* the config of the object, a valid value
          Payloads,         \* event payloads, and results of host calls
          Capabilities      \* [name, arguments] with arguments: key -> value

ASSUME GuestAssumption ==
  /\ {MAX_HANDLES, I64_MAX, MAX_NODES} \subseteq Nat \ {0}
  /\ MAX_DEPTH \in Nat
  /\ MAX_VALUE_BYTES \in Nat /\ MAX_VALUE_BYTES >= 5     \* room for "false"
  /\ Lengths \subseteq Nat

VARIABLES handles,     \* [ids in use -> values]
          nextHandle,  \* NEXT_HANDLE, one counter for all objects
          used,        \* history: ids given to this or another object
          pending,     \* the helper that waits, "none", or "ended"
          mailbox,     \* events accepted and not taken
          r0           \* the result of the last helper

gvars == <<handles, nextHandle, used, pending, mailbox, r0>>

INVALID == -1
LIMIT == -2
TIMEOUT == -3
DENIED == -4
HOST_ERROR == -5
CLOSED == -6

\* status(i64) as u64, and back in the guest.
AsI64(u) == IF u <= I64_MAX THEN u ELSE u - 2 * (I64_MAX + 1)

-----------------------------------------------------------------------------
(* Values.                                                                 *)

Under(k, r) == <<k>> \o r
Leaf(kind, val) == [p \in {<<>>} |-> [kind |-> kind, val |-> val]]
Tree(kind, kids) ==
  [p \in {<<>>} \cup UNION {{Under(k, r) : r \in DOMAIN kids[k]} : k \in DOMAIN kids} |->
     IF p = <<>> THEN [kind |-> kind, val |-> 0] ELSE kids[Head(p)][Tail(p)]]

Kind(v) == v[<<>>].kind
Val(v) == v[<<>>].val
Keys(v) == {Head(p) : p \in DOMAIN v \ {<<>>}}        \* of the children of its root
Below(v, k) == {p \in DOMAIN v \ {<<>>} : Head(p) = k}
Kid(v, k) == [r \in {Tail(p) : p \in Below(v, k)} |-> v[Under(k, r)]]

Null == Leaf("null", 0)
Text(n) == Leaf("string", n)
BytesOf(n) == Leaf("bytes", n)

EventId == 101
Topic == 102
Payload == 103

\* json!({"event_id":..,"topic":..,"payload":..}) of sf.event.deliver.
Envelope(payload) ==
  Tree("object", [k \in {EventId, Topic, Payload} |->
                    IF k = Payload THEN payload ELSE Text(0)])

KeyLength(k) == CASE k = EventId -> 8 [] k = Topic -> 5 [] k = Payload -> 7
                  [] OTHER -> 1

\* What a node adds to the JSON text: what it says itself, with the brackets
\* of an empty array or object; its key with two quotes and a colon; and the
\* comma or the closing bracket that follows a child.
Parents(v) == {Front(p) : p \in DOMAIN v \ {<<>>}}
Own(v, p) ==
  CASE v[p].kind = "null"   -> 4
    [] v[p].kind = "bool"   -> IF v[p].val = 1 THEN 4 ELSE 5
    [] v[p].kind = "number" -> 1
    [] v[p].kind = "string" -> v[p].val + 2
    [] OTHER -> IF p \in Parents(v) THEN 1 ELSE 2
Entry(v, p) ==
  IF p = <<>> THEN 0
  ELSE 1 + (IF v[Front(p)].kind = "object" THEN KeyLength(Last(p)) + 3 ELSE 0)

\* serde_json::to_vec(v).len()
Encoded(v) == SumFunction([p \in DOMAIN v |-> Own(v, p) + Entry(v, p)])

MutVisit(v) == 1                               \* children are not visited

\* The walk of valid_value() through the nodes, in any order: how many there
\* are, or TooMuch as soon as one is too deep or one too many.
TooMuch == -1
Visit(v) ==
  FoldSet(LAMBDA p, count :
            IF count = TooMuch \/ Len(p) > MAX_DEPTH \/ count + 1 > MAX_NODES
            THEN TooMuch ELSE count + 1,
          0, DOMAIN v)

valid_value(v) == Visit(v) # TooMuch /\ Encoded(v) <= MAX_VALUE_BYTES

\* The values that serde_json makes: every node but the root has a parent.
Kinds == {"null", "bool", "number", "string", "array", "object"}
IsValue(v) ==
  /\ IsFiniteSet(DOMAIN v) /\ DOMAIN v \subseteq Seq(Nat) /\ <<>> \in DOMAIN v
  /\ v \in [DOMAIN v -> [kind : Kinds, val : Nat]]
  /\ \A p \in DOMAIN v \ {<<>>} : Front(p) \in DOMAIN v

\* load() accepts an object with a valid config only.
ASSUME ValuesAssumption ==
  /\ \A v \in Texts \cup Payloads \cup {Config} : IsValue(v)
  /\ valid_value(Config)

-----------------------------------------------------------------------------
(* The handle table.                                                       *)

json(h) == IF h \in DOMAIN handles /\ Kind(handles[h]) # "bytes"
           THEN {handles[h]} ELSE {}

Keep(h, v) == [x \in DOMAIN handles \cup {h} |-> IF x = h THEN v ELSE handles[x]]

\* A helper returns r without a new or changed handle.
Status(r) == r0' = r /\ UNCHANGED <<handles, nextHandle, used>>

Give(id, v) ==
  /\ handles' = Keep(id, v)
  /\ used' = used \cup {id}
  /\ r0' = AsI64(id)

MutInsert(v) ==                  \* the last id is given again and again
  IF Cardinality(DOMAIN handles) >= MAX_HANDLES THEN Status(LIMIT)
  ELSE /\ Give(nextHandle, v)
       /\ nextHandle' = IF nextHandle < I64_MAX THEN nextHandle + 1 ELSE nextHandle

\* GuestContext::insert.
Insert(v) ==
  IF Cardinality(DOMAIN handles) >= MAX_HANDLES \/ nextHandle >= I64_MAX
  THEN Status(LIMIT)
  ELSE Give(nextHandle, v) /\ nextHandle' = nextHandle + 1

\* Insert the one element of vs, or INVALID if there is none.
InsertOf(vs) == IF vs = {} THEN Status(INVALID) ELSE Insert(CHOOSE v \in vs : TRUE)

\* Another object takes an id from the shared counter.
OtherInserts ==
  /\ nextHandle < I64_MAX
  /\ nextHandle' = nextHandle + 1
  /\ used' = used \cup {nextHandle}
  /\ UNCHANGED <<handles, pending, mailbox, r0>>

-----------------------------------------------------------------------------
(* Helpers that return at once.                                            *)

\* Arguments: any handle, also a stale one, another object's or none.
Handles == used \cup {0}
KeyArgs == {1, 2}

Calls == pending = "none"
Quiet == UNCHANGED <<pending, mailbox>>

h_config == Calls /\ Insert(Config) /\ Quiet

h_drop(h) ==
  /\ Calls
  /\ IF h \in DOMAIN handles
     THEN /\ handles' = [x \in DOMAIN handles \ {h} |-> handles[x]]
          /\ r0' = 0
          /\ UNCHANGED <<nextHandle, used>>
     ELSE Status(INVALID)
  /\ Quiet

h_parse(v) ==
  /\ Calls
  /\ IF valid_value(v) THEN Insert(v) ELSE Status(LIMIT)
  /\ Quiet

\* Text that is no JSON.
h_parse_fails == Calls /\ Status(INVALID) /\ Quiet

\* h_get with a key, h_at with an index counted from 1 here.
Child(h, k, kind) ==
  {Kid(v, k) : v \in {w \in json(h) : Kind(w) = kind /\ k \in Keys(w)}}

h_get(h, k) == Calls /\ InsertOf(Child(h, k, "object")) /\ Quiet
h_at(h, i) == Calls /\ InsertOf(Child(h, i, "array")) /\ Quiet

\* h_object, h_array, h_null, h_number, h_boolean.
Fresh == {Tree("object", <<>>), Tree("array", <<>>), Null, Leaf("number", 0),
          Leaf("bool", 0), Leaf("bool", 1)}
h_new(v) == Calls /\ Insert(v) /\ Quiet

\* A text beyond MAX_VALUE_BYTES is a fault, see Ends.
IsText(n) == n <= MAX_VALUE_BYTES

h_string(n) ==
  /\ Calls /\ IsText(n)
  /\ IF valid_value(Text(n)) THEN Insert(Text(n)) ELSE Status(LIMIT)
  /\ Quiet

h_dump(h) == Calls /\ InsertOf({BytesOf(Encoded(v)) : v \in json(h)}) /\ Quiet

h_bytes(n) ==
  /\ Calls
  /\ IF n > MAX_VALUE_BYTES THEN Status(LIMIT) ELSE Insert(BytesOf(n))
  /\ Quiet

MutReplace(h, target) ==         \* checked after the handle was changed
  /\ handles' = Keep(h, target)
  /\ r0' = IF valid_value(target) THEN 0 ELSE LIMIT
  /\ UNCHANGED <<nextHandle, used>>

\* The end of h_set and h_push: the changed copy is checked, then kept.
Replace(h, target) ==
  IF valid_value(target)
  THEN handles' = Keep(h, target) /\ r0' = 0 /\ UNCHANGED <<nextHandle, used>>
  ELSE Status(LIMIT)

Changed(h, kind, value, k) ==
  IF json(value) = {} \/ json(h) = {} \/ Kind(handles[h]) # kind
  THEN Status(INVALID)
  ELSE Replace(h, Tree(kind, [x \in Keys(handles[h]) \cup {k} |->
                                IF x = k THEN handles[value] ELSE Kid(handles[h], x)]))

h_set(h, k, value) == Calls /\ Changed(h, "object", value, k) /\ Quiet

h_push(h, value) ==
  /\ Calls
  /\ Changed(h, "array", value,
             IF json(h) = {} THEN 1 ELSE Cardinality(Keys(handles[h])) + 1)
  /\ Quiet

-----------------------------------------------------------------------------
(* Helpers that only look: h_kind, h_i64, h_bool, h_string_read, h_equals, *)
(* h_len and h_read.                                                       *)

KindNumber == [null |-> 0, bool |-> 1, number |-> 2, string |-> 3, array |-> 4,
               object |-> 5]

\* What one of them returns for a value of a wrong kind, or for no value.
Or(vs, op(_)) == IF vs = {} THEN INVALID ELSE op(CHOOSE v \in vs : TRUE)
OfKind(vs, kind) == {v \in vs : Kind(v) = kind}

KindRead(h) == Or(json(h), LAMBDA v : KindNumber[Kind(v)])
I64Read(h) ==
  Or(OfKind(json(h), "number"), LAMBDA v : IF Val(v) = 0 THEN 0 ELSE INVALID)
BoolRead(h) == Or(OfKind(json(h), "bool"), Val)
StringRead(h, n) ==
  Or(OfKind(json(h), "string"), LAMBDA v : IF n > MAX_VALUE_BYTES THEN LIMIT ELSE Val(v))
TextEquals(h, k, n) ==
  Or(OfKind(Child(h, k, "object"), "string"), LAMBDA v : IF Val(v) = n THEN 1 ELSE 0)

Length(h) ==
  IF h \notin DOMAIN handles THEN INVALID
  ELSE CASE Kind(handles[h]) \in {"bytes", "string"} -> Val(handles[h])
         [] Kind(handles[h]) \in {"array", "object"} -> Cardinality(Keys(handles[h]))
         [] OTHER -> INVALID

BytesRead(h, offset, n) ==
  IF n > MAX_VALUE_BYTES THEN LIMIT
  ELSE IF h \notin DOMAIN handles \/ Kind(handles[h]) # "bytes" THEN INVALID
  ELSE IF offset > Val(handles[h]) THEN INVALID
  ELSE IF n < Val(handles[h]) - offset THEN n ELSE Val(handles[h]) - offset

Looks(h) ==
  {KindRead(h), I64Read(h), BoolRead(h), Length(h)}
  \cup {StringRead(h, n) : n \in Lengths}
  \cup {TextEquals(h, k, n) : k \in KeyArgs, n \in {l \in Lengths : IsText(l)}}
  \cup {BytesRead(h, o, n) : o \in Lengths, n \in Lengths}

Look(h) == Calls /\ (\E r \in Looks(h) : Status(r)) /\ Quiet

-----------------------------------------------------------------------------
(* Helpers that wait, and the outside.                                     *)

Wait(reason) ==
  /\ Calls
  /\ pending' = reason
  /\ Status(0)
  /\ UNCHANGED mailbox

h_sleep == Wait("timer")
h_yield == Wait("yield")
h_event == Wait("event")

Granted(name, args) ==
  \E c \in Capabilities :
    /\ c.name = name
    /\ \A k \in DOMAIN c.arguments :
         Kind(args) = "object" /\ k \in Keys(args) /\ Kid(args, k) = c.arguments[k]

h_call(name, h) ==
  IF json(h) # {} /\ Granted(name, handles[h]) THEN Wait("host_rpc")
  ELSE Calls /\ Status(IF json(h) = {} THEN INVALID ELSE DENIED) /\ Quiet

Woken ==
  /\ pending \in {"timer", "yield"}
  /\ pending' = "none" /\ Status(0)
  /\ UNCHANGED mailbox

MutEventReceived ==              \* the event is taken, but the timer had fired
  /\ pending = "event" /\ mailbox # <<>>
  /\ Status(TIMEOUT)
  /\ mailbox' = Tail(mailbox) /\ pending' = "none"

EventReceived ==
  /\ pending = "event" /\ mailbox # <<>>
  /\ Insert(Head(mailbox))
  /\ mailbox' = Tail(mailbox) /\ pending' = "none"

\* timeout() looks at the mailbox first: it expires on an empty one only.
EventTimeout ==
  /\ pending = "event" /\ mailbox = <<>>
  /\ pending' = "none" /\ Status(TIMEOUT)
  /\ UNCHANGED mailbox

\* Host::call returns (module HostCalls); a result is checked in response().
CallReturns ==
  /\ pending = "host_rpc"
  /\ \/ \E v \in Payloads : IF valid_value(v) THEN Insert(v) ELSE Status(LIMIT)
     \/ \E e \in {HOST_ERROR, TIMEOUT, LIMIT, CLOSED} : Status(e)
  /\ pending' = "none" /\ UNCHANGED mailbox

\* sf.event.deliver; the mailbox holds one event here (module Mailbox).
DeliverEvent(payload) ==
  /\ pending # "ended" /\ mailbox = <<>>
  /\ valid_value(payload)
  /\ Encoded(Envelope(payload)) <= MAX_VALUE_BYTES
  /\ mailbox' = <<Envelope(payload)>>
  /\ UNCHANGED <<handles, nextHandle, used, pending, r0>>

\* main returns, the object is stopped amid a wait, or a helper faults (bad
\* memory, text that is too long or not UTF-8): the context is dropped.
Ends ==
  /\ pending # "ended"
  /\ pending' = "ended" /\ handles' = <<>> /\ mailbox' = <<>> /\ r0' = 0
  /\ UNCHANGED <<nextHandle, used>>

-----------------------------------------------------------------------------
GuestInit ==
  /\ handles = <<>> /\ nextHandle = 1 /\ used = {}
  /\ pending = "none" /\ mailbox = <<>> /\ r0 = 0

GuestNext ==
  \/ h_config \/ h_parse_fails \/ h_sleep \/ h_yield \/ h_event
  \/ \E v \in Texts : h_parse(v)
  \/ \E v \in Fresh : h_new(v)
  \/ \E n \in Lengths : h_string(n) \/ h_bytes(n)
  \/ \E h \in Handles :
       \/ h_drop(h) \/ h_dump(h) \/ Look(h)
       \/ \E k \in KeyArgs : h_get(h, k) \/ h_at(h, k)
       \/ \E v \in Handles : h_push(h, v) \/ \E k \in KeyArgs : h_set(h, k, v)
       \/ h_get(h, Payload)
       \/ \E c \in Capabilities : h_call(c.name, h) \/ h_call("ungranted", h)
  \/ Woken \/ EventReceived \/ EventTimeout \/ CallReturns
  \/ \E p \in Payloads : DeliverEvent(p)
  \/ OtherInserts \/ Ends

GuestSpec == GuestInit /\ [][GuestNext]_gvars

-----------------------------------------------------------------------------
GuestTypeOK ==
  /\ DOMAIN handles \subseteq used /\ used \subseteq Nat
  /\ nextHandle \in 1..I64_MAX
  /\ pending \in {"none", "timer", "yield", "event", "host_rpc", "ended"}
  /\ Len(mailbox) <= 1 /\ r0 \in Int

Bounded(v) ==
  /\ \A p \in DOMAIN v : Len(p) <= MAX_DEPTH
  /\ Cardinality(DOMAIN v) <= MAX_NODES

\* Whatever the guest builds, by any sequence of parses, gets, sets and pushes
\* with any handles (a value may be put into itself), no value it holds is
\* deeper, larger or longer than the limits, and no dump is longer.  The one
\* exception is an event as it was delivered: its payload was checked, and the
\* envelope around it adds a level and three nodes.
ValuesAreBounded ==
  /\ GuestTypeOK
  /\ \A h \in DOMAIN handles :
       LET v == handles[h]
       IN  IF Kind(v) = "bytes" THEN Val(v) <= MAX_VALUE_BYTES
           ELSE /\ Encoded(v) <= MAX_VALUE_BYTES
                /\ Bounded(v) \/ \E p \in Payloads : v = Envelope(p) /\ Bounded(p)

\* A handle id is never used twice, not after a drop, not by another object,
\* not at the end of the counter, so that a stale or foreign handle is never
\* the handle of something else (DESIGN.md:120, "stale or cross-object handles
\* fail"); it is positive as an i64, and the guest is told of it.
HandlesAreFresh ==
  [][\A h \in DOMAIN handles' \ DOMAIN handles :
       h \notin used /\ h > 0 /\ r0' = h]_gvars

\* A helper that returns a negative number has changed nothing: a set or push
\* beyond the limits leaves the old value in place, and no handle is made that
\* the guest takes for an error and never drops.
ErrorsChangeNothing == [][r0' < 0 => handles' = handles]_gvars

\* An event that leaves the mailbox of a live object is handed over in a new
\* handle.  It is lost in one case only, and the guest is told: h_event takes
\* it before it asks for a handle, and has none to give.
EventIsHandedOver ==
  [][mailbox # <<>> /\ mailbox' = <<>> /\ pending' # "ended" =>
       \/ r0' \in DOMAIN handles' \ DOMAIN handles /\ handles'[r0'] = Head(mailbox)
       \/ /\ r0' = LIMIT
          /\ Cardinality(DOMAIN handles) = MAX_HANDLES \/ nextHandle = I64_MAX]_gvars
=============================================================================
