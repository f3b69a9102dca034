---------------------------- MODULE OutboxProofs ----------------------------
(***************************************************************************)
(* Proofs about Outbox, for every value of its constants.                  *)
(*                                                                         *)
(* The lemmas ...OK say that each method of the outbox keeps the shape of  *)
(* the queues and the agreement of "ready" with the map of data queues;    *)
(* they are stated for an arbitrary queues value.  IndInv adds what the    *)
(* tasks know: a writer that waits has seen both queues empty, and the     *)
(* burst counter covers the control frames that passed a waiting object.   *)
(***************************************************************************)
EXTENDS Outbox, SequenceLemmas

\* PushControl keeps the shape of the queues.
LEMMA PushControlOK ==
  ASSUME NEW x, QueuesTyped(x), NEW f \in ControlFrame
  PROVE  /\ QueuesTyped(PushControl(x, f))
         /\ ReadyMatchesData(x) => ReadyMatchesData(PushControl(x, f))
BY DEF QueuesTyped, PushControl, ReadyMatchesData

\* PopControl keeps the shape of the queues and the range of the burst.
LEMMA PopControlOK ==
  ASSUME NEW x, QueuesTyped(x), TakesControl(x)
  PROVE  /\ QueuesTyped(PopControl(x))
         /\ ReadyMatchesData(x) => ReadyMatchesData(PopControl(x))
<1>1. DOMAIN PopControl(x) = DOMAIN x
  BY DEF PopControl
<1>2. /\ PopControl(x).control = Tail(x.control)
      /\ PopControl(x).data = x.data
      /\ PopControl(x).ready = x.ready
      /\ PopControl(x).burst = IF x.burst < BURST THEN x.burst + 1 ELSE x.burst
  BY DEF PopControl, QueuesTyped
<1>3. PopControl(x).burst \in 0..BURST
  BY <1>2, BoundsAssumption DEF QueuesTyped, BoundsAssumption
<1>4. QueuesTyped(PopControl(x))
  BY <1>1, <1>2, <1>3 DEF QueuesTyped, TakesControl
<1> QED BY <1>2, <1>4 DEF ReadyMatchesData

\* Removing the first match leaves a sequence of the same elements.
LEMMA RemoveFirstMatchType ==
  ASSUME NEW S, NEW s \in Seq(S), NEW id
  PROVE  WithoutId(s, id) \in Seq(S)
<1> DEFINE I == {i \in 1..Len(s) : s[i].req = id}
<1>1. CASE I = {}
  BY <1>1 DEF WithoutId, RemoveFirstMatch
<1>2. CASE I # {}
  <2>1. SelectInSeq(s, LAMBDA f : f.req = id) = Min(I)
    BY <1>2 DEF SelectInSeq
  <2>2. Min(I) \in I
    <3>1. I \in SUBSET Nat /\ I # {}
      BY <1>2
    <3> HIDE DEF I
    <3> QED BY <3>1, MinOfNats
  <2>3. WithoutId(s, id) = RemoveAt(s, Min(I))
    BY <1>2, <2>1 DEF WithoutId, RemoveFirstMatch
  <2> QED BY <2>2, <2>3, RemoveAtProperties
<1> QED BY <1>1, <1>2

\* Replacing or adding an entry of a map of nonempty queues.
LEMMA PutOK ==
  ASSUME NEW d, NEW S, d \in [DOMAIN d -> Seq(S)], \A p \in DOMAIN d : d[p] # <<>>,
         NEW o, NEW s \in Seq(S), s # <<>>
  PROVE  /\ DOMAIN Put(d, o, s) = DOMAIN d \cup {o}
         /\ Put(d, o, s) \in [DOMAIN Put(d, o, s) -> Seq(S)]
         /\ \A p \in DOMAIN Put(d, o, s) : Put(d, o, s)[p] # <<>>
BY DEF Put

\* Removing an entry of a map of nonempty queues.
LEMMA WithoutOK ==
  ASSUME NEW d, NEW S, d \in [DOMAIN d -> Seq(S)], \A p \in DOMAIN d : d[p] # <<>>,
         NEW o
  PROVE  /\ DOMAIN Without(d, o) = DOMAIN d \ {o}
         /\ Without(d, o) \in [DOMAIN Without(d, o) -> Seq(S)]
         /\ \A p \in DOMAIN Without(d, o) : Without(d, o)[p] # <<>>
BY DEF Without

\* push_data() names an object in "ready" exactly when it creates its queue.
LEMMA PushDataOK ==
  ASSUME NEW x, QueuesTyped(x), ReadyMatchesData(x), NEW o \in Objects, NEW f \in Frame
  PROVE  /\ QueuesTyped(PushData(x, o, f))
         /\ ReadyMatchesData(PushData(x, o, f))
<1> DEFINE y == PushData(x, o, f)
           s == Append(FramesOf(x, o), f)
<1>1. /\ DOMAIN y = DOMAIN x
      /\ y.control = x.control
      /\ y.data = Put(x.data, o, s)
      /\ y.ready = IF o \in DOMAIN x.data THEN x.ready ELSE Append(x.ready, o)
      /\ y.burst = x.burst
  BY DEF PushData, QueuesTyped
<1>2. FramesOf(x, o) \in Seq(Frame)
  BY DEF FramesOf, QueuesTyped
<1>3. s \in Seq(Frame) /\ s # <<>>
  BY <1>2, AppendProperties
<1> HIDE DEF y, s
<1>4. /\ DOMAIN y.data = DOMAIN x.data \cup {o}
      /\ y.data \in [DOMAIN y.data -> Seq(Frame)]
      /\ \A p \in DOMAIN y.data : y.data[p] # <<>>
  <2>1. x.data \in [DOMAIN x.data -> Seq(Frame)] /\ \A p \in DOMAIN x.data : x.data[p] # <<>>
    BY DEF QueuesTyped, ReadyMatchesData
  <2>2. /\ DOMAIN Put(x.data, o, s) = DOMAIN x.data \cup {o}
        /\ Put(x.data, o, s) \in [DOMAIN Put(x.data, o, s) -> Seq(Frame)]
        /\ \A p \in DOMAIN Put(x.data, o, s) : Put(x.data, o, s)[p] # <<>>
    BY <1>3, <2>1, PutOK, Zenon
  <2> QED BY <1>1, <2>2
<1>5. y.ready \in Seq(Objects) /\ IsInjective(y.ready) /\ ToSet(y.ready) = DOMAIN y.data
  <2>1. CASE o \in DOMAIN x.data
    BY <1>1, <1>4, <2>1 DEF QueuesTyped, ReadyMatchesData
  <2>2. CASE o \notin DOMAIN x.data
    <3>1. /\ x.ready \in Seq(Objects) /\ o \notin ToSet(x.ready)
          /\ IsInjective(x.ready) /\ y.ready = Append(x.ready, o)
      BY <1>1, <2>2 DEF QueuesTyped, ReadyMatchesData
    <3>2. IsInjective(y.ready)
      BY <3>1 DEF IsInjective, ToSet
    <3>3. ToSet(y.ready) = ToSet(x.ready) \cup {o}
      BY <3>1 DEF ToSet
    <3> QED BY <3>1, <3>2, <3>3, <1>4 DEF ReadyMatchesData
  <2> QED BY <2>1, <2>2
<1> QED BY <1>1, <1>4, <1>5 DEF QueuesTyped, ReadyMatchesData, y

\* An empty queue leaves the map and "ready" together, a shorter one stays.
LEMMA ShrinkOK ==
  ASSUME NEW x, QueuesTyped(x), ReadyMatchesData(x), NEW o \in DOMAIN x.data,
         NEW left \in Seq(Frame), NEW y, DOMAIN y = DOMAIN x,
         y.control = x.control, y.burst \in 0..BURST,
         y.data = (IF left = <<>> THEN Without(x.data, o) ELSE Put(x.data, o, left)),
         y.ready \in Seq(Objects), IsInjective(y.ready),
         ToSet(y.ready) = (IF left = <<>> THEN ToSet(x.ready) \ {o} ELSE ToSet(x.ready))
  PROVE  QueuesTyped(y) /\ ReadyMatchesData(y)
<1>1. /\ x.data \in [DOMAIN x.data -> Seq(Frame)]
      /\ \A p \in DOMAIN x.data : x.data[p] # <<>>
      /\ ToSet(x.ready) = DOMAIN x.data
      /\ DOMAIN x.data \subseteq Objects
  BY DEF QueuesTyped, ReadyMatchesData
<1>2. /\ DOMAIN y.data = ToSet(y.ready)
      /\ y.data \in [DOMAIN y.data -> Seq(Frame)]
      /\ \A p \in DOMAIN y.data : y.data[p] # <<>>
  <2>1. CASE left = <<>>
    <3>1. y.data = Without(x.data, o) /\ ToSet(y.ready) = DOMAIN x.data \ {o}
      BY <1>1, <2>1
    <3>2. /\ DOMAIN Without(x.data, o) = DOMAIN x.data \ {o}
          /\ Without(x.data, o) \in [DOMAIN Without(x.data, o) -> Seq(Frame)]
          /\ \A p \in DOMAIN Without(x.data, o) : Without(x.data, o)[p] # <<>>
      BY <1>1, WithoutOK, Zenon
    <3> QED BY <3>1, <3>2
  <2>2. CASE left # <<>>
    <3>1. y.data = Put(x.data, o, left) /\ ToSet(y.ready) = DOMAIN x.data \cup {o}
      BY <1>1, <2>2
    <3>2. /\ DOMAIN Put(x.data, o, left) = DOMAIN x.data \cup {o}
          /\ Put(x.data, o, left) \in [DOMAIN Put(x.data, o, left) -> Seq(Frame)]
          /\ \A p \in DOMAIN Put(x.data, o, left) : Put(x.data, o, left)[p] # <<>>
      <4>1. left \in Seq(Frame) /\ left # <<>>
        BY <2>2
      <4>2. x.data \in [DOMAIN x.data -> Seq(Frame)] /\ \A p \in DOMAIN x.data : x.data[p] # <<>>
        BY <1>1
      <4> QED BY <4>1, <4>2 DEF Put
    <3> QED BY <3>1, <3>2
  <2> QED BY <2>1, <2>2
<1>3. DOMAIN y.data \subseteq Objects
  BY <1>1, <1>2
<1> QED BY <1>1, <1>2, <1>3 DEF QueuesTyped, ReadyMatchesData

\* remove_request() takes an object out of "ready" with its last frame.
LEMMA RemoveRequestOK ==
  ASSUME NEW x, QueuesTyped(x), ReadyMatchesData(x), NEW o \in Objects, NEW id
  PROVE  /\ QueuesTyped(RemoveRequest(x, o, id))
         /\ ReadyMatchesData(RemoveRequest(x, o, id))
<1>1. CASE o \notin DOMAIN x.data
  BY <1>1 DEF RemoveRequest
<1>2. CASE o \in DOMAIN x.data
  <2> DEFINE y == RemoveRequest(x, o, id)
             left == WithoutId(x.data[o], id)
  <2>1. /\ DOMAIN y = DOMAIN x
        /\ y.control = x.control
        /\ y.burst = x.burst
        /\ y.data = IF left = <<>> THEN Without(x.data, o) ELSE Put(x.data, o, left)
        /\ y.ready = IF left = <<>> THEN RemoveFirst(x.ready, o) ELSE x.ready
    BY <1>2 DEF RemoveRequest, QueuesTyped
  <2>2. left \in Seq(Frame)
    BY <1>2, RemoveFirstMatchType DEF QueuesTyped
  <2>3. x.ready \in Seq(Objects) /\ IsInjective(x.ready) /\ x.burst \in 0..BURST
    BY DEF QueuesTyped, ReadyMatchesData
  <2> HIDE DEF y, left
  <2>4. /\ y.ready \in Seq(Objects)
        /\ IsInjective(y.ready)
        /\ ToSet(y.ready) = IF left = <<>> THEN ToSet(x.ready) \ {o} ELSE ToSet(x.ready)
    <3>1. CASE left = <<>>
      <4>1. y.ready = RemoveFirst(x.ready, o)
        BY <2>1, <3>1
      <4> QED BY <2>3, <3>1, <4>1, RemoveFirstInjective
    <3>2. CASE left # <<>>
      BY <2>1, <2>3, <3>2
    <3> QED BY <3>1, <3>2
  <2>5. QueuesTyped(y) /\ ReadyMatchesData(y)
    BY <1>2, <2>1, <2>2, <2>3, <2>4, ShrinkOK
  <2> QED BY <2>5 DEF y
<1> QED BY <1>1, <1>2

\* remove_object() takes the queue and the name together.
LEMMA RemoveObjectOK ==
  ASSUME NEW x, QueuesTyped(x), ReadyMatchesData(x), NEW o \in Objects
  PROVE  /\ QueuesTyped(RemoveObject(x, o))
         /\ ReadyMatchesData(RemoveObject(x, o))
<1> DEFINE y == RemoveObject(x, o)
<1>1. /\ DOMAIN y = DOMAIN x
      /\ y.control = x.control
      /\ y.burst = x.burst
      /\ y.data = Without(x.data, o)
      /\ y.ready = RemoveFirst(x.ready, o)
  BY DEF RemoveObject, QueuesTyped
<1>2. /\ x.data \in [DOMAIN x.data -> Seq(Frame)]
      /\ \A p \in DOMAIN x.data : x.data[p] # <<>>
      /\ x.ready \in Seq(Objects) /\ IsInjective(x.ready)
      /\ ToSet(x.ready) = DOMAIN x.data /\ DOMAIN x.data \subseteq Objects
  BY DEF QueuesTyped, ReadyMatchesData
<1> HIDE DEF y
<1>3. /\ DOMAIN Without(x.data, o) = DOMAIN x.data \ {o}
      /\ Without(x.data, o) \in [DOMAIN Without(x.data, o) -> Seq(Frame)]
      /\ \A p \in DOMAIN Without(x.data, o) : Without(x.data, o)[p] # <<>>
  BY <1>2, WithoutOK, Zenon
<1>4. /\ y.ready \in Seq(Objects)
      /\ IsInjective(y.ready)
      /\ ToSet(y.ready) = DOMAIN x.data \ {o}
  BY <1>1, <1>2, RemoveFirstInjective
<1>5. QueuesTyped(y)
  BY <1>1, <1>2, <1>3, <1>4 DEF QueuesTyped
<1>6. ReadyMatchesData(y)
  BY <1>1, <1>3, <1>4 DEF ReadyMatchesData
<1> QED BY <1>5, <1>6 DEF y

\* The data branch of next(): both expect() calls succeed, and an object with
\* frames left is named again at the end.
LEMMA PopDataOK ==
  ASSUME NEW x, QueuesTyped(x), ReadyMatchesData(x), x.ready # <<>>
  PROVE  /\ HeadIsServable(x)
         /\ Head(x.ready) \in Objects
         /\ QueuesTyped(PopData(x))
         /\ ReadyMatchesData(PopData(x))
<1> DEFINE y == PopData(x)
           o == Head(x.ready)
           left == Tail(x.data[o])
<1>1. /\ x.ready \in Seq(Objects) /\ IsInjective(x.ready)
      /\ ToSet(x.ready) = DOMAIN x.data
      /\ x.data \in [DOMAIN x.data -> Seq(Frame)]
      /\ \A p \in DOMAIN x.data : x.data[p] # <<>>
  BY DEF QueuesTyped, ReadyMatchesData
<1>2. o \in ToSet(x.ready) /\ o \in Objects
  BY <1>1 DEF ToSet
<1>3. o \in DOMAIN x.data /\ x.data[o] \in Seq(Frame) /\ x.data[o] # <<>>
  BY <1>1, <1>2
<1>4. left \in Seq(Frame)
  BY <1>3
<1>5. /\ DOMAIN y = DOMAIN x
      /\ y.control = x.control
      /\ y.burst = 0
      /\ y.data = IF left = <<>> THEN Without(x.data, o) ELSE Put(x.data, o, left)
      /\ y.ready = IF left = <<>> THEN Tail(x.ready) ELSE Append(Tail(x.ready), o)
  BY DEF PopData, QueuesTyped
<1>6. HeadIsServable(x)
  BY <1>3 DEF HeadIsServable
<1>7. 0 \in 0..BURST
  BY BoundsAssumption DEF BoundsAssumption
<1> HIDE DEF y, left
<1>8. /\ y.ready \in Seq(Objects)
      /\ IsInjective(y.ready)
      /\ ToSet(y.ready) = IF left = <<>> THEN ToSet(x.ready) \ {o} ELSE ToSet(x.ready)
  BY <1>1, <1>5, RotateInjective
<1>9. QueuesTyped(y) /\ ReadyMatchesData(y)
  BY <1>3, <1>4, <1>5, <1>7, <1>8, ShrinkOK
<1> QED BY <1>2, <1>6, <1>9 DEF y

-----------------------------------------------------------------------------
QueuesAgree == ReadyMatchesData(q)

IndInv ==
  /\ TypeOK
  /\ QueuesAgree
  /\ WriterNeverSleepsOnWork
  /\ StreakWithinBurst

\* The empty outbox satisfies the invariant.
LEMMA InitIndInv == Init => IndInv
<1> SUFFICES ASSUME Init PROVE IndInv
  OBVIOUS
<1>1. QueuesTyped(q)
  BY BoundsAssumption DEF Init, EmptyQueues, QueuesTyped, BoundsAssumption
<1>2. QueuesAgree
  <2>1. q.ready = <<>> /\ q.data = <<>> /\ DOMAIN q.ready = {} /\ DOMAIN q.data = {}
    BY DEF Init, EmptyQueues
  <2> QED BY <2>1 DEF QueuesAgree, ReadyMatchesData, IsInjective, ToSet
<1>3. TasksTyped
  <2>1. dropped \in 0..DROPPED_MAX
    BY OutboxAssumption DEF Init, OutboxAssumption
  <2>2. writer.pc = "start" /\ writer.from = Control
    BY DEF Init, WriterAt, NoFrame
  <2>3. handler \in [Requests -> [pc : {"idle", "parked", "woken"},
                                body : {"reply", "RESPONSE_TOO_LARGE"}]]
    BY DEF Init, IdleHandler
  <2>4. guest \in [Objects -> [pc : {"idle", "parked", "woken", "returned"}, len : Nat]]
    BY DEF Init, IdleGuest
  <2>5. \A o \in Objects : guest[o].pc = "idle"
    BY DEF Init, IdleGuest
  <2> QED BY <2>1, <2>2, <2>3, <2>4, <2>5 DEF Init, TasksTyped, WriterPcs
<1>4. WriterNeverSleepsOnWork /\ StreakWithinBurst
  BY DEF Init, EmptyQueues, WriterNeverSleepsOnWork, StreakWithinBurst, WriterAt, NoFrame
<1> QED BY <1>1, <1>2, <1>3, <1>4 DEF IndInv, TypeOK

\* Notifying the writer leaves it in a state where it will look again.
LEMMA NotifyChangedOK ==
  ASSUME TasksTyped, NotifyChanged
  PROVE  /\ changed' \in BOOLEAN
         /\ writer'.pc \in WriterPcs
         /\ writer'.from \in Objects \cup {Control}
         /\ writer'.pc # "parked"
BY DEF TasksTyped, NotifyChanged, WriterAt, NoFrame, WriterPcs

\* Waking senders keeps the types of their tasks.
LEMMA WokenOK ==
  ASSUME TasksTyped
  PROVE  /\ Woken(handler) \in [Requests -> [pc : {"idle", "parked", "woken"},
                                            body : {"reply", "RESPONSE_TOO_LARGE"}]]
         /\ Woken(guest) \in [Objects -> [pc : {"idle", "parked", "woken", "returned"},
                                         len : Nat]]
         /\ \A o \in Objects : Woken(guest)[o].pc \in {"parked", "woken"} =>
                               Woken(guest)[o].len \in FrameLens
BY DEF TasksTyped, Woken

\* One turn of control() keeps the invariant.
LEMMA ControlTurnOK ==
  ASSUME IndInv, NEW r \in Requests, NEW body \in {"reply", "RESPONSE_TOO_LARGE"},
         ControlTurn(r, body)
  PROVE  IndInv'
<1> USE DEF IndInv, TypeOK
<1> DEFINE f == [from |-> r, body |-> body]
<1>0. /\ TasksTyped /\ QueuesTyped(q) /\ ReadyMatchesData(q)
      /\ UNCHANGED <<closed, dropped, guest, streak, passed>>
      /\ handler' \in [Requests -> [pc : {"idle", "parked", "woken"},
                                   body : {"reply", "RESPONSE_TOO_LARGE"}]]
  BY DEF ControlTurn, QueuesAgree, TasksTyped, IdleHandler
<1>1. CASE UNCHANGED <<q, writer, changed>>
  BY <1>0, <1>1 DEF TasksTyped, QueuesAgree, WriterNeverSleepsOnWork, StreakWithinBurst,
     QueuesTyped, ReadyMatchesData
<1>2. CASE q' = PushControl(q, f) /\ NotifyChanged
  <2>1. f \in ControlFrame
    BY DEF ControlFrame
  <2>2. QueuesTyped(q') /\ ReadyMatchesData(q') /\ q'.burst = q.burst
    <3>1. QueuesTyped(PushControl(q, f)) /\ ReadyMatchesData(PushControl(q, f))
      BY <1>0, <2>1, PushControlOK
    <3>2. PushControl(q, f).burst = q.burst
      BY <1>0 DEF PushControl, QueuesTyped
    <3> QED BY <1>2, <3>1, <3>2
  <2>3. TasksTyped' /\ writer'.pc # "parked"
    BY <1>0, <1>2, NotifyChangedOK DEF TasksTyped
  <2> QED BY <1>0, <2>2, <2>3
     DEF QueuesAgree, WriterNeverSleepsOnWork, StreakWithinBurst
<1> QED BY <1>1, <1>2 DEF ControlTurn

\* Accepting a data frame.
LEMMA AcceptOK ==
  ASSUME QueuesTyped(q), ReadyMatchesData(q), TasksTyped,
         NEW o \in Objects, NEW f \in Frame, Accept(o, f)
  PROVE  /\ QueuesTyped(q') /\ ReadyMatchesData(q') /\ q'.burst = q.burst
         /\ changed' \in BOOLEAN /\ writer'.pc \in WriterPcs
         /\ writer'.from \in Objects \cup {Control} /\ writer'.pc # "parked"
<1>1. QueuesTyped(PushData(q, o, f)) /\ ReadyMatchesData(PushData(q, o, f))
  BY PushDataOK
<1>2. PushData(q, o, f).burst = q.burst
  BY DEF PushData, QueuesTyped
<1> QED BY <1>1, <1>2, NotifyChangedOK DEF Accept

\* try_data() keeps the invariant.
LEMMA TryDataOK ==
  ASSUME IndInv, NEW o \in Objects, NEW text \in Lengths, TryData(o, text)
  PROVE  IndInv'
<1> USE DEF IndInv, TypeOK
<1>0. /\ TasksTyped /\ QueuesTyped(q) /\ ReadyMatchesData(q)
      /\ UNCHANGED <<closed, handler, guest, streak, passed>>
  BY DEF TryData, QueuesAgree
<1>1. CASE dropped' = CountDropped(dropped) /\ UNCHANGED <<q, writer, changed>>
  <2>1. dropped' \in 0..DROPPED_MAX
    BY <1>0, <1>1, OutboxAssumption DEF CountDropped, TasksTyped, OutboxAssumption
  <2>2. TasksTyped'
    BY <1>0, <1>1, <2>1 DEF TasksTyped
  <2> QED BY <1>0, <1>1, <2>2
     DEF QueuesAgree, WriterNeverSleepsOnWork, StreakWithinBurst, QueuesTyped, ReadyMatchesData
<1>2. CASE Accept(o, [len |-> FrameLen(text), req |-> NoId]) /\ UNCHANGED dropped
  <2>1. [len |-> FrameLen(text), req |-> NoId] \in Frame
    BY DEF Frame, FrameLens
  <2>2. /\ QueuesTyped(q') /\ ReadyMatchesData(q') /\ q'.burst = q.burst
        /\ changed' \in BOOLEAN /\ writer'.pc \in WriterPcs
        /\ writer'.from \in Objects \cup {Control} /\ writer'.pc # "parked"
    BY <1>0, <1>2, <2>1, AcceptOK
  <2>3. TasksTyped'
    BY <1>0, <1>2, <2>2 DEF TasksTyped
  <2> QED BY <1>0, <2>2, <2>3
     DEF QueuesAgree, WriterNeverSleepsOnWork, StreakWithinBurst
<1> QED BY <1>1, <1>2 DEF TryData

\* One turn of data() keeps the invariant.
LEMMA DataTurnOK ==
  ASSUME IndInv, NEW o \in Objects, NEW len \in FrameLens,
         DataTurn(o, len)
  PROVE  IndInv'
<1> USE DEF IndInv, TypeOK
<1>0. /\ TasksTyped /\ QueuesTyped(q) /\ ReadyMatchesData(q)
      /\ UNCHANGED <<closed, dropped, handler, streak, passed>>
  BY DEF DataTurn, QueuesAgree
<1>1. len \in Nat
  BY OutboxAssumption DEF OutboxAssumption, FrameLens, FrameLen
<1>2. /\ guest' \in [Objects -> [pc : {"idle", "parked", "woken", "returned"}, len : Nat]]
      /\ \A p \in Objects : guest'[p].pc \in {"parked", "woken"} => guest'[p].len \in FrameLens
  <2>1. PICK pc \in {"parked", "returned"} : guest' = [guest EXCEPT ![o] = [pc |-> pc, len |-> len]]
    BY DEF DataTurn
  <2> QED BY <1>0, <1>1, <2>1 DEF TasksTyped
<1>3. CASE UNCHANGED <<q, writer, changed>>
  <2>1. TasksTyped'
    BY <1>0, <1>2, <1>3 DEF TasksTyped
  <2> QED BY <1>0, <1>3, <2>1
     DEF QueuesAgree, WriterNeverSleepsOnWork, StreakWithinBurst, QueuesTyped, ReadyMatchesData
<1>4. CASE Accept(o, [len |-> len, req |-> o])
  <2>1. [len |-> len, req |-> o] \in Frame
    BY DEF Frame, FrameLens
  <2>2. /\ QueuesTyped(q') /\ ReadyMatchesData(q') /\ q'.burst = q.burst
        /\ changed' \in BOOLEAN /\ writer'.pc \in WriterPcs
        /\ writer'.from \in Objects \cup {Control} /\ writer'.pc # "parked"
    BY <1>0, <1>4, <2>1, AcceptOK
  <2>3. TasksTyped'
    BY <1>0, <1>2, <2>2 DEF TasksTyped
  <2> QED BY <1>0, <2>2, <2>3
     DEF QueuesAgree, WriterNeverSleepsOnWork, StreakWithinBurst
<1> QED BY <1>3, <1>4 DEF DataTurn

\* Steps that leave the queues and the writer alone.
LEMMA QuietStep ==
  ASSUME IndInv, TasksTyped', UNCHANGED <<q, writer, streak>>
  PROVE  IndInv'
BY DEF IndInv, TypeOK, QueuesAgree, WriterNeverSleepsOnWork, StreakWithinBurst,
       QueuesTyped, ReadyMatchesData

\* The first poll of data() keeps the invariant.
LEMMA DataStartOK ==
  ASSUME IndInv, NEW o \in Objects, NEW text \in Lengths, DataStart(o, text)
  PROVE  IndInv'
<1>1. FrameLen(text) \in FrameLens /\ FrameLen(text) \in Nat
  BY OutboxAssumption DEF FrameLens, OutboxAssumption, FrameLen
<1>2. CASE DataTurn(o, FrameLen(text))
  BY <1>1, <1>2, DataTurnOK
<1>3. CASE /\ guest' = [guest EXCEPT ![o] = [pc |-> "returned", len |-> FrameLen(text)]]
           /\ UNCHANGED <<q, closed, dropped, changed, writer, handler, streak, passed>>
  <2>1. TasksTyped
    BY DEF IndInv, TypeOK
  <2>2. TasksTyped'
    BY <1>1, <1>3, <2>1 DEF TasksTyped
  <2> QED BY <1>3, <2>2, QuietStep
<1> QED BY <1>2, <1>3 DEF DataStart

\* A later poll of data() keeps the invariant.
LEMMA DataResumeOK ==
  ASSUME IndInv, NEW o \in Objects, DataResume(o)
  PROVE  IndInv'
<1>1. guest[o].len \in FrameLens
  BY DEF IndInv, TypeOK, TasksTyped, DataResume, Runnable
<1> QED BY <1>1, DataTurnOK DEF DataResume

\* Every step of a request handler keeps the invariant.
LEMMA ControlOK ==
  ASSUME IndInv, NEW r \in Requests, ControlStart(r) \/ ControlResume(r) \/ ControlAbort(r)
  PROVE  IndInv'
<1>0. TasksTyped
  BY DEF IndInv, TypeOK
<1>1. CASE ControlStart(r)
  <2>1. PICK text \in Lengths : ControlTurn(r, ControlBody(text))
    BY <1>1 DEF ControlStart
  <2>2. ControlBody(text) \in {"reply", "RESPONSE_TOO_LARGE"}
    BY DEF ControlBody
  <2> QED BY <2>1, <2>2, ControlTurnOK
<1>2. CASE ControlResume(r)
  <2>1. handler[r].body \in {"reply", "RESPONSE_TOO_LARGE"}
    BY <1>0 DEF TasksTyped
  <2> QED BY <1>2, <2>1, ControlTurnOK DEF ControlResume
<1>3. CASE ControlAbort(r)
  <2>1. TasksTyped'
    BY <1>0, <1>3 DEF ControlAbort, TasksTyped, IdleHandler
  <2> QED BY <1>3, <2>1, QuietStep DEF ControlAbort
<1> QED BY <1>1, <1>2, <1>3

\* try_control() keeps the invariant.
LEMMA TryControlOK ==
  ASSUME IndInv, TryControl
  PROVE  IndInv'
<1> DEFINE f == [from |-> Notice, body |-> "reply"]
<1>1. TasksTyped /\ QueuesTyped(q) /\ ReadyMatchesData(q) /\ StreakWithinBurst
  BY DEF IndInv, TypeOK, QueuesAgree
<1>2. QueuesTyped(PushControl(q, f)) /\ ReadyMatchesData(PushControl(q, f))
  BY <1>1, PushControlOK DEF ControlFrame
<1>3. PushControl(q, f).burst = q.burst
  BY <1>1 DEF PushControl, QueuesTyped
<1>4. TasksTyped' /\ writer'.pc # "parked"
  BY <1>1, NotifyChangedOK DEF TasksTyped, TryControl
<1> QED BY <1>1, <1>2, <1>3, <1>4
   DEF IndInv, TypeOK, QueuesAgree, WriterNeverSleepsOnWork, StreakWithinBurst, TryControl

\* A step of a removal: the queues shrink, the writer does not move.
LEMMA RemovalStep ==
  ASSUME IndInv, NEW o \in Objects,
         q' = RemoveRequest(q, o, o) \/ q' = RemoveObject(q, o),
         TasksTyped', UNCHANGED <<writer, streak>>
  PROVE  IndInv'
<1>1. TasksTyped /\ QueuesTyped(q) /\ ReadyMatchesData(q) /\ StreakWithinBurst
  BY DEF IndInv, TypeOK, QueuesAgree
<1>2. QueuesTyped(q') /\ ReadyMatchesData(q')
  BY <1>1, RemoveRequestOK, RemoveObjectOK
<1>3. q'.burst = q.burst /\ q'.control = q.control
  BY <1>1 DEF RemoveRequest, RemoveObject, QueuesTyped
<1>4. q.ready = <<>> => q'.ready = <<>>
  <2> SUFFICES ASSUME q.ready = <<>> PROVE q'.ready = <<>>
    OBVIOUS
  <2>1. DOMAIN q.data = {}
    BY <1>1 DEF ReadyMatchesData, ToSet
  <2>2. CASE q' = RemoveRequest(q, o, o)
    BY <2>1, <2>2 DEF RemoveRequest
  <2>3. CASE q' = RemoveObject(q, o)
    BY <1>1, <2>3 DEF RemoveObject, RemoveFirst, QueuesTyped
  <2> QED BY <2>2, <2>3
<1> QED BY <1>1, <1>2, <1>3, <1>4
   DEF IndInv, TypeOK, QueuesAgree, WriterNeverSleepsOnWork, StreakWithinBurst

\* remove_request() and remove_object() keep the invariant.
LEMMA RemovalOK ==
  ASSUME IndInv, NEW o \in Objects, RemoveRequestOf(o) \/ RemoveObjectOf(o)
  PROVE  IndInv'
<1>0. TasksTyped
  BY DEF IndInv, TypeOK
<1>1. passed' \in [Objects -> Nat]
  BY <1>0 DEF RemoveRequestOf, RemoveObjectOf, ForgetRemoved, TasksTyped
<1>2. CASE RemoveRequestOf(o)
  <2>1. /\ handler' \in {handler, Woken(handler)}
        /\ \E g \in {guest, Woken(guest)} : guest' = [g EXCEPT ![o] = IdleGuest]
    BY <1>2 DEF RemoveRequestOf
  <2>2. TasksTyped'
    BY <1>0, <1>1, <1>2, <2>1, WokenOK DEF RemoveRequestOf, TasksTyped, IdleGuest
  <2> QED BY <1>2, <2>2, RemovalStep DEF RemoveRequestOf
<1>3. CASE RemoveObjectOf(o)
  <2>1. TasksTyped'
    BY <1>0, <1>1, <1>3, WokenOK DEF RemoveObjectOf, NotifySpace, TasksTyped
  <2> QED BY <1>3, <2>1, RemovalStep DEF RemoveObjectOf
<1> QED BY <1>2, <1>3

\* The control branch of next() keeps the invariant.
LEMMA TakeControlOK ==
  ASSUME IndInv, TakeControl
  PROVE  IndInv'
<1>1. TasksTyped /\ QueuesTyped(q) /\ ReadyMatchesData(q) /\ StreakWithinBurst /\ TakesControl(q)
  BY DEF IndInv, TypeOK, QueuesAgree, TakeControl
<1>2. QueuesTyped(q') /\ ReadyMatchesData(q')
  BY <1>1, PopControlOK DEF TakeControl
<1>3. writer'.pc = "writing" /\ writer'.from = Control
  BY DEF TakeControl, Writing
<1>4. TasksTyped'
  BY <1>1, <1>3, WokenOK DEF TakeControl, NotifySpace, TasksTyped, WriterPcs
<1>5. StreakWithinBurst'
  <2>1. q'.burst = IF q.burst < BURST THEN q.burst + 1 ELSE q.burst
    BY <1>1 DEF TakeControl, PopControl, QueuesTyped
  <2>2. q.burst \in Nat /\ streak \in Nat
    BY <1>1 DEF QueuesTyped, TasksTyped
  <2>3. CASE q.ready = <<>>
    BY <2>1, <2>2, <2>3 DEF TakeControl, StreakWithinBurst
  <2>4. CASE q.ready # <<>>
    BY <1>1, <2>1, <2>2, <2>4 DEF TakeControl, StreakWithinBurst, TakesControl
  <2> QED BY <2>3, <2>4
<1> QED BY <1>2, <1>3, <1>4, <1>5 DEF IndInv, TypeOK, QueuesAgree, WriterNeverSleepsOnWork

\* The data branch of next() keeps the invariant.
LEMMA TakeDataOK ==
  ASSUME IndInv, TakeData
  PROVE  IndInv'
<1>1. /\ TasksTyped /\ QueuesTyped(q) /\ ReadyMatchesData(q) /\ StreakWithinBurst
      /\ q.ready # <<>>
  BY DEF IndInv, TypeOK, QueuesAgree, TakeData, TakesData
<1>2. QueuesTyped(q') /\ ReadyMatchesData(q') /\ Head(q.ready) \in Objects
  BY <1>1, PopDataOK DEF TakeData
<1>3. writer'.pc = "writing" /\ writer'.from = Head(q.ready)
  BY DEF TakeData, Writing
<1>4. passed' \in [Objects -> Nat]
  BY <1>1 DEF TakeData, TasksTyped
<1>5. TasksTyped'
  BY <1>1, <1>2, <1>3, <1>4, WokenOK DEF TakeData, NotifySpace, TasksTyped, WriterPcs
<1>6. q'.burst = 0 /\ streak' = 0
  BY <1>1 DEF TakeData, PopData, QueuesTyped
<1> QED BY <1>2, <1>3, <1>5, <1>6
   DEF IndInv, TypeOK, QueuesAgree, WriterNeverSleepsOnWork, StreakWithinBurst

\* The other steps of the writer and the end of the session keep it.
LEMMA WriterOK ==
  ASSUME IndInv,
         WriterWait \/ WriterFinish \/ Write \/ WriteFail \/ Close \/ WriterAbort
  PROVE  IndInv'
<1>0. TasksTyped /\ QueuesTyped(q) /\ ReadyMatchesData(q) /\ StreakWithinBurst
  BY DEF IndInv, TypeOK, QueuesAgree
<1>1. UNCHANGED <<q, dropped, handler, guest, streak, passed>>
  BY DEF WriterWait, WriterFinish, Write, WriteFail, Close, WriterAbort
<1>2. /\ closed' \in BOOLEAN /\ changed' \in BOOLEAN
      /\ writer' = writer \/ \E pc \in WriterPcs : writer' = WriterAt(pc)
  BY <1>0 DEF WriterWait, WriterFinish, Write, WriteFail, Close, WriterAbort, TasksTyped, WriterPcs
<1>3. TasksTyped'
  BY <1>0, <1>1, <1>2 DEF TasksTyped, WriterAt, NoFrame
<1>4. WriterNeverSleepsOnWork'
  BY <1>1 DEF IndInv, WriterNeverSleepsOnWork, WriterWait, WriterFinish, Write, WriteFail,
     Close, WriterAbort, WriterAt, NoFrame
<1> QED BY <1>0, <1>1, <1>3, <1>4
   DEF IndInv, TypeOK, QueuesAgree, StreakWithinBurst, QueuesTyped, ReadyMatchesData

\* Every step keeps the invariant.
LEMMA NextIndInv == IndInv /\ [Next]_vars => IndInv'
<1> SUFFICES ASSUME IndInv, [Next]_vars PROVE IndInv'
  OBVIOUS
<1>1. CASE UNCHANGED vars
  <2>1. TasksTyped'
    BY <1>1 DEF vars, IndInv, TypeOK, TasksTyped
  <2> QED BY <1>1, <2>1, QuietStep DEF vars
<1>2. CASE \E r \in Requests : ControlStart(r) \/ ControlResume(r) \/ ControlAbort(r)
  BY <1>2, ControlOK
<1>3. CASE TryControl
  BY <1>3, TryControlOK
<1>4. CASE \E o \in Objects, text \in Lengths : TryData(o, text) \/ DataStart(o, text)
  BY <1>4, TryDataOK, DataStartOK
<1>5. CASE \E o \in Objects : DataResume(o) \/ RemoveRequestOf(o) \/ RemoveObjectOf(o)
  BY <1>5, DataResumeOK, RemovalOK
<1>6. CASE TakeControl \/ TakeData
  BY <1>6, TakeControlOK, TakeDataOK
<1>7. CASE WriterWait \/ WriterFinish \/ Write \/ WriteFail \/ Close \/ WriterAbort
  BY <1>7, WriterOK
<1> QED BY <1>1, <1>2, <1>3, <1>4, <1>5, <1>6, <1>7 DEF Next, WriterPoll

\* The inductive invariant holds in every reachable state.
THEOREM InductiveInvariant == Spec => []IndInv
BY InitIndInv, NextIndInv, PTL DEF Spec

\* Type correctness, whatever the limits, objects and frame lengths are: the
\* control burst and the count of dropped notifications stay in range and a
\* waiting host call waits with a frame that encode() produced.
THEOREM TypeCorrect == Spec => []TypeOK
<1>1. IndInv => TypeOK
  BY DEF IndInv
<1> QED BY <1>1, InductiveInvariant, PTL

\* The expect("ready queue invariant") and expect("nonempty queue") of next()
\* cannot panic: "ready" lists the objects with output, each once.
THEOREM ReadyQueueIsConsistent == Spec => []ReadyQueueInvariant
<1>1. IndInv => ReadyQueueInvariant
  BY DEF IndInv, QueuesAgree, ReadyQueueInvariant
<1> QED BY <1>1, InductiveInvariant, PTL

\* Whatever is pushed before, while or after the writer looks at the queues,
\* the writer never waits for a notification that has already been used up.
THEOREM WriterIsNotForgotten == Spec => []WriterNeverSleepsOnWork
<1>1. IndInv => WriterNeverSleepsOnWork
  BY DEF IndInv
<1> QED BY <1>1, InductiveInvariant, PTL

\* At most BURST control frames in a row pass an object that has output.
THEOREM BurstIsBounded == Spec => []BurstBound
<1>1. IndInv => BurstBound
  BY BoundsAssumption
  DEF IndInv, TypeOK, QueuesTyped, TasksTyped, StreakWithinBurst, BurstBound, BoundsAssumption
<1> QED BY <1>1, InductiveInvariant, PTL

-----------------------------------------------------------------------------
(* Bytes.                                                                  *)

LensOf(s) == [i \in DOMAIN s |-> s[i].len]

\* The bytes of a queue follow what is pushed, popped and removed.
LEMMA FrameBytesOf ==
  ASSUME NEW s \in Seq(Frame)
  PROVE  /\ FrameBytes(s) \in Nat
         /\ \A f \in Frame : FrameBytes(Append(s, f)) = FrameBytes(s) + f.len
         /\ s # <<>> => FrameBytes(Tail(s)) = FrameBytes(s) - Head(s).len
         /\ \A k \in 1..Len(s) : FrameBytes(RemoveAt(s, k)) = FrameBytes(s) - s[k].len
<1> DEFINE F == Frame
<1>1. s \in Seq(F) /\ \A f \in F : f.len \in Nat
  BY OutboxAssumption DEF Frame, FrameLens, FrameLen, OutboxAssumption
<1> HIDE DEF F
<1>2. LensOf(s) \in Seq(Nat) /\ Len(LensOf(s)) = Len(s) /\ FrameBytes(s) = SumFunction(LensOf(s))
  BY <1>1 DEF LensOf, FrameBytes
<1>3. ASSUME NEW f \in F PROVE FrameBytes(Append(s, f)) = FrameBytes(s) + f.len
  <2>1. LensOf(Append(s, f)) = Append(LensOf(s), f.len)
    BY <1>1 DEF LensOf
  <2>2. FrameBytes(Append(s, f)) = SumFunction(LensOf(Append(s, f)))
    BY DEF FrameBytes, LensOf
  <2> QED BY <1>1, <1>2, <2>1, <2>2, SumAppend
<1>4. ASSUME s # <<>> PROVE FrameBytes(Tail(s)) = FrameBytes(s) - Head(s).len
  <2>1. /\ LensOf(Tail(s)) = Tail(LensOf(s)) /\ LensOf(s) # <<>>
        /\ Head(LensOf(s)) = Head(s).len
    BY <1>1, <1>4 DEF LensOf
  <2>2. FrameBytes(Tail(s)) = SumFunction(LensOf(Tail(s)))
    BY DEF FrameBytes, LensOf
  <2>3. SumFunction(Tail(LensOf(s))) = SumFunction(LensOf(s)) - Head(LensOf(s))
    BY <1>2, <2>1, SumTail
  <2> QED BY <1>2, <2>1, <2>2, <2>3
<1>5. ASSUME NEW k \in 1..Len(s)
      PROVE  FrameBytes(RemoveAt(s, k)) = FrameBytes(s) - s[k].len
  <2> DEFINE r == RemoveAt(s, k)
  <2>1. /\ r \in Seq(F) /\ Len(r) = Len(s) - 1
        /\ \A i \in 1..(Len(s) - 1) : r[i] = IF i < k THEN s[i] ELSE s[i + 1]
    BY <1>1, RemoveAtProperties
  <2> HIDE DEF r
  <2>2. LensOf(r) \in Seq(Nat) /\ Len(LensOf(r)) = Len(s) - 1
    BY <1>1, <2>1 DEF LensOf
  <2>3. \A i \in 1..(Len(s) - 1) :
          LensOf(r)[i] = IF i < k THEN LensOf(s)[i] ELSE LensOf(s)[i + 1]
    BY <1>1, <2>1 DEF LensOf
  <2>4. k \in 1..Len(LensOf(s)) /\ Len(LensOf(r)) = Len(LensOf(s)) - 1 /\ LensOf(s)[k] = s[k].len
    BY <1>1, <1>2, <2>2 DEF LensOf
  <2>5. SumFunction(LensOf(r)) = SumFunction(LensOf(s)) - LensOf(s)[k]
    <3>1. ASSUME NEW u, u = LensOf(s), NEW v, v = LensOf(r), NEW kk, kk = k
          PROVE  SumFunction(v) = SumFunction(u) - u[kk]
      <4>1. u \in Seq(Nat) /\ v \in Seq(Nat) /\ Len(v) = Len(u) - 1 /\ kk \in 1..Len(u)
        BY <1>2, <2>2, <2>4, <3>1
      <4>2. \A i \in 1..(Len(u) - 1) : v[i] = IF i < kk THEN u[i] ELSE u[i + 1]
        BY <1>2, <2>3, <3>1
      <4> QED BY ONLY <4>1, <4>2, SumWithout
    <3> QED BY <3>1
  <2>6. FrameBytes(r) = SumFunction(LensOf(r))
    BY DEF FrameBytes, LensOf
  <2> QED BY <1>2, <2>4, <2>5, <2>6 DEF r
<1>6. FrameBytes(s) \in Nat
  BY <1>2, SumOfSeq
<1> QED BY <1>3, <1>4, <1>5, <1>6 DEF F

\* An empty queue has no bytes.
LEMMA NoFrameBytes == FrameBytes(<<>>) = 0
<1>1. [i \in DOMAIN <<>> |-> <<>>[i].len] = <<>>
  OBVIOUS
<1> QED BY <1>1, EmptySum DEF FrameBytes

\* remove_request() takes out one frame, or nothing.
LEMMA WithoutIdIsRemoval ==
  ASSUME NEW S, NEW s \in Seq(S), NEW id
  PROVE  WithoutId(s, id) = s \/ \E k \in 1..Len(s) : WithoutId(s, id) = RemoveAt(s, k)
<1> DEFINE I == {i \in 1..Len(s) : s[i].req = id}
<1>1. CASE I = {}
  BY <1>1 DEF WithoutId, RemoveFirstMatch
<1>2. CASE I # {}
  <2>1. SelectInSeq(s, LAMBDA f : f.req = id) = Min(I)
    BY <1>2 DEF SelectInSeq
  <2>2. Min(I) \in I
    <3>1. I \in SUBSET Nat /\ I # {}
      BY <1>2
    <3> HIDE DEF I
    <3> QED BY <3>1, MinOfNats
  <2>3. WithoutId(s, id) = RemoveAt(s, Min(I))
    BY <1>2, <2>1 DEF WithoutId, RemoveFirstMatch
  <2> QED BY <2>2, <2>3
<1> QED BY <1>1, <1>2

\* The bytes of all data queues.
BytesOf(d) == [o \in DOMAIN d |-> FrameBytes(d[o])]
Total(d) == SumFunction(BytesOf(d))

Accounted(x) ==
  /\ x.bytes = Total(x.data)
  /\ x.bytes <= DATA_BYTES
  /\ \A o \in DOMAIN x.data : FrameBytes(x.data[o]) <= OBJECT_BYTES

\* The map of data queues has finitely many, each of a natural length.
LEMMA BytesOfType ==
  ASSUME NEW x, QueuesTyped(x)
  PROVE  /\ IsFiniteSet(DOMAIN x.data)
         /\ DOMAIN BytesOf(x.data) = DOMAIN x.data
         /\ \A o \in DOMAIN x.data : /\ BytesOf(x.data)[o] = FrameBytes(x.data[o])
                                     /\ FrameBytes(x.data[o]) \in Nat
         /\ Total(x.data) \in Nat
         /\ \A o \in DOMAIN x.data : FrameBytes(x.data[o]) <= Total(x.data)
<1>1. IsFiniteSet(DOMAIN x.data)
  BY OutboxAssumption, FS_Subset DEF QueuesTyped, OutboxAssumption
<1>2. DOMAIN BytesOf(x.data) = DOMAIN x.data
  BY DEF BytesOf
<1>3. \A o \in DOMAIN x.data : x.data[o] \in Seq(Frame)
  BY DEF QueuesTyped
<1>4. ASSUME NEW o \in DOMAIN x.data
      PROVE  BytesOf(x.data)[o] = FrameBytes(x.data[o]) /\ FrameBytes(x.data[o]) \in Nat
  BY <1>3, FrameBytesOf DEF BytesOf
<1>5. /\ SumFunction(BytesOf(x.data)) \in Nat
      /\ \A o \in DOMAIN BytesOf(x.data) : BytesOf(x.data)[o] <= SumFunction(BytesOf(x.data))
  BY <1>1, <1>2, <1>4, SumBounds
<1> QED BY <1>1, <1>2, <1>4, <1>5 DEF Total

\* Putting a queue into the map, or taking one out, changes the total by it.
LEMMA TotalOf ==
  ASSUME NEW x, QueuesTyped(x), NEW o, NEW s \in Seq(Frame)
  PROVE  /\ Total(Put(x.data, o, s)) =
              Total(x.data) - FrameBytes(FramesOf(x, o)) + FrameBytes(s)
         /\ Total(Without(x.data, o)) = Total(x.data) - FrameBytes(FramesOf(x, o))
<1> DEFINE d == x.data
           f == BytesOf(d)
           g == BytesOf(Put(d, o, s))
           h == BytesOf(Without(d, o))
<1>1. /\ IsFiniteSet(DOMAIN f) /\ DOMAIN f = DOMAIN d
      /\ \A p \in DOMAIN f : f[p] = FrameBytes(d[p]) /\ f[p] \in Int
      /\ Total(d) = SumFunction(f) /\ Total(d) \in Nat
  BY BytesOfType DEF Total
<1>2. FrameBytes(s) \in Int
  BY FrameBytesOf
<1>3. DOMAIN g = DOMAIN f \cup {o} /\ g[o] = FrameBytes(s)
  BY DEF Put, BytesOf
<1>4. \A p \in DOMAIN f : p # o => g[p] = f[p]
  BY DEF Put, BytesOf
<1>5. DOMAIN h = DOMAIN f \ {o} /\ \A p \in DOMAIN h : h[p] = f[p]
  BY DEF Without, BytesOf
<1>6. (IF o \in DOMAIN f THEN f[o] ELSE 0) = FrameBytes(FramesOf(x, o))
  BY <1>1, NoFrameBytes DEF FramesOf
<1>7. h = f \/ o \in DOMAIN f
  BY DEF Without, BytesOf
<1>8. /\ Total(Put(d, o, s)) = SumFunction(g)
      /\ Total(Without(d, o)) = SumFunction(h)
  BY DEF Total
<1> HIDE DEF d, f, g, h
<1>9. SumFunction(g) = SumFunction(f) - (IF o \in DOMAIN f THEN f[o] ELSE 0) + g[o]
  <2>1. g[o] \in Int
    BY <1>2, <1>3
  <2> QED BY <1>1, <1>3, <1>4, <2>1, SumPut
<1>10. SumFunction(h) = SumFunction(f) - (IF o \in DOMAIN f THEN f[o] ELSE 0)
  <2>1. CASE o \in DOMAIN f
    <3>1. SumFunction(h) = SumFunction(f) - f[o]
      BY <1>1, <1>5, <2>1, SumWithoutKey
    <3> QED BY <2>1, <3>1
  <2>2. CASE o \notin DOMAIN f
    BY <1>1, <1>7, <2>2
  <2> QED BY <2>1, <2>2
<1> QED BY <1>1, <1>3, <1>6, <1>8, <1>9, <1>10 DEF d

\* push_data() counts what it pushes, within both limits.
LEMMA PushDataCounts ==
  ASSUME NEW x, QueuesTyped(x), Accounted(x), NEW o \in Objects, NEW f \in Frame,
         DataRoom(x, o, f.len)
  PROVE  Accounted(PushData(x, o, f))
<1> DEFINE y == PushData(x, o, f)
           t == Append(FramesOf(x, o), f)
<1>1. y.data = Put(x.data, o, t) /\ y.bytes = x.bytes + f.len
  BY DEF PushData, QueuesTyped
<1>2. FramesOf(x, o) \in Seq(Frame) /\ t \in Seq(Frame)
  BY DEF FramesOf, QueuesTyped
<1>3. f.len \in Nat
  BY OutboxAssumption DEF Frame, FrameLens, FrameLen, OutboxAssumption
<1>4. FrameBytes(FramesOf(x, o)) \in Nat /\ FrameBytes(t) = FrameBytes(FramesOf(x, o)) + f.len
  BY <1>2, FrameBytesOf
<1>5. Total(x.data) \in Nat
  BY BytesOfType
<1>6. Total(Put(x.data, o, t)) = Total(x.data) - FrameBytes(FramesOf(x, o)) + FrameBytes(t)
  BY <1>2, TotalOf
<1> HIDE DEF y, t
<1>7. y.bytes = Total(y.data)
  BY <1>1, <1>3, <1>4, <1>5, <1>6 DEF Accounted
<1>8. y.bytes <= DATA_BYTES
  BY <1>1 DEF DataRoom
<1>9. \A p \in DOMAIN y.data : FrameBytes(y.data[p]) <= OBJECT_BYTES
  <2>1. FrameBytes(t) <= OBJECT_BYTES
    BY <1>4 DEF DataRoom
  <2>2. \A p \in DOMAIN y.data : y.data[p] = t \/ (p \in DOMAIN x.data /\ y.data[p] = x.data[p])
    BY <1>1 DEF Put
  <2> QED BY <2>1, <2>2 DEF Accounted
<1> QED BY <1>7, <1>8, <1>9 DEF Accounted, y

\* Replacing the queue of an object by one with fewer bytes, and counting
\* the difference off, keeps the account.
LEMMA ShrinkCounts ==
  ASSUME NEW x, QueuesTyped(x), Accounted(x), NEW o \in DOMAIN x.data,
         NEW left \in Seq(Frame), FrameBytes(left) <= FrameBytes(x.data[o]),
         NEW y, y.bytes = x.bytes - (FrameBytes(x.data[o]) - FrameBytes(left)),
         y.data = (IF left = <<>> THEN Without(x.data, o) ELSE Put(x.data, o, left))
  PROVE  Accounted(y)
<1>1. FramesOf(x, o) = x.data[o] /\ FrameBytes(x.data[o]) \in Nat /\ Total(x.data) \in Nat
  BY BytesOfType DEF FramesOf
<1>2. FrameBytes(left) \in Nat
  BY FrameBytesOf
<1>3. Total(y.data) = Total(x.data) - FrameBytes(x.data[o]) + FrameBytes(left)
  <2>1. CASE left = <<>>
    <3>1. Total(Without(x.data, o)) = Total(x.data) - FrameBytes(x.data[o])
      BY <1>1, TotalOf
    <3>2. FrameBytes(left) = 0
      BY <2>1, NoFrameBytes
    <3> QED BY <1>1, <2>1, <3>1, <3>2
  <2>2. CASE left # <<>>
    <3>1. Total(Put(x.data, o, left)) = Total(x.data) - FrameBytes(x.data[o]) + FrameBytes(left)
      BY <1>1, TotalOf
    <3> QED BY <2>2, <3>1
  <2> QED BY <2>1, <2>2
<1>4. y.bytes = Total(y.data) /\ y.bytes <= DATA_BYTES
  BY <1>1, <1>2, <1>3, BoundsAssumption DEF Accounted, BoundsAssumption
<1>5. \A p \in DOMAIN y.data : FrameBytes(y.data[p]) <= OBJECT_BYTES
  <2>1. FrameBytes(left) <= OBJECT_BYTES
    BY <1>1, <1>2, BoundsAssumption DEF Accounted, BoundsAssumption
  <2>2. \A p \in DOMAIN y.data : y.data[p] = left \/ (p \in DOMAIN x.data /\ y.data[p] = x.data[p])
    BY DEF Put, Without
  <2> QED BY <2>1, <2>2 DEF Accounted
<1> QED BY <1>4, <1>5 DEF Accounted

\* remove_request() counts off the frame it removes.
LEMMA RemoveRequestCounts ==
  ASSUME NEW x, QueuesTyped(x), Accounted(x), NEW o, NEW id
  PROVE  Accounted(RemoveRequest(x, o, id))
<1>1. CASE o \notin DOMAIN x.data
  BY <1>1 DEF RemoveRequest
<1>2. CASE o \in DOMAIN x.data
  <2> DEFINE y == RemoveRequest(x, o, id)
             left == WithoutId(x.data[o], id)
  <2>1. x.data[o] \in Seq(Frame)
    BY <1>2 DEF QueuesTyped
  <2>2. /\ y.bytes = x.bytes - (FrameBytes(x.data[o]) - FrameBytes(left))
        /\ y.data = IF left = <<>> THEN Without(x.data, o) ELSE Put(x.data, o, left)
    BY <1>2 DEF RemoveRequest, QueuesTyped
  <2>3. left \in Seq(Frame)
    BY <2>1, RemoveFirstMatchType
  <2>4. FrameBytes(left) <= FrameBytes(x.data[o])
    <3>1. FrameBytes(x.data[o]) \in Nat
      BY <2>1, FrameBytesOf
    <3>2. CASE left = x.data[o]
      BY <3>1, <3>2
    <3>3. ASSUME NEW k \in 1..Len(x.data[o]), left = RemoveAt(x.data[o], k)
          PROVE  FrameBytes(left) <= FrameBytes(x.data[o])
      <4>1. FrameBytes(left) = FrameBytes(x.data[o]) - x.data[o][k].len
        BY <2>1, <3>3, FrameBytesOf
      <4>2. x.data[o][k] \in Frame
        BY <2>1
      <4>3. x.data[o][k].len \in Nat
        BY <4>2, OutboxAssumption DEF Frame, FrameLens, FrameLen, OutboxAssumption
      <4> QED BY <3>1, <4>1, <4>3
    <3> QED BY <2>1, <3>2, <3>3, WithoutIdIsRemoval
  <2> HIDE DEF y, left
  <2>5. Accounted(y)
    BY <1>2, <2>2, <2>3, <2>4, ShrinkCounts
  <2> QED BY <2>5 DEF y
<1> QED BY <1>1, <1>2

\* remove_object() counts off its queue.
LEMMA RemoveObjectCounts ==
  ASSUME NEW x, QueuesTyped(x), Accounted(x), NEW o
  PROVE  Accounted(RemoveObject(x, o))
<1> DEFINE y == RemoveObject(x, o)
<1>1. y.bytes = x.bytes - FrameBytes(FramesOf(x, o)) /\ y.data = Without(x.data, o)
  BY DEF RemoveObject, QueuesTyped
<1> HIDE DEF y
<1>2. CASE o \in DOMAIN x.data
  <2>1. /\ <<>> \in Seq(Frame) /\ FrameBytes(<<>>) = 0 /\ FramesOf(x, o) = x.data[o]
        /\ FrameBytes(x.data[o]) \in Nat
    BY <1>2, NoFrameBytes, BytesOfType DEF FramesOf
  <2>2. y.bytes = x.bytes - (FrameBytes(x.data[o]) - FrameBytes(<<>>))
    BY <1>1, <2>1
  <2>3. ASSUME NEW left, left = <<>> PROVE Accounted(y)
    <3>1. left \in Seq(Frame) /\ FrameBytes(left) <= FrameBytes(x.data[o])
      BY <2>1, <2>3
    <3>2. y.bytes = x.bytes - (FrameBytes(x.data[o]) - FrameBytes(left))
      BY <2>2, <2>3
    <3>3. y.data = IF left = <<>> THEN Without(x.data, o) ELSE Put(x.data, o, left)
      BY <1>1, <2>3
    <3> QED BY <1>2, <3>1, <3>2, <3>3, ShrinkCounts
  <2> QED BY <2>3 DEF y
<1>3. CASE o \notin DOMAIN x.data
  <2>1. FrameBytes(FramesOf(x, o)) = 0 /\ Without(x.data, o) = x.data
    BY <1>3, NoFrameBytes DEF FramesOf, Without, QueuesTyped
  <2>2. Total(x.data) \in Nat
    BY BytesOfType
  <2>3. y.bytes = x.bytes /\ y.data = x.data
    BY <1>1, <2>1, <2>2 DEF Accounted
  <2>4. Accounted(y)
    BY <2>3 DEF Accounted
  <2> QED BY <2>4 DEF y
<1> QED BY <1>2, <1>3

\* The data branch of next() counts off the frame it pops.
LEMMA PopDataCounts ==
  ASSUME NEW x, QueuesTyped(x), ReadyMatchesData(x), Accounted(x), x.ready # <<>>
  PROVE  Accounted(PopData(x))
<1> DEFINE y == PopData(x)
           o == Head(x.ready)
           left == Tail(x.data[o])
<1>1. o \in DOMAIN x.data /\ x.data[o] \in Seq(Frame) /\ x.data[o] # <<>>
  BY PopDataOK DEF HeadIsServable, QueuesTyped
<1>2. /\ y.bytes = x.bytes - Head(x.data[o]).len
      /\ y.data = IF left = <<>> THEN Without(x.data, o) ELSE Put(x.data, o, left)
  BY DEF PopData, QueuesTyped
<1>3. left \in Seq(Frame) /\ Head(x.data[o]) \in Frame
  BY <1>1
<1>4. Head(x.data[o]).len \in Nat
  <2> HIDE DEF o, left, y
  <2> QED BY <1>3, OutboxAssumption DEF Frame, FrameLens, FrameLen, OutboxAssumption
<1>5. FrameBytes(left) = FrameBytes(x.data[o]) - Head(x.data[o]).len /\ FrameBytes(x.data[o]) \in Nat
  BY <1>1, FrameBytesOf
<1>6. Total(x.data) \in Nat
  BY BytesOfType
<1> HIDE DEF y, o, left
<1>7. FrameBytes(left) <= FrameBytes(x.data[o])
  BY <1>4, <1>5
<1>8. y.bytes = x.bytes - (FrameBytes(x.data[o]) - FrameBytes(left))
  BY <1>2, <1>4, <1>5, <1>6 DEF Accounted
<1>9. Accounted(y)
  BY <1>1, <1>2, <1>3, <1>7, <1>8, ShrinkCounts
<1> QED BY <1>9 DEF y

\* Every step keeps the account of the bytes.
LEMMA NextAccounted ==
  ASSUME IndInv, Accounted(q), [Next]_vars
  PROVE  Accounted(q')
<1>1. TasksTyped /\ QueuesTyped(q) /\ ReadyMatchesData(q)
  BY DEF IndInv, TypeOK, QueuesAgree
<1>2. CASE q'.data = q.data /\ q'.bytes = q.bytes
  BY <1>2 DEF Accounted
<1>3. ASSUME NEW c \in ControlFrame, q' = PushControl(q, c) PROVE Accounted(q')
  BY <1>1, <1>2, <1>3 DEF PushControl, QueuesTyped
<1>4. ASSUME NEW o \in Objects, NEW len \in FrameLens, NEW id \in Objects \cup {NoId},
             Accept(o, [len |-> len, req |-> id]), Accepts(o, len)
      PROVE  Accounted(q')
  <2> DEFINE f == [len |-> len, req |-> id]
  <2>1. f \in Frame /\ f.len = len
    BY DEF Frame
  <2>2. q' = PushData(q, o, f) /\ DataRoom(q, o, f.len)
    BY <1>4, <2>1 DEF Accept, Accepts
  <2> HIDE DEF f
  <2> QED BY <1>1, <2>1, <2>2, PushDataCounts
<1>5. ASSUME NEW r \in Requests, NEW body, ControlTurn(r, body),
             body \in {"reply", "RESPONSE_TOO_LARGE"}
      PROVE  Accounted(q')
  <2>1. [from |-> r, body |-> body] \in ControlFrame
    BY <1>5 DEF ControlFrame
  <2> QED BY <1>2, <1>3, <1>5, <2>1 DEF ControlTurn
<1>6. ASSUME NEW o \in Objects, NEW len \in FrameLens, DataTurn(o, len)
      PROVE  Accounted(q')
  BY <1>2, <1>4, <1>6 DEF DataTurn
<1>7. ASSUME NEW r \in Requests, ControlStart(r) \/ ControlResume(r) \/ ControlAbort(r)
      PROVE  Accounted(q')
  <2>1. handler[r].body \in {"reply", "RESPONSE_TOO_LARGE"}
    BY <1>1 DEF TasksTyped
  <2>2. \A text \in Lengths : ControlBody(text) \in {"reply", "RESPONSE_TOO_LARGE"}
    BY DEF ControlBody
  <2> QED BY <1>2, <1>5, <1>7, <2>1, <2>2 DEF ControlStart, ControlResume, ControlAbort
<1>8. CASE TryControl
  <2>1. [from |-> Notice, body |-> "reply"] \in ControlFrame
    BY DEF ControlFrame
  <2> QED BY <1>3, <1>8, <2>1 DEF TryControl
<1>9. ASSUME NEW o \in Objects, NEW text \in Lengths, TryData(o, text) \/ DataStart(o, text)
      PROVE  Accounted(q')
  <2>1. FrameLen(text) \in FrameLens
    BY DEF FrameLens
  <2>2. CASE TryData(o, text)
    BY <1>2, <1>4, <2>1, <2>2 DEF TryData
  <2>3. CASE DataStart(o, text)
    BY <1>2, <1>6, <2>1, <2>3 DEF DataStart
  <2> QED BY <1>9, <2>2, <2>3
<1>10. ASSUME NEW o \in Objects, DataResume(o) PROVE Accounted(q')
  <2>1. guest[o].len \in FrameLens
    BY <1>1, <1>10 DEF TasksTyped, DataResume, Runnable
  <2> QED BY <1>6, <1>10, <2>1 DEF DataResume
<1>11. ASSUME NEW o \in Objects, RemoveRequestOf(o) \/ RemoveObjectOf(o) PROVE Accounted(q')
  BY <1>1, <1>11, RemoveRequestCounts, RemoveObjectCounts DEF RemoveRequestOf, RemoveObjectOf
<1>12. CASE TakeControl
  BY <1>1, <1>2, <1>12 DEF TakeControl, PopControl, QueuesTyped
<1>13. CASE TakeData
  BY <1>1, <1>13, PopDataCounts DEF TakeData, TakesData
<1>14. CASE WriterWait \/ WriterFinish \/ Write \/ WriteFail \/ Close \/ WriterAbort \/ UNCHANGED vars
  BY <1>2, <1>14 DEF WriterWait, WriterFinish, Write, WriteFail, Close, WriterAbort, vars
<1> QED BY <1>7, <1>8, <1>9, <1>10, <1>11, <1>12, <1>13, <1>14 DEF Next, WriterPoll

\* The total that five methods maintain is the number of bytes queued, it
\* never goes below zero, and both limits hold.
THEOREM BytesAreCounted == Spec => []ByteAccounting
<1>1. Init => Accounted(q)
  <2> SUFFICES ASSUME Init PROVE Accounted(q)
    OBVIOUS
  <2>1. q.data = <<>> /\ q.bytes = 0 /\ DOMAIN q.data = {}
    BY DEF Init, EmptyQueues
  <2>2. BytesOf(<<>>) = <<>>
    BY DEF BytesOf
  <2>3. Total(q.data) = 0
    BY <2>1, <2>2, EmptySum DEF Total
  <2> QED BY <2>1, <2>3, BoundsAssumption DEF Accounted, BoundsAssumption
<1>2. IndInv /\ Accounted(q) /\ [Next]_vars => Accounted(q)'
  BY NextAccounted
<1>3. Accounted(q) => ByteAccounting
  BY DEF Accounted, Total, BytesOf, ByteAccounting
<1> QED BY <1>1, <1>2, <1>3, InductiveInvariant, PTL DEF Spec

-----------------------------------------------------------------------------
(* Senders that wait.                                                      *)

\* Nothing that had no room has room after a push.
RoomOnlyShrinks(x, y) ==
  /\ ~ControlRoom(x) => ~ControlRoom(y)
  /\ \A o \in Objects, len \in Nat : ~DataRoom(x, o, len) => ~DataRoom(y, o, len)

\* A control frame takes a slot and no bytes.
LEMMA PushControlRoom ==
  ASSUME NEW x, QueuesTyped(x), NEW f \in ControlFrame
  PROVE  RoomOnlyShrinks(x, PushControl(x, f))
<1> DEFINE y == PushControl(x, f)
<1>1. y.control = Append(x.control, f) /\ y.data = x.data /\ y.bytes = x.bytes
  BY DEF PushControl, QueuesTyped
<1>2. Len(y.control) = Len(x.control) + 1 /\ Len(x.control) \in Nat
  BY <1>1 DEF QueuesTyped
<1> HIDE DEF y
<1>3. ~ControlRoom(x) => ~ControlRoom(y)
  BY <1>2, BoundsAssumption DEF ControlRoom, BoundsAssumption
<1>4. \A o, len : DataRoom(x, o, len) <=> DataRoom(y, o, len)
  BY <1>1 DEF DataRoom, FramesOf
<1> QED BY <1>3, <1>4 DEF RoomOnlyShrinks, y

\* A data frame takes bytes of its object and of the total.
LEMMA PushDataRoom ==
  ASSUME NEW x, QueuesTyped(x), Accounted(x), NEW o \in Objects, NEW f \in Frame
  PROVE  RoomOnlyShrinks(x, PushData(x, o, f))
<1> DEFINE y == PushData(x, o, f)
           t == Append(FramesOf(x, o), f)
<1>1. y.data = Put(x.data, o, t) /\ y.bytes = x.bytes + f.len /\ y.control = x.control
  BY DEF PushData, QueuesTyped
<1>2. FramesOf(x, o) \in Seq(Frame)
  BY DEF FramesOf, QueuesTyped
<1>3. f.len \in Nat
  BY OutboxAssumption DEF Frame, FrameLens, FrameLen, OutboxAssumption
<1>4. FrameBytes(FramesOf(x, o)) \in Nat /\ FrameBytes(t) = FrameBytes(FramesOf(x, o)) + f.len
  BY <1>2, FrameBytesOf
<1>5. x.bytes \in Nat
  BY BytesOfType DEF Accounted
<1> HIDE DEF y, t
<1>6. FramesOf(y, o) = t /\ \A p \in Objects : p # o => FramesOf(y, p) = FramesOf(x, p)
  BY <1>1 DEF FramesOf, Put
<1>7. ASSUME NEW p \in Objects, NEW len \in Nat, DataRoom(y, p, len) PROVE DataRoom(x, p, len)
  <2>1. x.bytes + len <= DATA_BYTES
    BY <1>1, <1>3, <1>5, <1>7, BoundsAssumption DEF DataRoom, BoundsAssumption
  <2>2. FrameBytes(FramesOf(x, p)) + len <= OBJECT_BYTES
    <3>1. CASE p = o
      BY <1>3, <1>4, <1>6, <1>7, <3>1, BoundsAssumption DEF DataRoom, BoundsAssumption
    <3>2. CASE p # o
      BY <1>6, <1>7, <3>2 DEF DataRoom
    <3> QED BY <3>1, <3>2
  <2> QED BY <2>1, <2>2 DEF DataRoom
<1>8. ~ControlRoom(x) => ~ControlRoom(y)
  BY <1>1 DEF ControlRoom
<1> QED BY <1>7, <1>8 DEF RoomOnlyShrinks, y

\* A step that makes no room, and after which only those wait who waited
\* before or who found no room.
LEMMA NoRoomStep ==
  ASSUME TasksTyped, SendersNeverSleepOnRoom, RoomOnlyShrinks(q, q'), closed' \/ ~closed,
         \A r \in Requests : handler'[r].pc = "parked" =>
                             handler[r].pc = "parked" \/ ~ControlRoom(q'),
         \A o \in Objects : guest'[o].pc = "parked" =>
                            guest'[o] = guest[o] \/ ~DataRoom(q', o, guest'[o].len)
  PROVE  SendersNeverSleepOnRoom'
<1> SUFFICES ASSUME ~closed', ~closed
             PROVE  /\ \A r \in Requests : handler'[r].pc = "parked" => ~ControlRoom(q')
                    /\ \A o \in Objects : guest'[o].pc = "parked" =>
                                          ~DataRoom(q', o, guest'[o].len)
  BY DEF SendersNeverSleepOnRoom
<1>1. ASSUME NEW r \in Requests, handler'[r].pc = "parked" PROVE ~ControlRoom(q')
  BY <1>1 DEF SendersNeverSleepOnRoom, RoomOnlyShrinks
<1>2. ASSUME NEW o \in Objects, guest'[o].pc = "parked" PROVE ~DataRoom(q', o, guest'[o].len)
  <2>1. CASE guest'[o] = guest[o]
    <3>1. guest[o].len \in Nat /\ ~DataRoom(q, o, guest[o].len)
      BY <1>2, <2>1 DEF SendersNeverSleepOnRoom, TasksTyped
    <3> QED BY <2>1, <3>1 DEF RoomOnlyShrinks
  <2> QED BY <1>2, <2>1
<1> QED BY <1>1, <1>2

\* A step after which nobody waits.
LEMMA EverybodyWoken ==
  ASSUME \A r \in Requests : handler'[r].pc # "parked",
         \A o \in Objects : guest'[o].pc # "parked"
  PROVE  SendersNeverSleepOnRoom'
BY DEF SendersNeverSleepOnRoom

\* space.notify_waiters() leaves nobody waiting.
LEMMA WokenWakes ==
  ASSUME TasksTyped
  PROVE  /\ \A r \in Requests : Woken(handler)[r].pc # "parked"
         /\ \A o \in Objects : Woken(guest)[o].pc # "parked"
BY DEF TasksTyped, Woken

\* Every step leaves only senders waiting whose frame does not fit.
LEMMA NextSenders ==
  ASSUME IndInv, Accounted(q), SendersNeverSleepOnRoom, [Next]_vars
  PROVE  SendersNeverSleepOnRoom'
<1>1. TasksTyped /\ QueuesTyped(q) /\ ReadyMatchesData(q)
  BY DEF IndInv, TypeOK, QueuesAgree
<1>2. RoomOnlyShrinks(q, q)
  BY DEF RoomOnlyShrinks
<1>3. ASSUME NEW c \in ControlFrame, q' = PushControl(q, c) PROVE RoomOnlyShrinks(q, q')
  BY <1>1, <1>3, PushControlRoom
<1>4. ASSUME NEW o \in Objects, NEW len \in FrameLens, NEW id \in Objects \cup {NoId},
             Accept(o, [len |-> len, req |-> id])
      PROVE  RoomOnlyShrinks(q, q')
  <2>1. [len |-> len, req |-> id] \in Frame
    BY DEF Frame
  <2> QED BY <1>1, <1>4, <2>1, PushDataRoom DEF Accept
<1>5. ASSUME NEW r \in Requests, NEW body, ControlTurn(r, body),
             body \in {"reply", "RESPONSE_TOO_LARGE"}
      PROVE  SendersNeverSleepOnRoom'
  <2>1. [from |-> r, body |-> body] \in ControlFrame
    BY <1>5 DEF ControlFrame
  <2>2. RoomOnlyShrinks(q, q')
    BY <1>2, <1>3, <1>5, <2>1 DEF ControlTurn
  <2>3. UNCHANGED <<closed, guest>>
    BY <1>5 DEF ControlTurn
  <2>4. ASSUME NEW s \in Requests, handler'[s].pc = "parked"
        PROVE  handler[s].pc = "parked" \/ ~ControlRoom(q')
    BY <1>1, <1>5, <2>4 DEF ControlTurn, TasksTyped, IdleHandler
  <2>5. closed => \A s \in Requests : handler'[s].pc = "parked" => handler[s].pc = "parked"
    BY <1>1, <1>5 DEF ControlTurn, TasksTyped, IdleHandler
  <2>6. CASE closed
    BY <2>3, <2>6 DEF SendersNeverSleepOnRoom
  <2>7. CASE ~closed
    BY <1>1, <2>2, <2>3, <2>4, <2>7, NoRoomStep
  <2> QED BY <2>6, <2>7
<1>6. ASSUME NEW o \in Objects, NEW len \in FrameLens, DataTurn(o, len)
      PROVE  SendersNeverSleepOnRoom'
  <2>1. RoomOnlyShrinks(q, q')
    BY <1>2, <1>4, <1>6 DEF DataTurn
  <2>2. UNCHANGED <<closed, handler>>
    BY <1>6 DEF DataTurn
  <2>3. CASE closed
    BY <2>2, <2>3 DEF SendersNeverSleepOnRoom
  <2>4. CASE ~closed
    <3>1. ASSUME NEW p \in Objects, guest'[p].pc = "parked"
          PROVE  guest'[p] = guest[p] \/ ~DataRoom(q', p, guest'[p].len)
      <4>1. CASE p # o
        BY <1>1, <1>6, <4>1 DEF DataTurn, TasksTyped
      <4>2. CASE p = o
        BY <1>1, <1>6, <2>4, <3>1, <4>2 DEF DataTurn, TasksTyped, Accepts
      <4> QED BY <4>1, <4>2
    <3> QED BY <1>1, <2>1, <2>2, <2>4, <3>1, NoRoomStep
  <2> QED BY <2>3, <2>4
<1>7. ASSUME NEW r \in Requests, ControlStart(r) \/ ControlResume(r) \/ ControlAbort(r)
      PROVE  SendersNeverSleepOnRoom'
  <2>1. handler[r].body \in {"reply", "RESPONSE_TOO_LARGE"}
    BY <1>1 DEF TasksTyped
  <2>2. \A text \in Lengths : ControlBody(text) \in {"reply", "RESPONSE_TOO_LARGE"}
    BY DEF ControlBody
  <2>3. CASE ControlAbort(r)
    <3>1. /\ UNCHANGED <<q, closed, guest>>
          /\ \A s \in Requests : handler'[s].pc = "parked" => handler[s].pc = "parked"
      BY <1>1, <2>3 DEF ControlAbort, TasksTyped, IdleHandler
    <3> QED BY <3>1 DEF SendersNeverSleepOnRoom
  <2> QED BY <1>5, <1>7, <2>1, <2>2, <2>3 DEF ControlStart, ControlResume
<1>8. CASE TryControl
  <2>1. [from |-> Notice, body |-> "reply"] \in ControlFrame
    BY DEF ControlFrame
  <2>2. RoomOnlyShrinks(q, q') /\ ~closed /\ UNCHANGED <<closed, handler, guest>>
    BY <1>3, <1>8, <2>1 DEF TryControl
  <2> QED BY <1>1, <2>2, NoRoomStep
<1>9. ASSUME NEW o \in Objects, NEW text \in Lengths, TryData(o, text)
      PROVE  SendersNeverSleepOnRoom'
  <2>1. FrameLen(text) \in FrameLens
    BY DEF FrameLens
  <2>2. RoomOnlyShrinks(q, q') /\ UNCHANGED <<closed, handler, guest>>
    BY <1>2, <1>4, <1>9, <2>1 DEF TryData
  <2>3. CASE closed
    BY <2>2, <2>3 DEF SendersNeverSleepOnRoom
  <2>4. CASE ~closed
    BY <1>1, <2>2, <2>4, NoRoomStep
  <2> QED BY <2>3, <2>4
<1>10. ASSUME NEW o \in Objects, NEW text \in Lengths, DataStart(o, text)
       PROVE  SendersNeverSleepOnRoom'
  <2>1. FrameLen(text) \in FrameLens
    BY DEF FrameLens
  <2>2. CASE DataTurn(o, FrameLen(text))
    BY <1>6, <2>1, <2>2
  <2>3. CASE /\ guest' = [guest EXCEPT ![o] = [pc |-> "returned", len |-> FrameLen(text)]]
             /\ UNCHANGED <<q, closed, dropped, changed, writer, handler, streak, passed>>
    <3>1. \A p \in Objects : guest'[p].pc = "parked" => guest'[p] = guest[p]
      BY <1>1, <2>3 DEF TasksTyped
    <3> QED BY <2>3, <3>1 DEF SendersNeverSleepOnRoom
  <2> QED BY <1>10, <2>2, <2>3 DEF DataStart
<1>11. ASSUME NEW o \in Objects, DataResume(o) PROVE SendersNeverSleepOnRoom'
  <2>1. guest[o].len \in FrameLens
    BY <1>1, <1>11 DEF TasksTyped, DataResume, Runnable
  <2> QED BY <1>6, <1>11, <2>1 DEF DataResume
<1>12. ASSUME NEW o \in Objects, RemoveRequestOf(o) PROVE SendersNeverSleepOnRoom'
  <2>1. CASE o \in DOMAIN q.data
    <3>1. handler' = Woken(handler) /\ guest' = [Woken(guest) EXCEPT ![o] = IdleGuest]
      BY <1>12, <2>1 DEF RemoveRequestOf
    <3>2. \A p \in Objects : guest'[p].pc # "parked"
      BY <1>1, <3>1, WokenWakes, WokenOK DEF IdleGuest
    <3> QED BY <1>1, <3>1, <3>2, WokenWakes, EverybodyWoken
  <2>2. CASE o \notin DOMAIN q.data
    <3>1. q' = q /\ UNCHANGED <<closed, handler>> /\ guest' = [guest EXCEPT ![o] = IdleGuest]
      BY <1>12, <2>2 DEF RemoveRequestOf, RemoveRequest
    <3>2. \A p \in Objects : guest'[p].pc = "parked" => guest'[p] = guest[p]
      BY <1>1, <3>1 DEF TasksTyped, IdleGuest
    <3> QED BY <3>1, <3>2 DEF SendersNeverSleepOnRoom
  <2> QED BY <2>1, <2>2
<1>13. CASE TakeControl \/ TakeData \/ \E o \in Objects : RemoveObjectOf(o)
  <2>1. handler' = Woken(handler) /\ guest' = Woken(guest)
    BY <1>13 DEF TakeControl, TakeData, RemoveObjectOf, NotifySpace
  <2> QED BY <1>1, <2>1, WokenWakes, EverybodyWoken
<1>14. CASE WriterWait \/ WriterFinish \/ Write \/ WriteFail \/ Close \/ WriterAbort \/ UNCHANGED vars
  <2>1. UNCHANGED <<q, handler, guest>> /\ (closed' \/ closed' = closed)
    BY <1>14 DEF WriterWait, WriterFinish, Write, WriteFail, Close, WriterAbort, vars
  <2> QED BY <2>1 DEF SendersNeverSleepOnRoom
<1> QED BY <1>7, <1>8, <1>9, <1>10, <1>11, <1>12, <1>13, <1>14 DEF Next, WriterPoll

\* Nobody waits for room that is there: whoever makes room in either queue
\* wakes all who wait, and a task waits only when it has found none.
THEOREM SendersAreNotForgotten == Spec => []SendersNeverSleepOnRoom
<1>1. Init => SendersNeverSleepOnRoom
  BY DEF Init, SendersNeverSleepOnRoom, IdleHandler, IdleGuest
<1>2. IndInv /\ ByteAccounting /\ SendersNeverSleepOnRoom /\ [Next]_vars => SendersNeverSleepOnRoom'
  <2>1. ByteAccounting => Accounted(q)
    BY DEF Accounted, Total, BytesOf, ByteAccounting
  <2> QED BY <2>1, NextSenders
<1> QED BY <1>1, <1>2, InductiveInvariant, BytesAreCounted, PTL DEF Spec

-----------------------------------------------------------------------------
(* Round robin.                                                            *)

\* What has passed an object and what still may pass it add up to less than
\* the number of objects.
TurnsLeft ==
  /\ \A o \in Objects \ ToSet(q.ready) : passed[o] = 0
  /\ \A i \in 1..Len(q.ready) : passed[q.ready[i]] + i <= Cardinality(Objects)

\* A step that leaves the order alone or appends to it.
LEMMA OrderGrows ==
  ASSUME TypeOK, QueuesAgree, TypeOK', QueuesAgree', TurnsLeft,
         passed' = passed,
         q'.ready = q.ready \/ \E o \in Objects \ ToSet(q.ready) : q'.ready = Append(q.ready, o)
  PROVE  TurnsLeft'
<1> DEFINE n == Cardinality(Objects)
<1>1. q.ready \in Seq(Objects) /\ passed \in [Objects -> Nat] /\ n \in Nat
  BY OutboxAssumption, FS_CardinalityType DEF TypeOK, QueuesTyped, TasksTyped, OutboxAssumption
<1>2. CASE q'.ready = q.ready
  BY <1>2 DEF TurnsLeft
<1>3. ASSUME NEW o \in Objects \ ToSet(q.ready), q'.ready = Append(q.ready, o)
      PROVE  TurnsLeft'
  <2>1. Len(q'.ready) <= n
    <3>1. q'.ready \in Seq(Objects) /\ IsInjective(q'.ready)
      BY DEF TypeOK, QueuesTyped, QueuesAgree, ReadyMatchesData
    <3> QED BY <3>1, InjectiveLen, OutboxAssumption DEF OutboxAssumption
  <2>2. ToSet(q'.ready) = ToSet(q.ready) \cup {o}
    BY <1>1, <1>3, AppendFresh DEF QueuesAgree, ReadyMatchesData
  <2>3. /\ Len(q'.ready) = Len(q.ready) + 1 /\ q'.ready[Len(q.ready) + 1] = o
        /\ \A i \in 1..Len(q.ready) : q'.ready[i] = q.ready[i]
    BY <1>1, <1>3
  <2>4. passed[o] = 0
    BY DEF TurnsLeft
  <2>5. ASSUME NEW i \in 1..Len(q'.ready) PROVE passed'[q'.ready[i]] + i <= n
    <3>1. CASE i = Len(q.ready) + 1
      BY <1>1, <2>1, <2>3, <2>4, <3>1
    <3>2. CASE i # Len(q.ready) + 1
      <4>1. i \in 1..Len(q.ready)
        BY <1>1, <2>3, <3>2
      <4> QED BY <2>3, <4>1 DEF TurnsLeft
    <3> QED BY <3>1, <3>2
  <2> QED BY <2>2, <2>5 DEF TurnsLeft
<1> QED BY <1>2, <1>3

\* A removal moves nobody back.
LEMMA OrderShrinks ==
  ASSUME TypeOK, TypeOK', QueuesAgree', TurnsLeft, ForgetRemoved,
         NEW o, q'.ready = q.ready \/ q'.ready = RemoveFirst(q.ready, o)
  PROVE  TurnsLeft'
<1> DEFINE n == Cardinality(Objects)
<1>1. q.ready \in Seq(Objects) /\ passed \in [Objects -> Nat] /\ n \in Nat
  BY OutboxAssumption, FS_CardinalityType DEF TypeOK, QueuesTyped, TasksTyped, OutboxAssumption
<1>2. \A p \in Objects : passed'[p] = IF p \in ToSet(q'.ready) THEN passed[p] ELSE 0
  BY DEF ForgetRemoved, QueuesAgree, ReadyMatchesData
<1>3. q'.ready \in Seq(Objects)
  BY DEF TypeOK, QueuesTyped
<1>4. ASSUME NEW i \in 1..Len(q'.ready) PROVE passed'[q'.ready[i]] + i <= n
  <2>1. PICK j \in 1..Len(q.ready) : i <= j /\ q'.ready[i] = q.ready[j]
    <3>1. CASE q'.ready = q.ready
      BY <3>1
    <3>2. CASE q'.ready = RemoveFirst(q.ready, o)
      <4>1. \A k \in 1..Len(RemoveFirst(q.ready, o)) :
              \E j \in 1..Len(q.ready) : k <= j /\ RemoveFirst(q.ready, o)[k] = q.ready[j]
        <5>1. q.ready \in Seq(Objects)
          BY <1>1
        <5> QED BY ONLY <5>1, RemoveFirstShifts
      <4> QED BY <3>2, <4>1
    <3> QED BY <3>1, <3>2
  <2>2. q'.ready[i] \in ToSet(q'.ready) /\ q'.ready[i] \in Objects
    BY <1>3 DEF ToSet
  <2>3. passed'[q'.ready[i]] = passed[q.ready[j]] /\ passed[q.ready[j]] \in Nat
    BY <1>1, <1>2, <2>1, <2>2
  <2>4. passed[q.ready[j]] + j <= n
    BY <2>1 DEF TurnsLeft
  <2> QED BY <1>1, <1>3, <2>1, <2>3, <2>4
<1> QED BY <1>2, <1>4 DEF TurnsLeft

\* The data branch of next() moves everybody one place forward, and the
\* object it serves to the end.
LEMMA OrderTurns ==
  ASSUME TypeOK, QueuesAgree, TypeOK', QueuesAgree', TurnsLeft, TakeData
  PROVE  TurnsLeft'
<1> DEFINE n == Cardinality(Objects)
           r == q.ready
           o == Head(q.ready)
<1>1. r \in Seq(Objects) /\ passed \in [Objects -> Nat] /\ n \in Nat /\ r # <<>> /\ IsInjective(r)
  BY OutboxAssumption, FS_CardinalityType
     DEF TypeOK, QueuesTyped, TasksTyped, OutboxAssumption, TakeData, TakesData,
         QueuesAgree, ReadyMatchesData
<1>2. q'.ready = Tail(r) \/ q'.ready = Append(Tail(r), o)
  BY DEF TakeData, PopData, TypeOK, QueuesTyped
<1>3. \A x \in Objects : passed'[x] = IF x = o \/ x \notin ToSet(r) THEN 0 ELSE passed[x] + 1
  BY DEF TakeData, Ready
<1>4. Len(q'.ready) <= n /\ q'.ready \in Seq(Objects)
  <2>1. q'.ready \in Seq(Objects) /\ IsInjective(q'.ready)
    BY DEF TypeOK, QueuesTyped, QueuesAgree, ReadyMatchesData
  <2> QED BY <2>1, InjectiveLen, OutboxAssumption DEF OutboxAssumption
<1>5. o = r[1] /\ o \in Objects
  BY <1>1
<1> HIDE DEF o, r, n
<1>6. /\ Len(Tail(r)) = Len(r) - 1 /\ Len(r) \in Nat
      /\ \A i \in 1..(Len(r) - 1) : Tail(r)[i] = r[i + 1] /\ r[i + 1] # o
  BY <1>1, <1>5 DEF IsInjective
<1>7. /\ \A i \in 1..(Len(r) - 1) : q'.ready[i] = r[i + 1]
      /\ Len(q'.ready) = Len(r) - 1 \/ (Len(q'.ready) = Len(r) /\ q'.ready[Len(r)] = o)
  <2>1. CASE q'.ready = Tail(r)
    BY <1>6, <2>1
  <2>2. CASE q'.ready = Append(Tail(r), o)
    <3>1. Tail(r) \in Seq(Objects)
      BY <1>1
    <3>2. /\ Len(q'.ready) = Len(Tail(r)) + 1 /\ q'.ready[Len(Tail(r)) + 1] = o
          /\ \A i \in 1..Len(Tail(r)) : q'.ready[i] = Tail(r)[i]
      BY <1>5, <2>2, <3>1
    <3> QED BY <1>6, <3>2
  <2> QED BY <1>2, <2>1, <2>2
<1>8. ASSUME NEW i \in 1..Len(q'.ready) PROVE passed'[q'.ready[i]] + i <= n
  <2>1. CASE i \in 1..(Len(r) - 1)
    <3>1. i + 1 \in 1..Len(r) /\ r[i + 1] \in ToSet(r) /\ r[i + 1] \in Objects
      BY <1>1, <2>1 DEF ToSet
    <3>2. passed'[q'.ready[i]] = passed[r[i + 1]] + 1 /\ passed[r[i + 1]] \in Nat
      BY <1>1, <1>3, <1>6, <1>7, <2>1, <3>1
    <3>3. passed[r[i + 1]] + (i + 1) <= n
      BY <3>1 DEF TurnsLeft, r, n
    <3> QED BY <1>1, <3>2, <3>3
  <2>2. CASE i \notin 1..(Len(r) - 1)
    <3>1. i = Len(r) /\ q'.ready[i] = o
      BY <1>6, <1>7, <2>2
    <3>2. passed'[o] = 0
      BY <1>3, <1>5
    <3> QED BY <1>1, <1>4, <3>1, <3>2
  <2> QED BY <2>1, <2>2
<1>9. ASSUME NEW x \in Objects \ ToSet(q'.ready) PROVE passed'[x] = 0
  <2>1. SUFFICES ASSUME x # o, x \in ToSet(r) PROVE FALSE
    BY <1>3
  <2>2. PICK j \in 1..Len(r) : r[j] = x
    BY <1>1, <2>1 DEF ToSet
  <2>3. j # 1
    BY <1>5, <2>1, <2>2
  <2>4. j - 1 \in 1..(Len(r) - 1) /\ j - 1 \in 1..Len(q'.ready)
    BY <1>6, <1>7, <2>3
  <2>5. q'.ready[j - 1] = x
    BY <1>7, <2>2, <2>4
  <2> QED BY <1>4, <2>4, <2>5 DEF ToSet
<1> QED BY <1>8, <1>9 DEF TurnsLeft, n

\* Every step keeps the turns that are left.
LEMMA NextTurns ==
  ASSUME IndInv, IndInv', TurnsLeft, [Next]_vars
  PROVE  TurnsLeft'
<1>1. TypeOK /\ QueuesAgree /\ TypeOK' /\ QueuesAgree'
  BY DEF IndInv
<1>2. CASE passed' = passed /\ q'.ready = q.ready
  BY <1>1, <1>2, OrderGrows
<1>3. ASSUME NEW o \in Objects, NEW f, Accept(o, f), passed' = passed PROVE TurnsLeft'
  <2>1. q'.ready = IF o \in DOMAIN q.data THEN q.ready ELSE Append(q.ready, o)
    BY <1>1, <1>3 DEF Accept, PushData, TypeOK, QueuesTyped
  <2>2. q'.ready = q.ready \/ \E p \in Objects \ ToSet(q.ready) : q'.ready = Append(q.ready, p)
    BY <1>1, <2>1 DEF QueuesAgree, ReadyMatchesData
  <2> QED BY <1>1, <1>3, <2>2, OrderGrows
<1>4. ASSUME NEW f, q' = PushControl(q, f), passed' = passed PROVE TurnsLeft'
  BY <1>1, <1>2, <1>4 DEF PushControl, TypeOK, QueuesTyped
<1>5. ASSUME NEW r \in Requests, ControlStart(r) \/ ControlResume(r) \/ ControlAbort(r)
      PROVE  TurnsLeft'
  BY <1>2, <1>4, <1>5 DEF ControlStart, ControlResume, ControlAbort, ControlTurn
<1>6. CASE TryControl
  BY <1>4, <1>6 DEF TryControl
<1>7. ASSUME NEW o \in Objects, NEW len, DataTurn(o, len) PROVE TurnsLeft'
  BY <1>2, <1>3, <1>7 DEF DataTurn
<1>8. ASSUME NEW o \in Objects, NEW text \in Lengths, TryData(o, text) \/ DataStart(o, text)
      PROVE  TurnsLeft'
  <2>1. CASE TryData(o, text)
    BY <1>2, <1>3, <2>1 DEF TryData
  <2>2. CASE DataStart(o, text)
    BY <1>2, <1>7, <2>2 DEF DataStart
  <2> QED BY <1>8, <2>1, <2>2
<1>9. ASSUME NEW o \in Objects, DataResume(o) PROVE TurnsLeft'
  BY <1>7, <1>9 DEF DataResume
<1>10. ASSUME NEW o \in Objects, RemoveRequestOf(o) \/ RemoveObjectOf(o) PROVE TurnsLeft'
  <2>1. ForgetRemoved
    BY <1>10 DEF RemoveRequestOf, RemoveObjectOf
  <2>2. q'.ready = q.ready \/ q'.ready = RemoveFirst(q.ready, o)
    BY <1>1, <1>10 DEF RemoveRequestOf, RemoveObjectOf, RemoveRequest, RemoveObject, TypeOK, QueuesTyped
  <2> QED BY <1>1, <2>1, <2>2, OrderShrinks
<1>11. CASE TakeControl
  BY <1>1, <1>2, <1>11 DEF TakeControl, PopControl, TypeOK, QueuesTyped
<1>12. CASE TakeData
  BY <1>1, <1>12, OrderTurns
<1>13. CASE WriterWait \/ WriterFinish \/ Write \/ WriteFail \/ Close \/ WriterAbort \/ UNCHANGED vars
  BY <1>2, <1>13 DEF WriterWait, WriterFinish, Write, WriteFail, Close, WriterAbort, vars
<1> QED BY <1>5, <1>6, <1>8, <1>9, <1>10, <1>11, <1>12, <1>13 DEF Next, WriterPoll

\* An object that has output is passed by fewer frames than there are
\* objects before its own: the queue of names never lets one overtake twice.
THEOREM TurnsComeRound == Spec => []RoundRobinBound
<1>1. Init => TurnsLeft
  BY DEF Init, EmptyQueues, TurnsLeft
<1>2. IndInv /\ IndInv' /\ TurnsLeft /\ [Next]_vars => TurnsLeft'
  BY NextTurns
<1>3. IndInv /\ TurnsLeft => RoundRobinBound
  <2> SUFFICES ASSUME IndInv, TurnsLeft, NEW o \in Objects PROVE passed[o] < Cardinality(Objects)
    BY DEF RoundRobinBound
  <2>1. q.ready \in Seq(Objects) /\ passed[o] \in Nat
    BY DEF IndInv, TypeOK, QueuesTyped, TasksTyped
  <2>2. Cardinality(Objects) \in Nat /\ Cardinality(Objects) # 0
    BY OutboxAssumption, FS_CardinalityType, FS_EmptySet DEF OutboxAssumption
  <2>3. CASE o \in ToSet(q.ready)
    <3>1. PICK i \in 1..Len(q.ready) : q.ready[i] = o
      BY <2>1, <2>3 DEF ToSet
    <3>2. passed[o] + i <= Cardinality(Objects)
      BY <3>1 DEF TurnsLeft
    <3> QED BY <2>1, <2>2, <3>2
  <2>4. CASE o \notin ToSet(q.ready)
    BY <2>2, <2>4 DEF TurnsLeft
  <2> QED BY <2>3, <2>4
<1> QED BY <1>1, <1>2, <1>3, InductiveInvariant, PTL DEF Spec

-----------------------------------------------------------------------------
(* The outbox implements the channel.                                      *)

\* The channel's variables as functions of the outbox.
DataOf(x) == [o \in Objects |-> FramesOf(x, o)]
OutOf(w) == IF w.pc = "writing" THEN w.frame ELSE NoFrame

\* Each method changes the queue of one object only.
LEMMA FramesAfter ==
  ASSUME NEW x, QueuesTyped(x), ReadyMatchesData(x), NEW o \in Objects
  PROVE  /\ \A f \in Frame :
              DataOf(PushData(x, o, f)) = [DataOf(x) EXCEPT ![o] = Append(@, f)]
         /\ DataOf(RemoveObject(x, o)) = [DataOf(x) EXCEPT ![o] = <<>>]
         /\ \A id : \/ DataOf(RemoveRequest(x, o, id)) = DataOf(x)
                    \/ \E i \in DOMAIN DataOf(x)[o] :
                         DataOf(RemoveRequest(x, o, id)) = [DataOf(x) EXCEPT ![o] = RemoveAt(@, i)]
<1>1. ASSUME NEW f \in Frame
      PROVE  DataOf(PushData(x, o, f)) = [DataOf(x) EXCEPT ![o] = Append(@, f)]
  <2>1. PushData(x, o, f).data = Put(x.data, o, Append(FramesOf(x, o), f))
    BY DEF PushData, QueuesTyped
  <2> QED BY <2>1 DEF DataOf, FramesOf, Put
<1>2. DataOf(RemoveObject(x, o)) = [DataOf(x) EXCEPT ![o] = <<>>]
  <2>1. RemoveObject(x, o).data = Without(x.data, o)
    BY DEF RemoveObject, QueuesTyped
  <2> QED BY <2>1 DEF DataOf, FramesOf, Without
<1>3. ASSUME NEW id
      PROVE  \/ DataOf(RemoveRequest(x, o, id)) = DataOf(x)
             \/ \E i \in DOMAIN DataOf(x)[o] :
                  DataOf(RemoveRequest(x, o, id)) = [DataOf(x) EXCEPT ![o] = RemoveAt(@, i)]
  <2>1. CASE o \notin DOMAIN x.data
    BY <2>1 DEF RemoveRequest
  <2>2. CASE o \in DOMAIN x.data
    <3> DEFINE left == WithoutId(x.data[o], id)
    <3>1. x.data[o] \in Seq(Frame) /\ DataOf(x)[o] = x.data[o]
      BY <2>2 DEF QueuesTyped, DataOf, FramesOf
    <3>2. RemoveRequest(x, o, id).data =
            IF left = <<>> THEN Without(x.data, o) ELSE Put(x.data, o, left)
      BY <2>2 DEF RemoveRequest, QueuesTyped
    <3>3. left = x.data[o] \/ \E i \in 1..Len(x.data[o]) : left = RemoveAt(x.data[o], i)
      BY <3>1, WithoutIdIsRemoval
    <3> HIDE DEF left
    <3>4. DataOf(RemoveRequest(x, o, id)) = [DataOf(x) EXCEPT ![o] = left]
      BY <2>2, <3>2 DEF DataOf, FramesOf, Without, Put
    <3>5. CASE left = x.data[o]
      BY <3>1, <3>4, <3>5 DEF DataOf
    <3>6. ASSUME NEW i \in 1..Len(x.data[o]), left = RemoveAt(x.data[o], i)
          PROVE  \E j \in DOMAIN DataOf(x)[o] :
                   DataOf(RemoveRequest(x, o, id)) = [DataOf(x) EXCEPT ![o] = RemoveAt(@, j)]
      <4>1. i \in DOMAIN DataOf(x)[o]
        BY <3>1
      <4> QED BY <3>1, <3>4, <3>6, <4>1
    <3> QED BY <3>3, <3>5, <3>6
  <2> QED BY <2>1, <2>2
<1> QED BY <1>1, <1>2, <1>3

\* The data branch of next() takes the first frame of the object it serves.
LEMMA FramesAfterPop ==
  ASSUME NEW x, QueuesTyped(x), ReadyMatchesData(x), x.ready # <<>>
  PROVE  LET o == Head(x.ready)
         IN  /\ o \in Objects /\ DataOf(x)[o] # <<>> /\ DataOf(x)[o] = x.data[o]
             /\ DataOf(PopData(x)) = [DataOf(x) EXCEPT ![o] = Tail(@)]
<1> DEFINE o == Head(x.ready)
           left == Tail(x.data[o])
<1>1. o \in Objects /\ o \in DOMAIN x.data /\ x.data[o] # <<>>
  BY PopDataOK DEF HeadIsServable
<1>2. PopData(x).data = IF left = <<>> THEN Without(x.data, o) ELSE Put(x.data, o, left)
  BY DEF PopData, QueuesTyped
<1> HIDE DEF o
<1>3. DataOf(x)[o] = x.data[o]
  BY <1>1 DEF DataOf, FramesOf
<1>4. DataOf(PopData(x)) = [DataOf(x) EXCEPT ![o] = left]
  BY <1>1, <1>2 DEF DataOf, FramesOf, Without, Put
<1> QED BY <1>1, <1>3, <1>4 DEF o

\* The mapping of the variables, as the instance writes it.
LEMMA ChannelSteps ==
  /\ Channel!Init <=> /\ q.control = <<>>
                      /\ DataOf(q) = [o \in Objects |-> <<>>]
                      /\ OutOf(writer) = NoFrame
  /\ Channel!SendControl <=>
       \E f \in ControlFrame : /\ q'.control = Append(q.control, f)
                               /\ DataOf(q') = DataOf(q) /\ OutOf(writer') = OutOf(writer)
  /\ \A o : Channel!SendData(o) <=>
       \E f \in Frame : /\ DataOf(q') = [DataOf(q) EXCEPT ![o] = Append(@, f)]
                        /\ q'.control = q.control /\ OutOf(writer') = OutOf(writer)
  /\ \A o : Channel!Withdraw(o) <=>
       \E i \in DOMAIN DataOf(q)[o] :
         /\ DataOf(q') = [DataOf(q) EXCEPT ![o] = RemoveAt(@, i)]
         /\ q'.control = q.control /\ OutOf(writer') = OutOf(writer)
  /\ \A o : Channel!Discard(o) <=>
       /\ DataOf(q') = [DataOf(q) EXCEPT ![o] = <<>>]
       /\ q'.control = q.control /\ OutOf(writer') = OutOf(writer)
  /\ Channel!HandControl <=>
       /\ OutOf(writer) = NoFrame /\ q.control # <<>>
       /\ OutOf(writer') = Head(q.control) /\ q'.control = Tail(q.control)
       /\ DataOf(q') = DataOf(q)
  /\ \A o : Channel!HandData(o) <=>
       /\ OutOf(writer) = NoFrame /\ DataOf(q)[o] # <<>>
       /\ OutOf(writer') = Head(DataOf(q)[o])
       /\ DataOf(q') = [DataOf(q) EXCEPT ![o] = Tail(@)]
       /\ q'.control = q.control
  /\ Channel!Done <=>
       /\ OutOf(writer') = NoFrame
       /\ q'.control = q.control /\ DataOf(q') = DataOf(q)
  /\ UNCHANGED Channel!chan <=>
       /\ q'.control = q.control /\ DataOf(q') = DataOf(q)
       /\ OutOf(writer') = OutOf(writer)
<1>1. Channel!Init <=> /\ q.control = <<>>
                      /\ DataOf(q) = [o \in Objects |-> <<>>]
                      /\ OutOf(writer) = NoFrame
  BY DEF Channel!Init, DataOf, OutOf
<1>2. Channel!SendControl <=>
       \E f \in ControlFrame : /\ q'.control = Append(q.control, f)
                               /\ DataOf(q') = DataOf(q) /\ OutOf(writer') = OutOf(writer)
  BY DEF Channel!SendControl, DataOf, OutOf
<1>3. \A o : Channel!SendData(o) <=>
       \E f \in Frame : /\ DataOf(q') = [DataOf(q) EXCEPT ![o] = Append(@, f)]
                        /\ q'.control = q.control /\ OutOf(writer') = OutOf(writer)
  BY DEF Channel!SendData, DataOf, OutOf
<1>4. \A o : Channel!Withdraw(o) <=>
       \E i \in DOMAIN DataOf(q)[o] :
         /\ DataOf(q') = [DataOf(q) EXCEPT ![o] = RemoveAt(@, i)]
         /\ q'.control = q.control /\ OutOf(writer') = OutOf(writer)
  BY DEF Channel!Withdraw, DataOf, OutOf, RemoveAt, Channel!RemoveAt
<1>5. \A o : Channel!Discard(o) <=>
       /\ DataOf(q') = [DataOf(q) EXCEPT ![o] = <<>>]
       /\ q'.control = q.control /\ OutOf(writer') = OutOf(writer)
  BY DEF Channel!Discard, DataOf, OutOf
<1>6. Channel!HandControl <=>
       /\ OutOf(writer) = NoFrame /\ q.control # <<>>
       /\ OutOf(writer') = Head(q.control) /\ q'.control = Tail(q.control)
       /\ DataOf(q') = DataOf(q)
  BY DEF Channel!HandControl, DataOf, OutOf
<1>7. \A o : Channel!HandData(o) <=>
       /\ OutOf(writer) = NoFrame /\ DataOf(q)[o] # <<>>
       /\ OutOf(writer') = Head(DataOf(q)[o])
       /\ DataOf(q') = [DataOf(q) EXCEPT ![o] = Tail(@)]
       /\ q'.control = q.control
  BY DEF Channel!HandData, DataOf, OutOf
<1>8. Channel!Done <=>
       /\ OutOf(writer') = NoFrame
       /\ q'.control = q.control /\ DataOf(q') = DataOf(q)
  BY DEF Channel!Done, DataOf, OutOf
<1>9. UNCHANGED Channel!chan <=>
       /\ q'.control = q.control /\ DataOf(q') = DataOf(q)
       /\ OutOf(writer') = OutOf(writer)
  BY DEF Channel!chan, DataOf, OutOf
<1> QED BY <1>1, <1>2, <1>3, <1>4, <1>5, <1>6, <1>7, <1>8, <1>9

\* The channel stutters when the queues and the frame handed out stay.
LEMMA StutterOK ==
  ASSUME q'.control = q.control, q'.data = q.data, OutOf(writer') = OutOf(writer)
  PROVE  UNCHANGED Channel!chan
BY ChannelSteps DEF DataOf, FramesOf

\* notify_one() hands nothing out.
LEMMA NotifyKeepsOut ==
  ASSUME NotifyChanged
  PROVE  OutOf(writer') = OutOf(writer)
BY DEF NotifyChanged, OutOf, WriterAt, NoFrame

\* A control frame that is queued is sent through the channel.
LEMMA PushControlImplements ==
  ASSUME QueuesTyped(q), NEW f \in ControlFrame, q' = PushControl(q, f), NotifyChanged
  PROVE  Channel!SendControl
<1>1. q'.control = Append(q.control, f) /\ q'.data = q.data
  BY DEF PushControl, QueuesTyped
<1>2. DataOf(q') = DataOf(q) /\ OutOf(writer') = OutOf(writer)
  BY <1>1, NotifyKeepsOut DEF DataOf, FramesOf
<1> QED BY <1>1, <1>2, ChannelSteps

\* So is an accepted data frame.
LEMMA AcceptImplements ==
  ASSUME QueuesTyped(q), ReadyMatchesData(q), NEW o \in Objects, NEW f \in Frame, Accept(o, f)
  PROVE  Channel!SendData(o)
<1>1. DataOf(q') = [DataOf(q) EXCEPT ![o] = Append(@, f)]
  BY FramesAfter DEF Accept
<1>2. q'.control = q.control
  BY DEF Accept, PushData, QueuesTyped
<1>3. OutOf(writer') = OutOf(writer)
  BY NotifyKeepsOut DEF Accept
<1> QED BY <1>1, <1>2, <1>3, ChannelSteps

\* Every step of the outbox is a step of the channel, or none.
LEMMA NextImplements ==
  ASSUME IndInv, [Next]_vars
  PROVE  [Channel!Next]_Channel!chan
<1>1. TasksTyped /\ QueuesTyped(q) /\ ReadyMatchesData(q)
  BY DEF IndInv, TypeOK, QueuesAgree
<1>2. CASE UNCHANGED <<q, writer>>
  BY <1>2, StutterOK
<1>3. ASSUME NEW f \in ControlFrame, q' = PushControl(q, f), NotifyChanged
      PROVE  Channel!Next
  BY <1>1, <1>3, PushControlImplements DEF Channel!Next
<1>4. ASSUME NEW o \in Objects, NEW len \in FrameLens, NEW id \in Objects \cup {NoId},
             Accept(o, [len |-> len, req |-> id])
      PROVE  Channel!Next
  <2>1. [len |-> len, req |-> id] \in Frame
    BY DEF Frame
  <2> QED BY <1>1, <1>4, <2>1, AcceptImplements DEF Channel!Next
<1>5. ASSUME NEW r \in Requests, NEW body \in {"reply", "RESPONSE_TOO_LARGE"}, ControlTurn(r, body)
      PROVE  [Channel!Next]_Channel!chan
  <2>1. [from |-> r, body |-> body] \in ControlFrame
    BY DEF ControlFrame
  <2> QED BY <1>2, <1>3, <1>5, <2>1 DEF ControlTurn
<1>6. ASSUME NEW o \in Objects, NEW len \in FrameLens, DataTurn(o, len)
      PROVE  [Channel!Next]_Channel!chan
  BY <1>2, <1>4, <1>6 DEF DataTurn
<1>7. ASSUME NEW r \in Requests, ControlStart(r) \/ ControlResume(r) \/ ControlAbort(r)
      PROVE  [Channel!Next]_Channel!chan
  <2>1. handler[r].body \in {"reply", "RESPONSE_TOO_LARGE"}
    BY <1>1 DEF TasksTyped
  <2>2. \A text \in Lengths : ControlBody(text) \in {"reply", "RESPONSE_TOO_LARGE"}
    BY DEF ControlBody
  <2> QED BY <1>2, <1>5, <1>7, <2>1, <2>2 DEF ControlStart, ControlResume, ControlAbort
<1>8. CASE TryControl
  <2>1. [from |-> Notice, body |-> "reply"] \in ControlFrame
    BY DEF ControlFrame
  <2> QED BY <1>3, <1>8, <2>1 DEF TryControl
<1>9. ASSUME NEW o \in Objects, NEW text \in Lengths, TryData(o, text) \/ DataStart(o, text)
      PROVE  [Channel!Next]_Channel!chan
  <2>1. FrameLen(text) \in FrameLens
    BY DEF FrameLens
  <2>2. CASE TryData(o, text)
    BY <1>2, <1>4, <2>1, <2>2 DEF TryData
  <2>3. CASE DataStart(o, text)
    BY <1>2, <1>6, <2>1, <2>3 DEF DataStart
  <2> QED BY <1>9, <2>2, <2>3
<1>10. ASSUME NEW o \in Objects, DataResume(o) PROVE [Channel!Next]_Channel!chan
  <2>1. guest[o].len \in FrameLens
    BY <1>1, <1>10 DEF TasksTyped, DataResume, Runnable
  <2> QED BY <1>6, <1>10, <2>1 DEF DataResume
<1>11. ASSUME NEW o \in Objects, RemoveRequestOf(o) PROVE [Channel!Next]_Channel!chan
  <2>1. q' = RemoveRequest(q, o, o) /\ q'.control = q.control /\ writer' = writer
    BY <1>1, <1>11 DEF RemoveRequestOf, RemoveRequest, QueuesTyped
  <2>2. \/ DataOf(q') = DataOf(q)
        \/ \E i \in DOMAIN DataOf(q)[o] : DataOf(q') = [DataOf(q) EXCEPT ![o] = RemoveAt(@, i)]
    BY <1>1, <2>1, FramesAfter
  <2>3. UNCHANGED Channel!chan \/ Channel!Withdraw(o)
    BY <2>1, <2>2, ChannelSteps
  <2> QED BY <2>3 DEF Channel!Next
<1>12. ASSUME NEW o \in Objects, RemoveObjectOf(o) PROVE [Channel!Next]_Channel!chan
  <2>1. q' = RemoveObject(q, o) /\ q'.control = q.control /\ writer' = writer
    BY <1>1, <1>12 DEF RemoveObjectOf, RemoveObject, QueuesTyped
  <2>2. DataOf(q') = [DataOf(q) EXCEPT ![o] = <<>>]
    BY <1>1, <2>1, FramesAfter
  <2>3. Channel!Discard(o)
    BY <2>1, <2>2, ChannelSteps
  <2> QED BY <2>3 DEF Channel!Next
<1>13. CASE TakeControl
  <2>1. q'.control = Tail(q.control) /\ q'.data = q.data /\ q.control # <<>>
    BY <1>1, <1>13 DEF TakeControl, PopControl, TakesControl, QueuesTyped
  <2>2. OutOf(writer) = NoFrame /\ OutOf(writer') = Head(q.control)
    BY <1>13 DEF TakeControl, WriterScans, OutOf, Writing
  <2>3. Channel!HandControl
    BY <2>1, <2>2, ChannelSteps DEF DataOf, FramesOf
  <2> QED BY <2>3 DEF Channel!Next
<1>14. CASE TakeData
  <2> DEFINE o == Head(q.ready)
  <2>1. q.ready # <<>> /\ q' = PopData(q)
    BY <1>14 DEF TakeData, TakesData
  <2>2. q'.control = q.control
    BY <1>1, <2>1 DEF PopData, QueuesTyped
  <2>3. /\ o \in Objects /\ DataOf(q)[o] # <<>> /\ DataOf(q)[o] = q.data[o]
        /\ DataOf(q') = [DataOf(q) EXCEPT ![o] = Tail(@)]
    BY <1>1, <2>1, FramesAfterPop
  <2>4. OutOf(writer) = NoFrame /\ OutOf(writer') = Head(q.data[o])
    BY <1>14 DEF TakeData, WriterScans, OutOf, Writing
  <2> HIDE DEF o
  <2>5. Channel!HandData(o)
    BY <2>2, <2>3, <2>4, ChannelSteps
  <2> QED BY <2>3, <2>5 DEF Channel!Next
<1>15. CASE Write \/ WriteFail \/ WriterAbort \/ WriterWait \/ WriterFinish
  <2>1. q' = q /\ OutOf(writer') = NoFrame
    BY <1>15 DEF Write, WriteFail, WriterAbort, WriterWait, WriterFinish, OutOf, WriterAt, NoFrame
  <2>2. Channel!Done
    BY <2>1, ChannelSteps
  <2> QED BY <2>2 DEF Channel!Next
<1>16. CASE Close \/ UNCHANGED vars
  BY <1>2, <1>16 DEF Close, vars
<1> QED BY <1>7, <1>8, <1>9, <1>10, <1>11, <1>12, <1>13, <1>14, <1>15, <1>16 DEF Next, WriterPoll

\* The outbox implements the channel for any limits, objects and frame
\* lengths: first in first out per queue, every frame handed out once, and
\* nothing lost that the code did not ask to remove.
THEOREM OutboxImplementsChannel == Spec => ImplementsChannel
<1>1. Init => Channel!Init
  <2> SUFFICES ASSUME Init PROVE Channel!Init
    OBVIOUS
  <2>1. q.control = <<>> /\ DOMAIN q.data = {} /\ writer.pc = "start"
    BY DEF Init, EmptyQueues, WriterAt, NoFrame
  <2>2. DataOf(q) = [o \in Objects |-> <<>>] /\ OutOf(writer) = NoFrame
    BY <2>1 DEF DataOf, FramesOf, OutOf
  <2> QED BY <2>1, <2>2, ChannelSteps
<1>2. IndInv /\ [Next]_vars => [Channel!Next]_Channel!chan
  BY NextImplements
<1> QED BY <1>1, <1>2, InductiveInvariant, PTL DEF Spec, ImplementsChannel, Channel!Spec
=============================================================================
