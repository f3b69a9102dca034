-------------------------- MODULE HostCallsProofs ---------------------------
(***************************************************************************)
(* Proofs about HostCalls, for every value of its constants.               *)
(*                                                                         *)
(* The first half says what each method of the outbox does to the frames   *)
(* of one object and to the control queue; the second half carries the     *)
(* life of a serial number through the actions.  A serial number is        *)
(* unused, then belongs to the one call that drew it, then is dead; the    *)
(* table, the queues and the histories know of it only as far as its age   *)
(* allows.                                                                 *)
(***************************************************************************)
EXTENDS HostCalls, SequenceLemmas

DataFrame == [len : {1}, req : 0..MAX_SERIAL]
ControlFrame == {CancelFrame(id) : id \in Ids} \cup {OtherFrame}

\* The shape of the queues.
Shaped(x) ==
  /\ DOMAIN x = {"control", "data", "ready", "bytes", "burst"}
  /\ x.control \in Seq(ControlFrame)
  /\ DOMAIN x.data \subseteq Objects
  /\ x.data \in [DOMAIN x.data -> Seq(DataFrame)]
  /\ x.ready \in Seq(Objects)
  /\ ReadyMatchesData(x)

-----------------------------------------------------------------------------
(* The invariant.                                                          *)

\* A call has a serial number of its own, and an ended object has no call.
CallsAreDistinct ==
  /\ \A o \in Objects : \/ call[o] = NoCall
                        \/ call[o].id \in 1..next /\ call[o].pc \in {"sending", "sent"}
  /\ \A o, p \in Objects : call[o].id = call[p].id /\ call[o].id # 0 => o = p
  /\ \A o \in ended : call[o] = NoCall

\* The table routes the calls without an answer, each to its object.
RoutedExactly ==
  /\ \A id \in DOMAIN pending : call[pending[id]].id = id /\ call[pending[id]].rx = "empty"
  /\ \A o \in Objects : call[o].id # 0 /\ call[o].rx = "empty" => call[o].id \in DOMAIN pending

\* The histories of a serial number: none before it is drawn, no outcome
\* during its call, no reply while it is routed.
HistoriesFit ==
  /\ \A id \in Ids : id > next \/ id \in DOMAIN pending => reply[id] = "none"
  /\ \A id \in Ids : id > next => outcome[id] = "none"
  /\ \A o \in Objects : call[o].id # 0 => outcome[call[o].id] = "none"
  /\ \A o \in Objects : call[o].rx # "empty" => reply[call[o].id] = call[o].rx
  /\ \A o \in Objects : call[o].pc = "sending" => call[o].id \notin written
  /\ written \subseteq 1..next

Clean(s) == \A i \in 1..Len(s) : s[i].req = 0

\* s may wait while the guest is in call c: it holds the request of c once,
\* if that was sent, and no other request.
FramesFit(s, c) ==
  /\ \A i \in 1..Len(s) : s[i].req # 0 => s[i].req = c.id /\ c.pc = "sent"
  /\ \A i, j \in 1..Len(s) : s[i].req # 0 /\ s[j].req # 0 => i = j

QueuesFit ==
  /\ Shaped(q)
  /\ \A o \in Objects : FramesFit(FramesOf(q, o), call[o])
  /\ \A o \in ended : FramesOf(q, o) = <<>>

\* The calls that were given up without an answer.
Dead == {id \in 1..next : /\ reply[id] = "none" /\ outcome[id] \in {"TIMEOUT", "dropped"}
                          /\ \A o \in Objects : call[o].id # id}

\* The call of o, if it waits for an answer that has not come: the embedder
\* is told when it ends.
Waiting(o) == {id \in DOMAIN pending : id = call[o].id /\ call[o].pc = "sent"}

\* The cancellations in s are for ids of D, each once.
CancelsFor(s, D) ==
  /\ \A i \in 1..Len(s) : s[i] # OtherFrame => s[i].id \in D
  /\ \A i, j \in 1..Len(s) : s[i] # OtherFrame /\ s[i] = s[j] => i = j

CancelsFit ==
  /\ CancelsFor(q.control, Dead \ cancelled)
  /\ cancelled \subseteq Dead

IndInv ==
  /\ TypeOK
  /\ CallsAreDistinct
  /\ RoutedExactly
  /\ HistoriesFit
  /\ ReplyReachesItsCall
  /\ QueuesFit
  /\ CancelsFit

-----------------------------------------------------------------------------
(* What the methods of the outbox do to the frames of one object.          *)

\* y differs from x, as far as data frames go, in the frames of o only.
Replaces(x, y, o, s) ==
  /\ FramesOf(y, o) = s
  /\ \A p \in Objects : p # o => FramesOf(y, p) = FramesOf(x, p)

\* The frames of an object are a sequence, empty when the map has no entry.
LEMMA FramesShape ==
  ASSUME NEW x, Shaped(x), NEW o
  PROVE  /\ FramesOf(x, o) \in Seq(DataFrame)
         /\ o \in DOMAIN x.data <=> FramesOf(x, o) # <<>>
         /\ o \in DOMAIN x.data <=> o \in ToSet(x.ready)
BY DEF Shaped, FramesOf, ReadyMatchesData

\* A value with the queue of o replaced, or taken out of the map when nothing
\* is left, has the shape again.
LEMMA ReplaceOK ==
  ASSUME NEW x, Shaped(x), NEW o \in Objects, NEW s \in Seq(DataFrame), NEW y,
         DOMAIN y = DOMAIN x, y.control \in Seq(ControlFrame),
         y.data = (IF s = <<>> THEN Without(x.data, o) ELSE Put(x.data, o, s)),
         y.ready \in Seq(Objects), IsInjective(y.ready),
         ToSet(y.ready) = (IF s = <<>> THEN ToSet(x.ready) \ {o} ELSE ToSet(x.ready) \cup {o})
  PROVE  Shaped(y) /\ Replaces(x, y, o, s)
<1>1. /\ x.data \in [DOMAIN x.data -> Seq(DataFrame)]
      /\ \A p \in DOMAIN x.data : x.data[p] # <<>>
      /\ ToSet(x.ready) = DOMAIN x.data
      /\ DOMAIN x.data \subseteq Objects
      /\ DOMAIN y = {"control", "data", "ready", "bytes", "burst"}
  BY DEF Shaped, ReadyMatchesData
<1>2. CASE s = <<>>
  <2>1. y.data = [p \in DOMAIN x.data \ {o} |-> x.data[p]] /\ ToSet(y.ready) = DOMAIN x.data \ {o}
    BY <1>1, <1>2 DEF Without
  <2>2. /\ DOMAIN y.data = ToSet(y.ready) /\ DOMAIN y.data \subseteq Objects
        /\ y.data \in [DOMAIN y.data -> Seq(DataFrame)]
        /\ \A p \in DOMAIN y.data : y.data[p] # <<>>
    BY <1>1, <2>1
  <2>3. Shaped(y)
    BY <1>1, <2>2 DEF Shaped, ReadyMatchesData
  <2> QED BY <1>2, <2>1, <2>3 DEF Replaces, FramesOf
<1>3. CASE s # <<>>
  <2>1. /\ y.data = [p \in DOMAIN x.data \cup {o} |-> IF p = o THEN s ELSE x.data[p]]
        /\ ToSet(y.ready) = DOMAIN x.data \cup {o}
    BY <1>1, <1>3 DEF Put
  <2>2. /\ DOMAIN y.data = ToSet(y.ready) /\ DOMAIN y.data \subseteq Objects
        /\ y.data \in [DOMAIN y.data -> Seq(DataFrame)]
        /\ \A p \in DOMAIN y.data : y.data[p] # <<>>
    BY <1>1, <1>3, <2>1
  <2>3. Shaped(y)
    BY <1>1, <2>2 DEF Shaped, ReadyMatchesData
  <2> QED BY <2>1, <2>3 DEF Replaces, FramesOf
<1> QED BY <1>2, <1>3

\* push_data() appends a frame.
LEMMA PushDataOK ==
  ASSUME NEW x, Shaped(x), NEW o \in Objects, NEW f \in DataFrame
  PROVE  /\ Shaped(PushData(x, o, f))
         /\ Replaces(x, PushData(x, o, f), o, Append(FramesOf(x, o), f))
         /\ PushData(x, o, f).control = x.control
<1> DEFINE y == PushData(x, o, f)
           s == Append(FramesOf(x, o), f)
<1>1. /\ DOMAIN y = DOMAIN x
      /\ y.control = x.control
      /\ y.data = Put(x.data, o, s)
      /\ y.ready = IF o \in DOMAIN x.data THEN x.ready ELSE Append(x.ready, o)
  BY DEF PushData, Shaped
<1>2. s \in Seq(DataFrame) /\ s # <<>>
  BY FramesShape, AppendProperties
<1>3. x.control \in Seq(ControlFrame) /\ x.ready \in Seq(Objects) /\ IsInjective(x.ready)
  BY DEF Shaped, ReadyMatchesData
<1> HIDE DEF y, s
<1>4. /\ y.ready \in Seq(Objects) /\ IsInjective(y.ready)
      /\ ToSet(y.ready) = ToSet(x.ready) \cup {o}
  <2>1. CASE o \in DOMAIN x.data
    <3>1. o \in ToSet(x.ready) /\ y.ready = x.ready
      BY <1>1, <2>1, FramesShape
    <3> QED BY <1>3, <3>1
  <2>2. CASE o \notin DOMAIN x.data
    <3>1. o \notin ToSet(x.ready) /\ y.ready = Append(x.ready, o)
      BY <1>1, <2>2, FramesShape
    <3> QED BY <1>3, <3>1, AppendFresh
  <2> QED BY <2>1, <2>2
<1>5. y.data = IF s = <<>> THEN Without(x.data, o) ELSE Put(x.data, o, s)
  BY <1>1, <1>2
<1>6. Shaped(y) /\ Replaces(x, y, o, s)
  BY <1>1, <1>2, <1>3, <1>4, <1>5, ReplaceOK
<1> QED BY <1>1, <1>6 DEF y, s

\* Removing the first match leaves a sequence of the same elements.
LEMMA RemoveFirstMatchType ==
  ASSUME NEW S, NEW s \in Seq(S), NEW id
  PROVE  \/ WithoutId(s, id) = s /\ \A i \in 1..Len(s) : s[i].req # id
         \/ \E k \in 1..Len(s) : s[k].req = id /\ WithoutId(s, id) = RemoveAt(s, k)
<1> DEFINE I == {i \in 1..Len(s) : s[i].req = id}
<1>1. CASE I = {}
  BY <1>1 DEF WithoutId, RemoveFirstMatch
<1>2. CASE I # {}
  <2>1. SelectInSeq(s, LAMBDA f : f.req = id) = Min(I)
    BY <1>2 DEF SelectInSeq
  <2>2. Min(I) \in I
    <3>1. I \in SUBSET Nat /\ I # {}
      BY <1>2
    <3> HIDE DEF I
    <3> QED BY <3>1, MinOfNats
  <2>3. WithoutId(s, id) = RemoveAt(s, Min(I))
    BY <1>2, <2>1 DEF WithoutId, RemoveFirstMatch
  <2> QED BY <2>2, <2>3
<1> QED BY <1>1, <1>2

\* remove_request() takes one frame with the id from the queue of o.
LEMMA RemoveRequestOK ==
  ASSUME NEW x, Shaped(x), NEW o \in Objects, NEW id
  PROVE  /\ Shaped(RemoveRequest(x, o, id))
         /\ Replaces(x, RemoveRequest(x, o, id), o, WithoutId(FramesOf(x, o), id))
         /\ RemoveRequest(x, o, id).control = x.control
<1>1. CASE o \notin DOMAIN x.data
  <2>1. FramesOf(x, o) = <<>> /\ RemoveRequest(x, o, id) = x
    BY <1>1 DEF RemoveRequest, FramesOf
  <2>2. WithoutId(<<>>, id) = <<>>
    BY DEF WithoutId, RemoveFirstMatch
  <2> QED BY <2>1, <2>2 DEF Replaces
<1>2. CASE o \in DOMAIN x.data
  <2> DEFINE y == RemoveRequest(x, o, id)
             left == WithoutId(x.data[o], id)
  <2>1. /\ DOMAIN y = DOMAIN x
        /\ y.control = x.control
        /\ y.data = IF left = <<>> THEN Without(x.data, o) ELSE Put(x.data, o, left)
        /\ y.ready = IF left = <<>> THEN RemoveFirst(x.ready, o) ELSE x.ready
    BY <1>2 DEF RemoveRequest, Shaped
  <2>2. FramesOf(x, o) = x.data[o] /\ x.data[o] \in Seq(DataFrame)
    BY <1>2 DEF Shaped, FramesOf
  <2>3. left \in Seq(DataFrame)
    BY <2>2, RemoveFirstMatchType, RemoveAtProperties
  <2>4. x.control \in Seq(ControlFrame) /\ x.ready \in Seq(Objects) /\ IsInjective(x.ready)
    BY DEF Shaped, ReadyMatchesData
  <2>5. o \in ToSet(x.ready)
    BY <1>2, FramesShape
  <2> HIDE DEF y, left
  <2>6. /\ y.ready \in Seq(Objects) /\ IsInjective(y.ready)
        /\ ToSet(y.ready) = IF left = <<>> THEN ToSet(x.ready) \ {o} ELSE ToSet(x.ready) \cup {o}
    <3>1. CASE left = <<>>
      <4>1. y.ready = RemoveFirst(x.ready, o)
        BY <2>1, <3>1
      <4> QED BY <2>4, <3>1, <4>1, RemoveFirstInjective
    <3>2. CASE left # <<>>
      BY <2>1, <2>4, <2>5, <3>2
    <3> QED BY <3>1, <3>2
  <2>7. Shaped(y) /\ Replaces(x, y, o, left)
    BY <2>1, <2>3, <2>4, <2>6, ReplaceOK
  <2> QED BY <2>1, <2>2, <2>7 DEF y, left
<1> QED BY <1>1, <1>2

\* remove_object() leaves no frame of o.
LEMMA RemoveObjectOK ==
  ASSUME NEW x, Shaped(x), NEW o \in Objects
  PROVE  /\ Shaped(RemoveObject(x, o))
         /\ Replaces(x, RemoveObject(x, o), o, <<>>)
         /\ RemoveObject(x, o).control = x.control
<1> DEFINE y == RemoveObject(x, o)
<1>1. /\ DOMAIN y = DOMAIN x
      /\ y.control = x.control
      /\ y.data = Without(x.data, o)
      /\ y.ready = RemoveFirst(x.ready, o)
  BY DEF RemoveObject, Shaped
<1>2. x.control \in Seq(ControlFrame) /\ x.ready \in Seq(Objects) /\ IsInjective(x.ready)
  BY DEF Shaped, ReadyMatchesData
<1> HIDE DEF y
<1>3. /\ y.ready \in Seq(Objects) /\ IsInjective(y.ready)
      /\ ToSet(y.ready) = ToSet(x.ready) \ {o}
  BY <1>1, <1>2, RemoveFirstInjective
<1>4. \A s : s = <<>> => /\ s \in Seq(DataFrame)
                       /\ y.data = (IF s = <<>> THEN Without(x.data, o) ELSE Put(x.data, o, s))
                       /\ ToSet(y.ready) = (IF s = <<>> THEN ToSet(x.ready) \ {o}
                                                       ELSE ToSet(x.ready) \cup {o})
  BY <1>1, <1>3
<1>5. \A s : s = <<>> => Shaped(y) /\ Replaces(x, y, o, s)
  BY <1>1, <1>2, <1>3, <1>4, ReplaceOK
<1> QED BY <1>1, <1>5 DEF y

\* The writer takes the first frame of the object at the head of "ready".
LEMMA PopDataOK ==
  ASSUME NEW x, Shaped(x), x.ready # <<>>
  PROVE  /\ Head(x.ready) \in Objects
         /\ x.data[Head(x.ready)] = FramesOf(x, Head(x.ready))
         /\ FramesOf(x, Head(x.ready)) # <<>>
         /\ Shaped(PopData(x))
         /\ Replaces(x, PopData(x), Head(x.ready), Tail(FramesOf(x, Head(x.ready))))
         /\ PopData(x).control = x.control
<1> DEFINE y == PopData(x)
           o == Head(x.ready)
           left == Tail(x.data[o])
<1>1. /\ x.ready \in Seq(Objects) /\ IsInjective(x.ready)
      /\ ToSet(x.ready) = DOMAIN x.data
      /\ x.control \in Seq(ControlFrame)
      /\ x.data \in [DOMAIN x.data -> Seq(DataFrame)]
      /\ \A p \in DOMAIN x.data : x.data[p] # <<>>
  BY DEF Shaped, ReadyMatchesData
<1>2. o \in ToSet(x.ready) /\ o \in Objects
  BY <1>1 DEF ToSet
<1>3. /\ o \in DOMAIN x.data /\ x.data[o] \in Seq(DataFrame) /\ x.data[o] # <<>>
      /\ x.data[o] = FramesOf(x, o)
  BY <1>1, <1>2 DEF FramesOf
<1>4. left \in Seq(DataFrame)
  BY <1>3
<1>5. /\ DOMAIN y = DOMAIN x
      /\ y.control = x.control
      /\ y.data = IF left = <<>> THEN Without(x.data, o) ELSE Put(x.data, o, left)
      /\ y.ready = IF left = <<>> THEN Tail(x.ready) ELSE Append(Tail(x.ready), o)
  BY DEF PopData, Shaped
<1> HIDE DEF y, left
<1>6. /\ y.ready \in Seq(Objects) /\ IsInjective(y.ready)
      /\ ToSet(y.ready) = IF left = <<>> THEN ToSet(x.ready) \ {o} ELSE ToSet(x.ready) \cup {o}
  <2>1. CASE left = <<>>
    BY <1>1, <1>5, <2>1, RotateInjective
  <2>2. CASE left # <<>>
    <3>1. y.ready = Append(Tail(x.ready), o)
      BY <1>5, <2>2
    <3> QED BY <1>1, <1>2, <2>2, <3>1, RotateInjective
  <2> QED BY <2>1, <2>2
<1>7. Shaped(y) /\ Replaces(x, y, o, left)
  BY <1>1, <1>2, <1>4, <1>5, <1>6, ReplaceOK
<1> QED BY <1>2, <1>3, <1>5, <1>7 DEF y, left

\* A control frame changes no data.
LEMMA PushControlOK ==
  ASSUME NEW x, Shaped(x), NEW f \in ControlFrame
  PROVE  /\ Shaped(PushControl(x, f))
         /\ \A o : FramesOf(PushControl(x, f), o) = FramesOf(x, o)
         /\ PushControl(x, f).control = Append(x.control, f)
BY DEF PushControl, Shaped, ReadyMatchesData, FramesOf

\* Nor does the writer when it takes one.
LEMMA PopControlOK ==
  ASSUME NEW x, Shaped(x), x.control # <<>>
  PROVE  /\ Shaped(PopControl(x))
         /\ \A o : FramesOf(PopControl(x), o) = FramesOf(x, o)
         /\ PopControl(x).control = Tail(x.control)
<1>1. /\ DOMAIN PopControl(x) = DOMAIN x
      /\ PopControl(x).control = Tail(x.control)
      /\ PopControl(x).data = x.data
      /\ PopControl(x).ready = x.ready
  BY DEF PopControl, Shaped
<1>2. Tail(x.control) \in Seq(ControlFrame)
  BY DEF Shaped
<1> QED BY <1>1, <1>2 DEF Shaped, ReadyMatchesData, FramesOf

-----------------------------------------------------------------------------
(* Queues with and without a request.                                      *)

\* A queue without requests may wait for anybody.
LEMMA CleanFits ==
  ASSUME NEW s, Clean(s), NEW c
  PROVE  FramesFit(s, c)
BY DEF Clean, FramesFit

\* Before its request is queued, and after its end, a call has none.
LEMMA FitIsClean ==
  ASSUME NEW s, NEW c, FramesFit(s, c), c.pc # "sent"
  PROVE  Clean(s)
BY DEF Clean, FramesFit

\* The request of a call joins a queue that holds none.
LEMMA RequestFits ==
  ASSUME NEW s \in Seq(DataFrame), Clean(s), NEW f \in DataFrame, NEW c,
         f.req # 0 => f.req = c.id /\ c.pc = "sent"
  PROVE  FramesFit(Append(s, f), c)
BY AppendProperties DEF Clean, FramesFit

\* A frame less keeps the fit.
LEMMA TailFits ==
  ASSUME NEW s \in Seq(DataFrame), s # <<>>, NEW c, FramesFit(s, c)
  PROVE  FramesFit(Tail(s), c)
<1>1. /\ Len(Tail(s)) = Len(s) - 1
      /\ \A i \in 1..Len(Tail(s)) : Tail(s)[i] = s[i + 1] /\ i + 1 \in 1..Len(s)
  OBVIOUS
<1>2. ASSUME NEW i \in 1..Len(Tail(s)), Tail(s)[i].req # 0
      PROVE  Tail(s)[i].req = c.id /\ c.pc = "sent"
  BY <1>1, <1>2 DEF FramesFit
<1>3. ASSUME NEW i \in 1..Len(Tail(s)), NEW j \in 1..Len(Tail(s)),
             Tail(s)[i].req # 0, Tail(s)[j].req # 0
      PROVE  i = j
  <2>1. s[i + 1].req # 0 /\ s[j + 1].req # 0 /\ i + 1 \in 1..Len(s) /\ j + 1 \in 1..Len(s)
    BY <1>1, <1>3
  <2>2. i + 1 = j + 1
    BY <2>1 DEF FramesFit
  <2> QED BY <2>2
<1> QED BY <1>2, <1>3 DEF FramesFit

\* remove_request() leaves no request, of whatever call it was.
LEMMA WithoutIsClean ==
  ASSUME NEW s \in Seq(DataFrame), NEW c, c.id # 0, FramesFit(s, c)
  PROVE  Clean(WithoutId(s, c.id))
<1> DEFINE t == WithoutId(s, c.id)
<1>1. CASE t = s /\ \A i \in 1..Len(s) : s[i].req # c.id
  BY <1>1 DEF Clean, FramesFit
<1>2. CASE \E k \in 1..Len(s) : s[k].req = c.id /\ t = RemoveAt(s, k)
  <2>1. PICK k \in 1..Len(s) : s[k].req = c.id /\ t = RemoveAt(s, k)
    BY <1>2
  <2> HIDE DEF t
  <2>2. /\ Len(t) = Len(s) - 1
        /\ \A i \in 1..(Len(s) - 1) : t[i] = IF i < k THEN s[i] ELSE s[i + 1]
    BY <2>1, RemoveAtProperties
  <2>3. ASSUME NEW i \in 1..Len(t) PROVE t[i].req = 0
    <3>1. PICK j \in 1..Len(s) : j # k /\ t[i] = s[j]
      <4>1. CASE i < k
        BY <2>2, <4>1
      <4>2. CASE ~(i < k)
        BY <2>2, <4>2
      <4> QED BY <4>1, <4>2
    <3> QED BY <2>1, <3>1 DEF FramesFit
  <2>4. Clean(t)
    BY <2>3 DEF Clean
  <2> QED BY <2>4 DEF t
<1> QED BY <1>1, <1>2, RemoveFirstMatchType

\* What a fresh call finds in the queue of its object stays there.
LEMMA WithoutNothing ==
  ASSUME NEW s \in Seq(DataFrame), Clean(s), NEW id, id # 0
  PROVE  WithoutId(s, id) = s
BY RemoveFirstMatchType DEF Clean

-----------------------------------------------------------------------------
(* The control queue.                                                      *)

\* A cancellation of a call that has none, or any other frame, may join.
LEMMA CancelJoins ==
  ASSUME NEW s \in Seq(ControlFrame), NEW D, CancelsFor(s, D), NEW f \in ControlFrame,
         NEW E, D \subseteq E, f # OtherFrame => f.id \in E /\ f.id \notin D
  PROVE  CancelsFor(Append(s, f), E)
<1> DEFINE t == Append(s, f)
<1>1. /\ Len(t) = Len(s) + 1
      /\ \A i \in 1..Len(s) : t[i] = s[i]
      /\ t[Len(s) + 1] = f
      /\ Len(s) \in Nat
  BY AppendProperties, LenProperties
<1> HIDE DEF t
<1>2. ASSUME NEW i \in 1..Len(t), t[i] # OtherFrame PROVE t[i].id \in E
  <2>1. CASE i = Len(s) + 1
    BY <1>1, <1>2, <2>1
  <2>2. CASE i \in 1..Len(s)
    BY <1>1, <1>2, <2>2 DEF CancelsFor
  <2> QED BY <1>1, <2>1, <2>2
<1>3. ASSUME NEW i \in 1..Len(t), NEW j \in 1..Len(t), t[i] # OtherFrame, t[i] = t[j]
      PROVE  i = j
  <2>1. \A k \in 1..Len(s) : s[k] # OtherFrame => s[k] # f
    BY DEF CancelsFor
  <2>2. CASE i = Len(s) + 1 /\ j \in 1..Len(s)
    BY <1>1, <1>3, <2>1, <2>2
  <2>3. CASE j = Len(s) + 1 /\ i \in 1..Len(s)
    BY <1>1, <1>3, <2>1, <2>3
  <2>4. CASE i \in 1..Len(s) /\ j \in 1..Len(s)
    BY <1>1, <1>3, <2>4 DEF CancelsFor
  <2> QED BY <1>1, <2>2, <2>3, <2>4
<1>4. CancelsFor(t, E)
  BY <1>2, <1>3 DEF CancelsFor
<1> QED BY <1>4 DEF t

\* The cancellation that is written is not queued a second time.
LEMMA CancelLeaves ==
  ASSUME NEW s \in Seq(ControlFrame), NEW D, CancelsFor(s, D), s # <<>>
  PROVE  /\ Head(s) \in ControlFrame
         /\ Head(s) # OtherFrame => Head(s).id \in D
         /\ CancelsFor(Tail(s), D \ ({Head(s).id} \ {0}))
<1> DEFINE t == Tail(s)
<1>1. /\ Len(t) = Len(s) - 1 /\ Len(s) \in Nat /\ 1 \in 1..Len(s)
      /\ \A i \in 1..Len(t) : t[i] = s[i + 1] /\ i + 1 \in 1..Len(s)
      /\ Head(s) = s[1] /\ Head(s) \in ControlFrame
  OBVIOUS
<1>2. t \in Seq(ControlFrame)
  OBVIOUS
<1> HIDE DEF t
<1>3. ASSUME NEW i \in 1..Len(t), t[i] # OtherFrame
      PROVE  t[i].id \in D /\ ~(t[i].id = Head(s).id /\ Head(s).id # 0)
  <2>1. s[i + 1].id \in D
    BY <1>1, <1>3 DEF CancelsFor
  <2>2. ASSUME t[i].id = Head(s).id, Head(s).id # 0 PROVE FALSE
    <3>1. t[i] = Head(s)
      <4>1. t[i] \in ControlFrame
        BY <1>2
      <4> QED BY <1>1, <1>3, <2>2, <4>1 DEF ControlFrame, CancelFrame, OtherFrame
    <3>2. s[i + 1] = s[1] /\ s[i + 1] # OtherFrame
      BY <1>1, <1>3, <3>1
    <3>3. i + 1 = 1
      BY <1>1, <3>2 DEF CancelsFor
    <3> QED BY <3>3
  <2> QED BY <1>1, <2>1, <2>2
<1>4. ASSUME NEW i \in 1..Len(t), NEW j \in 1..Len(t), t[i] # OtherFrame, t[i] = t[j]
      PROVE  i = j
  <2>1. i + 1 = j + 1
    BY <1>1, <1>4 DEF CancelsFor
  <2> QED BY <2>1
<1>5. CancelsFor(t, D \ ({Head(s).id} \ {0}))
  BY <1>3, <1>4 DEF CancelsFor
<1> QED BY <1>1, <1>5 DEF t, CancelsFor

\* Fewer calls in progress and fewer cancellations written leave room.
LEMMA CancelsGrow ==
  ASSUME NEW s, NEW D, CancelsFor(s, D), NEW E, D \subseteq E
  PROVE  CancelsFor(s, E)
BY DEF CancelsFor

-----------------------------------------------------------------------------
(* The end of a call.                                                      *)

\* A call in progress is one of the table's, or an answered one.
LEMMA CallTyped ==
  ASSUME IndInv, NEW o \in Objects
  PROVE  /\ call[o].id \in 0..MAX_SERIAL
         /\ call[o].pc \in {"none", "sending", "sent"}
         /\ call[o].rx \in Results \cup {"empty"}
         /\ call[o] # NoCall => call[o].id \in 1..next /\ call[o].id \in Ids
         /\ call[o] = NoCall <=> call[o].pc = "none"
         /\ call[o] = NoCall => call[o].id = 0 /\ call[o].rx = "empty"
<1>1. /\ call \in [Objects -> [id : 0..MAX_SERIAL, pc : {"none", "sending", "sent"},
                             rx : Results \cup {"empty"}]]
      /\ next \in 0..MAX_SERIAL
      /\ call[o] = NoCall \/ (call[o].id \in 1..next /\ call[o].pc \in {"sending", "sent"})
  BY DEF IndInv, TypeOK, CallsAreDistinct
<1> QED BY <1>1, HostAssumption DEF NoCall, Ids, HostAssumption

\* try_control() queues a control frame or forgets it.
LEMMA TryControlOK ==
  ASSUME NEW x, Shaped(x), NEW f \in ControlFrame
  PROVE  /\ Shaped(TryControl(x, f))
         /\ \A o : FramesOf(TryControl(x, f), o) = FramesOf(x, o)
         /\ TryControl(x, f).control \in {x.control, Append(x.control, f)}
BY PushControlOK DEF TryControl

\* Dropping the guard of a call takes its request from the queue, and
\* announces no cancellation but its own.
LEMMA DropGuardOK ==
  ASSUME IndInv, NEW o \in Objects, call[o] # NoCall
  PROVE  LET y == DropGuard(q, o, call[o])
             s == WithoutId(FramesOf(q, o), call[o].id)
         IN  /\ Shaped(y)
             /\ Replaces(q, y, o, s) /\ Clean(s)
             /\ CancelsFor(y.control, (Dead \ cancelled) \cup Waiting(o))
<1> DEFINE c == call[o]
           x == RemoveRequest(q, o, c.id)
           y == DropGuard(q, o, c)
           s == WithoutId(FramesOf(q, o), c.id)
           D == Dead \ cancelled
<1>1. /\ Shaped(q) /\ FramesFit(FramesOf(q, o), c) /\ CancelsFor(q.control, D)
      /\ q.control \in Seq(ControlFrame)
  BY DEF IndInv, QueuesFit, CancelsFit, Shaped
<1>2. c.id # 0 /\ c.id \in Ids /\ c.id \notin D
  BY CallTyped DEF Ids, Dead
<1>3. Shaped(x) /\ Replaces(q, x, o, s) /\ x.control = q.control
  BY <1>1, RemoveRequestOK
<1>4. Clean(s)
  BY <1>1, <1>2, FramesShape, WithoutIsClean
<1>5. CASE c.id \in DOMAIN pending /\ c.pc = "sent"
  <2> DEFINE f == CancelFrame(c.id)
             E == D \cup Waiting(o)
  <2>1. f \in ControlFrame /\ f.id = c.id
    BY <1>2 DEF ControlFrame, CancelFrame
  <2>2. y = TryControl(x, f)
    BY <1>5 DEF DropGuard
  <2>3. f.id \in E /\ f.id \notin D /\ D \subseteq E
    BY <1>2, <1>5, <2>1 DEF Waiting
  <2> HIDE DEF x, y, s, f, D, E
  <2>4. /\ Shaped(y) /\ \A p : FramesOf(y, p) = FramesOf(x, p)
        /\ y.control \in {q.control, Append(q.control, f)}
    BY <1>3, <2>1, <2>2, TryControlOK
  <2>5. CancelsFor(q.control, E) /\ CancelsFor(Append(q.control, f), E)
    BY <1>1, <2>1, <2>3, CancelJoins, CancelsGrow
  <2>6. CancelsFor(y.control, E)
    BY <2>4, <2>5
  <2>7. Replaces(q, y, o, s)
    BY <1>3, <2>4 DEF Replaces
  <2> QED BY <1>4, <2>4, <2>6, <2>7 DEF y, s, D, E
<1>6. CASE ~(c.id \in DOMAIN pending /\ c.pc = "sent")
  <2>1. y = x
    BY <1>6 DEF DropGuard
  <2>2. CancelsFor(y.control, D \cup Waiting(o))
    BY <1>1, <1>3, <2>1, CancelsGrow
  <2> QED BY <1>3, <1>4, <2>1, <2>2
<1> QED BY <1>5, <1>6

\* The state after the end of the call of o, whoever ended it.
LEMMA EndCallOK ==
  ASSUME IndInv, NEW o \in Objects, call[o] # NoCall, NEW s, NEW r,
         Shaped(q'), Replaces(q, q', o, s), Clean(s),
         CancelsFor(q'.control, (Dead \ cancelled) \cup Waiting(o)),
         pending' = Unrouted(pending, {call[o].id}),
         call' = [call EXCEPT ![o] = NoCall],
         outcome' = [outcome EXCEPT ![call[o].id] = r],
         r \in Results \cup {"TIMEOUT", "CLOSED", "dropped"},
         r \in Results => reply[call[o].id] = r,
         r = "TIMEOUT" /\ call[o].id \in written => reply[call[o].id] = "none",
         r = "CLOSED" => call[o].pc # "sent",
         \/ ended' = ended
         \/ ended' = ended \cup {o} /\ s = <<>>,
         UNCHANGED <<closed, next, ignored, written, cancelled, reply>>
  PROVE  IndInv'
<1> DEFINE c == call[o]
<1>1. /\ TypeOK /\ CallsAreDistinct /\ RoutedExactly /\ HistoriesFit /\ ReplyReachesItsCall
      /\ QueuesFit /\ CancelsFit
  BY DEF IndInv
<1>2. c.id # 0 /\ c.id \in Ids /\ c.id \in 1..next
  BY CallTyped DEF Ids
<1>3. /\ DOMAIN pending' = DOMAIN pending \ {c.id}
      /\ \A id \in DOMAIN pending' : pending'[id] = pending[id]
  BY DEF Unrouted
<1>4. /\ DOMAIN call = Objects
      /\ call'[o] = NoCall
      /\ \A p \in Objects : p # o => call'[p] = call[p] /\ (call[p].id = c.id => FALSE)
  BY <1>1, <1>2 DEF TypeOK, CallsAreDistinct
<1>5. NoCall.id = 0 /\ NoCall.pc = "none" /\ NoCall.rx = "empty"
  BY DEF NoCall
<1>6. TypeOK'
  <2>1. call' \in [Objects -> [id : 0..MAX_SERIAL, pc : {"none", "sending", "sent"},
                              rx : Results \cup {"empty"}]]
    <3>1. NoCall \in [id : 0..MAX_SERIAL, pc : {"none", "sending", "sent"},
                     rx : Results \cup {"empty"}]
      BY HostAssumption DEF NoCall, HostAssumption
    <3> QED BY <1>1, <3>1 DEF TypeOK
  <2>2. outcome' \in [Ids -> Results \cup {"none", "TIMEOUT", "CLOSED", "dropped"}]
    BY <1>1 DEF TypeOK
  <2>3. pending' \in [DOMAIN pending' -> Objects] /\ DOMAIN pending' \subseteq Ids
    BY <1>1 DEF TypeOK, Unrouted
  <2> QED BY <1>1, <2>1, <2>2, <2>3 DEF TypeOK
<1>7. CallsAreDistinct'
  <2>1. \A p \in ended' : call'[p] = NoCall
    BY <1>1, <1>4 DEF CallsAreDistinct, TypeOK
  <2>2. \A p \in Objects : call'[p] = NoCall \/ (call'[p].id \in 1..next' /\ call'[p].pc \in {"sending", "sent"})
    BY <1>1, <1>4 DEF CallsAreDistinct
  <2>3. \A p, m \in Objects : call'[p].id = call'[m].id /\ call'[p].id # 0 => p = m
    BY <1>1, <1>4, <1>5 DEF CallsAreDistinct
  <2> QED BY <2>1, <2>2, <2>3 DEF CallsAreDistinct
<1>8. RoutedExactly'
  <2>1. ASSUME NEW id \in DOMAIN pending'
        PROVE  call'[pending'[id]].id = id /\ call'[pending'[id]].rx = "empty"
    <3>1. id \in DOMAIN pending /\ id # c.id /\ pending'[id] = pending[id] /\ pending[id] \in Objects
      BY <1>1, <1>3 DEF TypeOK
    <3>2. call[pending[id]].id = id /\ call[pending[id]].rx = "empty" /\ pending[id] # o
      BY <1>1, <3>1 DEF RoutedExactly
    <3> QED BY <1>4, <3>1, <3>2
  <2>2. ASSUME NEW p \in Objects, call'[p].id # 0, call'[p].rx = "empty"
        PROVE  call'[p].id \in DOMAIN pending'
    <3>1. p # o /\ call'[p] = call[p] /\ call[p].id # c.id
      BY <1>4, <1>5, <2>2
    <3> QED BY <1>1, <1>3, <2>2, <3>1 DEF RoutedExactly
  <2> QED BY <2>1, <2>2 DEF RoutedExactly
<1>9. HistoriesFit'
  <2>1. DOMAIN outcome = Ids /\ \A id \in Ids : id # c.id => outcome'[id] = outcome[id]
    BY <1>1 DEF TypeOK
  <2>2. \A id \in Ids : id > next' \/ id \in DOMAIN pending' => reply'[id] = "none"
    BY <1>1, <1>3 DEF HistoriesFit
  <2>3. ASSUME NEW id \in Ids, id > next' PROVE outcome'[id] = "none"
    <3>1. id # c.id
      BY <1>1, <1>2, <2>3, HostAssumption DEF TypeOK, HostAssumption
    <3> QED BY <1>1, <2>1, <2>3, <3>1 DEF HistoriesFit
  <2>4. ASSUME NEW p \in Objects, call'[p].id # 0
        PROVE  outcome'[call'[p].id] = "none"
    <3>1. p # o /\ call'[p] = call[p] /\ call[p].id # c.id /\ call[p].id \in Ids
      BY <1>4, <1>5, <2>4, CallTyped
    <3> QED BY <1>1, <2>1, <2>4, <3>1 DEF HistoriesFit
  <2>5. \A p \in Objects : call'[p].rx # "empty" => reply'[call'[p].id] = call'[p].rx
    BY <1>1, <1>4, <1>5 DEF HistoriesFit
  <2>6. \A p \in Objects : call'[p].pc = "sending" => call'[p].id \notin written'
    BY <1>1, <1>4, <1>5 DEF HistoriesFit
  <2> QED BY <1>1, <2>2, <2>3, <2>4, <2>5, <2>6 DEF HistoriesFit
<1>10. ReplyReachesItsCall'
  BY <1>1, <1>2 DEF ReplyReachesItsCall, TypeOK, Results
<1>11. QueuesFit'
  <2>1. ASSUME NEW p \in Objects PROVE FramesFit(FramesOf(q', p), call'[p])
    <3>1. CASE p = o
      BY <3>1, CleanFits DEF Replaces
    <3>2. CASE p # o
      BY <1>1, <1>4, <3>2 DEF Replaces, QueuesFit
    <3> QED BY <3>1, <3>2
  <2>2. ASSUME NEW p \in ended' PROVE FramesOf(q', p) = <<>>
    <3>1. CASE p = o
      BY <1>1, <1>2, <2>2, <3>1 DEF Replaces, CallsAreDistinct, NoCall
    <3>2. CASE p # o
      BY <1>1, <2>2, <3>2 DEF Replaces, QueuesFit, TypeOK
    <3> QED BY <3>1, <3>2
  <2> QED BY <2>1, <2>2 DEF QueuesFit
<1>12. CancelsFit'
  <2>1. Dead \subseteq Dead'
    <3>1. c.id \notin Dead
      BY DEF Dead
    <3>2. \A id \in Dead : outcome'[id] = outcome[id]
      BY <1>1, <3>1, HostAssumption DEF TypeOK, Dead, Ids, HostAssumption
    <3> QED BY <1>4, <1>5, <3>2 DEF Dead
  <2>2. Waiting(o) \subseteq Dead'
    <3> SUFFICES ASSUME c.id \in DOMAIN pending, c.pc = "sent" PROVE c.id \in Dead'
      BY DEF Waiting
    <3>1. reply[c.id] = "none"
      BY <1>1, <1>2 DEF HistoriesFit
    <3>2. r \in {"TIMEOUT", "dropped"}
      BY <3>1 DEF Results
    <3>3. outcome'[c.id] = r
      BY <1>1, <1>2 DEF TypeOK
    <3> QED BY <1>2, <1>4, <1>5, <3>1, <3>2, <3>3 DEF Dead
  <2>3. c.id \notin cancelled /\ Waiting(o) \subseteq {c.id}
    BY <1>1 DEF CancelsFit, Dead, Waiting
  <2>4. (Dead \ cancelled) \cup Waiting(o) \subseteq Dead' \ cancelled'
    BY <2>1, <2>2, <2>3
  <2>5. CancelsFor(q'.control, Dead' \ cancelled')
    <3> DEFINE D == (Dead \ cancelled) \cup Waiting(o)
               E == Dead' \ cancelled'
    <3>1. D \subseteq E /\ CancelsFor(q'.control, D)
      BY <2>4
    <3> HIDE DEF D, E
    <3>2. CancelsFor(q'.control, E)
      BY <3>1, CancelsGrow
    <3> QED BY <3>2 DEF E
  <2> QED BY <1>1, <2>1, <2>5 DEF CancelsFit
<1> QED BY <1>6, <1>7, <1>8, <1>9, <1>10, <1>11, <1>12 DEF IndInv

\* Whatever the call returns, its guard is dropped.
LEMMA ReturnOK ==
  ASSUME IndInv, NEW o \in Objects, call[o] # NoCall, NEW r,
         Return(o, call[o], r),
         r \in Results \cup {"TIMEOUT", "CLOSED"},
         r \in Results => reply[call[o].id] = r,
         r = "TIMEOUT" /\ call[o].id \in written => reply[call[o].id] = "none",
         r = "CLOSED" => call[o].pc # "sent",
         UNCHANGED <<closed, next, ignored, ended, written, cancelled, reply>>
  PROVE  IndInv'
<1> DEFINE s == WithoutId(FramesOf(q, o), call[o].id)
<1>1. /\ Shaped(q') /\ Replaces(q, q', o, s) /\ Clean(s)
      /\ CancelsFor(q'.control, (Dead \ cancelled) \cup Waiting(o))
  BY DropGuardOK DEF Return
<1> HIDE DEF s
<1> QED BY <1>1, EndCallOK DEF Return

\* A call that was answered, or that found the outbox closed or full.
LEMMA CallReturnsOK ==
  ASSUME IndInv, NEW o \in Objects,
         CallAnswer(o) \/ CallTimeout(o) \/ (CallSend(o) /\ closed)
  PROVE  IndInv'
<1>1. HistoriesFit /\ RoutedExactly /\ TypeOK
  BY DEF IndInv
<1>2. CASE CallAnswer(o)
  <2>1. call[o] # NoCall /\ call[o].rx \in Results /\ reply[call[o].id] = call[o].rx
    BY <1>1, <1>2, CallTyped DEF CallAnswer, HistoriesFit
  <2> QED BY <1>2, <2>1, ReturnOK DEF CallAnswer, Results
<1>3. CASE CallTimeout(o)
  <2>1. call[o] # NoCall /\ call[o].id \in Ids /\ call[o].id # 0
    BY <1>3, CallTyped DEF CallTimeout, Ids
  <2>2. call[o].id \in written => reply[call[o].id] = "none"
    BY <1>1, <1>3, <2>1 DEF CallTimeout, HistoriesFit, RoutedExactly
  <2> QED BY <1>3, <2>1, <2>2, ReturnOK DEF CallTimeout, Results
<1>4. CASE CallSend(o) /\ closed
  <2>1. call[o] # NoCall
    BY <1>4, CallTyped DEF CallSend
  <2>2. /\ Return(o, call[o], "CLOSED") /\ call[o].pc # "sent"
        /\ UNCHANGED <<closed, next, ignored, ended, written, cancelled, reply>>
    BY <1>4 DEF CallSend
  <2> QED BY <2>1, <2>2, ReturnOK DEF Results
<1> QED BY <1>2, <1>3, <1>4

\* The frames of a queue that gets the request of a call fit data queues.
LEMMA FrameTypes ==
  /\ \A id \in Ids : CallFrame(id) \in DataFrame /\ CallFrame(id).req = id
  /\ LogFrame \in DataFrame /\ LogFrame.req = 0
  /\ OtherFrame \in ControlFrame
BY HostAssumption DEF CallFrame, LogFrame, DataFrame, ControlFrame, Ids, HostAssumption

\* An answer that overtook its own request: the call queues the request and
\* takes it back in the same poll.
LEMMA CallSendAnsweredOK ==
  ASSUME IndInv, NEW o \in Objects, CallSend(o), ~closed, call[o].rx # "empty"
  PROVE  IndInv'
<1> DEFINE c == call[o]
           sent == [c EXCEPT !.pc = "sent"]
           x == PushData(q, o, CallFrame(c.id))
           t == Append(FramesOf(q, o), CallFrame(c.id))
           s == WithoutId(t, c.id)
<1>1. /\ c.pc = "sending"
      /\ q' = RemoveRequest(x, o, c.id)
      /\ pending' = Unrouted(pending, {c.id})
      /\ call' = [call EXCEPT ![o] = NoCall]
      /\ outcome' = [outcome EXCEPT ![c.id] = c.rx]
      /\ UNCHANGED <<closed, next, ignored, ended, written, cancelled, reply>>
  BY DEF CallSend
<1>2. c # NoCall /\ c.id \in Ids /\ c.id # 0 /\ c.rx \in Results
  BY <1>1, CallTyped DEF Ids
<1>3. /\ TypeOK /\ HistoriesFit /\ Shaped(q) /\ FramesFit(FramesOf(q, o), c)
      /\ CancelsFor(q.control, Dead \ cancelled)
  BY DEF IndInv, QueuesFit, CancelsFit
<1>4. sent.id = c.id /\ sent.pc = "sent"
  BY <1>3 DEF TypeOK
<1>5. Clean(FramesOf(q, o)) /\ FramesOf(q, o) \in Seq(DataFrame)
  BY <1>1, <1>3, FitIsClean, FramesShape
<1>6. CallFrame(c.id) \in DataFrame /\ CallFrame(c.id).req = c.id
  BY <1>2, FrameTypes
<1>7. /\ Shaped(x) /\ Replaces(q, x, o, t) /\ x.control = q.control
      /\ t \in Seq(DataFrame) /\ FramesFit(t, sent)
  <2>1. Shaped(x) /\ Replaces(q, x, o, t) /\ x.control = q.control
    BY <1>3, <1>6, PushDataOK
  <2>2. t \in Seq(DataFrame)
    BY <1>5, <1>6, AppendProperties
  <2> HIDE DEF sent
  <2>3. FramesFit(t, sent)
    BY <1>4, <1>5, <1>6, RequestFits
  <2> QED BY <2>1, <2>2, <2>3
<1> HIDE DEF x, t, sent
<1>8. Shaped(q') /\ Replaces(x, q', o, WithoutId(FramesOf(x, o), c.id)) /\ q'.control = x.control
  BY <1>1, <1>7, RemoveRequestOK
<1>9. FramesOf(x, o) = t
  BY <1>7 DEF Replaces
<1>10. Replaces(q, q', o, s)
  BY <1>7, <1>8, <1>9 DEF Replaces
<1>11. Clean(s)
  <2>1. FramesFit(t, sent) /\ sent.id = c.id /\ sent.id # 0 /\ t \in Seq(DataFrame)
    BY <1>2, <1>4, <1>7
  <2>2. Clean(WithoutId(t, sent.id))
    BY <2>1, WithoutIsClean
  <2> QED BY <2>1, <2>2
<1>12. CancelsFor(q'.control, (Dead \ cancelled) \cup Waiting(o))
  BY <1>3, <1>7, <1>8, CancelsGrow
<1>13. reply[c.id] = c.rx /\ c.rx # "TIMEOUT" /\ c.rx # "CLOSED"
  BY <1>2, <1>3 DEF HistoriesFit, Results
<1> HIDE DEF s
<1> QED BY <1>1, <1>2, <1>8, <1>10, <1>11, <1>12, <1>13, EndCallOK

-----------------------------------------------------------------------------
(* The beginning of a call.                                                *)

\* A serial number nobody has drawn: no call, no route, no history.
LEMMA FreshId ==
  ASSUME IndInv, next < MAX_SERIAL
  PROVE  /\ next + 1 \in Ids /\ next + 1 # 0 /\ next \in Nat
         /\ next + 1 \notin DOMAIN pending
         /\ reply[next + 1] = "none" /\ outcome[next + 1] = "none"
         /\ next + 1 \notin written
         /\ \A o \in Objects : call[o].id # next + 1
<1>1. next \in Nat /\ next + 1 \in Ids /\ next + 1 > next
  BY HostAssumption DEF IndInv, TypeOK, Ids, HostAssumption
<1>2. \A o \in Objects : call[o].id # next + 1
  BY <1>1, CallTyped
<1>3. reply[next + 1] = "none" /\ outcome[next + 1] = "none"
  BY <1>1 DEF IndInv, HistoriesFit
<1>4. next + 1 \notin written
  BY <1>1 DEF IndInv, HistoriesFit
<1>5. next + 1 \notin DOMAIN pending
  BY <1>2 DEF IndInv, RoutedExactly, TypeOK
<1> QED BY <1>1, <1>2, <1>3, <1>4, <1>5

\* A call that meets a closed outbox has used up its serial number.
LEMMA CallRefusedOK ==
  ASSUME IndInv, NEW o \in Objects, CallStart(o), closed
  PROVE  IndInv'
<1> DEFINE id == next + 1
           s == FramesOf(q, o)
<1>1. /\ next' = id /\ next < MAX_SERIAL /\ call[o] = NoCall
      /\ pending' = Unrouted(pending, {id})
      /\ q' = RemoveRequest(q, o, id)
      /\ outcome' = [outcome EXCEPT ![id] = "CLOSED"]
      /\ UNCHANGED <<call, closed, ignored, ended, written, cancelled, reply>>
  BY DEF CallStart
<1>2. /\ TypeOK /\ CallsAreDistinct /\ RoutedExactly /\ HistoriesFit /\ ReplyReachesItsCall
      /\ QueuesFit /\ CancelsFit
  BY DEF IndInv
<1>3. /\ id \in Ids /\ id # 0 /\ next \in Nat /\ id \notin DOMAIN pending /\ reply[id] = "none"
      /\ \A p \in Objects : call[p].id # id
  BY <1>1, FreshId
<1>4. DOMAIN pending' = DOMAIN pending /\ \A i \in DOMAIN pending : pending'[i] = pending[i]
  BY <1>1, <1>3 DEF Unrouted
<1>5. Shaped(q') /\ Replaces(q, q', o, s) /\ q'.control = q.control
  <2>1. FramesOf(q, o) \in Seq(DataFrame) /\ Clean(FramesOf(q, o))
    BY <1>1, <1>2, FramesShape, FitIsClean DEF QueuesFit, NoCall
  <2>2. WithoutId(FramesOf(q, o), id) = s
    BY <1>3, <2>1, WithoutNothing
  <2>3. Shaped(q)
    BY <1>2 DEF QueuesFit
  <2> HIDE DEF id, s
  <2> QED BY <1>1, <2>2, <2>3, RemoveRequestOK
<1>6. TypeOK'
  <2>1. outcome' \in [Ids -> Results \cup {"none", "TIMEOUT", "CLOSED", "dropped"}]
    BY <1>1, <1>2 DEF TypeOK
  <2>2. pending' \in [DOMAIN pending' -> Objects] /\ DOMAIN pending' \subseteq Ids
    BY <1>1, <1>2 DEF TypeOK, Unrouted
  <2>3. next' \in 0..MAX_SERIAL
    BY <1>1, <1>3, HostAssumption DEF HostAssumption
  <2> QED BY <1>1, <1>2, <2>1, <2>2, <2>3 DEF TypeOK
<1>7. CallsAreDistinct'
  BY <1>1, <1>2, <1>3 DEF CallsAreDistinct
<1>8. RoutedExactly'
  BY <1>1, <1>2, <1>4 DEF RoutedExactly
<1>9. HistoriesFit'
  <2>1. \A i \in Ids : i # id => outcome'[i] = outcome[i]
    BY <1>1, <1>2 DEF TypeOK
  <2>2. \A i \in Ids : i > next' \/ i \in DOMAIN pending' => reply'[i] = "none"
    BY <1>1, <1>2, <1>3, <1>4 DEF HistoriesFit, Ids
  <2>3. \A i \in Ids : i > next' => i # id /\ i > next
    BY <1>1, <1>3 DEF Ids
  <2>4. \A p \in Objects : call'[p].id # 0 => outcome'[call'[p].id] = "none"
    BY <1>1, <1>2, <1>3, <2>1, CallTyped DEF HistoriesFit, NoCall
  <2>5. written' \subseteq 1..next'
    BY <1>1, <1>2, <1>3 DEF HistoriesFit
  <2> QED BY <1>1, <1>2, <2>1, <2>2, <2>3, <2>4, <2>5 DEF HistoriesFit
<1>10. ReplyReachesItsCall'
  BY <1>1, <1>2 DEF ReplyReachesItsCall, TypeOK, Results
<1>11. QueuesFit'
  BY <1>1, <1>2, <1>5 DEF QueuesFit, Replaces, TypeOK
<1>12. CancelsFit'
  <2>1. Dead \subseteq Dead'
    BY <1>1, <1>3 DEF Dead
  <2>2. CancelsFor(q'.control, Dead' \ cancelled')
    BY SMTT(20), <1>1, <1>2, <1>5, <2>1 DEF CancelsFit, CancelsFor
  <2> QED BY <1>1, <1>2, <2>1, <2>2 DEF CancelsFit
<1> QED BY <1>6, <1>7, <1>8, <1>9, <1>10, <1>11, <1>12 DEF IndInv

\* A call that is routed, with or without its request in the queue.
LEMMA CallRoutedOK ==
  ASSUME IndInv, NEW o \in Objects, CallStart(o), ~closed
  PROVE  IndInv'
<1> DEFINE id == next + 1
<1>1. /\ next' = id /\ next < MAX_SERIAL /\ call[o] = NoCall /\ o \notin ended
      /\ pending' = Put(pending, id, o)
      /\ UNCHANGED <<outcome, closed, ignored, ended, written, cancelled, reply>>
  BY DEF CallStart
<1>2. /\ TypeOK /\ CallsAreDistinct /\ RoutedExactly /\ HistoriesFit /\ ReplyReachesItsCall
      /\ QueuesFit /\ CancelsFit
  BY DEF IndInv
<1>3. /\ id \in Ids /\ id # 0 /\ next \in Nat /\ id \notin DOMAIN pending /\ reply[id] = "none"
      /\ outcome[id] = "none" /\ id \notin written
      /\ \A p \in Objects : call[p].id # id
  BY <1>1, FreshId
<1>4. PICK c : /\ c.id = id /\ c.pc \in {"sending", "sent"} /\ c.rx = "empty"
               /\ c \in [id : 0..MAX_SERIAL, pc : {"none", "sending", "sent"},
                         rx : Results \cup {"empty"}]
               /\ call' = [call EXCEPT ![o] = c]
               /\ \/ q' = PushData(q, o, CallFrame(id)) /\ c.pc = "sent"
                  \/ q' = q
  <2> DEFINE a == [id |-> id, pc |-> "sending", rx |-> "empty"]
             b == [id |-> id, pc |-> "sent", rx |-> "empty"]
  <2>1. id \in 0..MAX_SERIAL
    BY <1>3 DEF Ids
  <2>2. [a EXCEPT !.pc = "sent"] = b
    OBVIOUS
  <2>3. \/ call' = [call EXCEPT ![o] = b] /\ q' = PushData(q, o, CallFrame(id))
        \/ call' = [call EXCEPT ![o] = a] /\ q' = q
    BY <2>2 DEF CallStart
  <2> DEFINE R == [id : 0..MAX_SERIAL, pc : {"none", "sending", "sent"},
                   rx : Results \cup {"empty"}]
  <2>4. CASE call' = [call EXCEPT ![o] = b] /\ q' = PushData(q, o, CallFrame(id))
    <3>1. b.id = id /\ b.pc = "sent" /\ b.rx = "empty" /\ b \in R
      BY <2>1
    <3> HIDE DEF b, R, id
    <3> QED BY <2>4, <3>1 DEF R
  <2>5. CASE call' = [call EXCEPT ![o] = a] /\ q' = q
    <3>1. a.id = id /\ a.pc = "sending" /\ a.rx = "empty" /\ a \in R
      BY <2>1
    <3> HIDE DEF a, R, id
    <3> QED BY <2>5, <3>1 DEF R
  <2> QED BY <2>3, <2>4, <2>5
<1>5. /\ DOMAIN pending' = DOMAIN pending \cup {id} /\ pending'[id] = o
      /\ \A i \in DOMAIN pending : pending'[i] = pending[i] /\ i # id
  BY <1>1, <1>3 DEF Put
<1>6. call'[o] = c /\ \A p \in Objects : p # o => call'[p] = call[p]
  BY <1>2, <1>4 DEF TypeOK
<1>7. /\ Shaped(q') /\ q'.control = q.control
      /\ \E s : Replaces(q, q', o, s) /\ FramesFit(s, c)
  <2>1. Shaped(q) /\ FramesOf(q, o) \in Seq(DataFrame) /\ Clean(FramesOf(q, o))
    BY <1>1, <1>2, FramesShape, FitIsClean DEF QueuesFit, NoCall
  <2>2. CallFrame(id) \in DataFrame /\ CallFrame(id).req = id
    BY <1>3, FrameTypes
  <2>3. CASE q' = q
    <3>1. Replaces(q, q', o, FramesOf(q, o)) /\ FramesFit(FramesOf(q, o), c)
      BY <2>1, <2>3, CleanFits DEF Replaces
    <3> QED BY <2>1, <2>3, <3>1
  <2>4. CASE q' = PushData(q, o, CallFrame(id)) /\ c.pc = "sent"
    <3> HIDE DEF id
    <3>1. FramesFit(Append(FramesOf(q, o), CallFrame(id)), c)
      BY <1>4, <2>1, <2>2, <2>4, RequestFits
    <3> QED BY <2>1, <2>2, <2>4, <3>1, PushDataOK
  <2> QED BY <1>4, <2>3, <2>4
<1>8. TypeOK'
  <2>1. call' \in [Objects -> [id : 0..MAX_SERIAL, pc : {"none", "sending", "sent"},
                              rx : Results \cup {"empty"}]]
    BY <1>2, <1>4 DEF TypeOK
  <2>2. pending' \in [DOMAIN pending' -> Objects] /\ DOMAIN pending' \subseteq Ids
    BY <1>1, <1>2, <1>3 DEF TypeOK, Put
  <2>3. next' \in 0..MAX_SERIAL
    BY <1>1, <1>3, HostAssumption DEF HostAssumption
  <2> QED BY <1>1, <1>2, <2>1, <2>2, <2>3 DEF TypeOK
<1>9. CallsAreDistinct'
  <2>1. id \in 1..next' /\ \A i \in 1..next : i \in 1..next'
    BY <1>1, <1>3
  <2> QED BY <1>1, <1>2, <1>3, <1>4, <1>6, <2>1 DEF CallsAreDistinct, TypeOK
<1>10. RoutedExactly'
  <2>1. ASSUME NEW i \in DOMAIN pending'
        PROVE  call'[pending'[i]].id = i /\ call'[pending'[i]].rx = "empty"
    <3>1. CASE i = id
      BY <1>4, <1>5, <1>6, <3>1
    <3>2. CASE i \in DOMAIN pending
      <4>1. pending'[i] = pending[i] /\ pending[i] \in Objects /\ call[pending[i]].id = i
            /\ call[pending[i]].rx = "empty" /\ i # 0
        BY <1>2, <1>5, <3>2 DEF RoutedExactly, TypeOK, Ids
      <4>2. pending[i] # o
        BY <1>1, <4>1 DEF NoCall
      <4> QED BY <1>6, <4>1, <4>2
    <3> QED BY <1>5, <2>1, <3>1, <3>2
  <2>2. ASSUME NEW p \in Objects, call'[p].id # 0, call'[p].rx = "empty"
        PROVE  call'[p].id \in DOMAIN pending'
    BY <1>2, <1>4, <1>5, <1>6, <2>2 DEF RoutedExactly
  <2> QED BY <2>1, <2>2 DEF RoutedExactly
<1>11. HistoriesFit'
  <2>1. \A i \in Ids : i > next' \/ i \in DOMAIN pending' => reply'[i] = "none"
    BY <1>1, <1>2, <1>3, <1>5 DEF HistoriesFit, Ids
  <2>2. \A i \in Ids : i > next' => outcome'[i] = "none"
    BY <1>1, <1>2, <1>3 DEF HistoriesFit, Ids
  <2>3. \A p \in Objects : call'[p].id # 0 => outcome'[call'[p].id] = "none"
    BY <1>1, <1>2, <1>3, <1>4, <1>6 DEF HistoriesFit
  <2>4. \A p \in Objects : call'[p].rx # "empty" => reply'[call'[p].id] = call'[p].rx
    BY <1>1, <1>2, <1>4, <1>6 DEF HistoriesFit
  <2>5. \A p \in Objects : call'[p].pc = "sending" => call'[p].id \notin written'
    BY <1>1, <1>2, <1>3, <1>4, <1>6 DEF HistoriesFit
  <2>6. written' \subseteq 1..next'
    BY <1>1, <1>2, <1>3 DEF HistoriesFit
  <2> QED BY <2>1, <2>2, <2>3, <2>4, <2>5, <2>6 DEF HistoriesFit
<1>12. ReplyReachesItsCall'
  BY <1>1, <1>2 DEF ReplyReachesItsCall
<1>13. QueuesFit'
  <2>1. ASSUME NEW p \in Objects PROVE FramesFit(FramesOf(q', p), call'[p])
    BY <1>2, <1>6, <1>7 DEF QueuesFit, Replaces
  <2>2. \A p \in ended' : FramesOf(q', p) = <<>>
    BY <1>1, <1>2, <1>7 DEF QueuesFit, Replaces, TypeOK
  <2> QED BY <1>7, <2>1, <2>2 DEF QueuesFit
<1>14. CancelsFit'
  <2>1. Dead \subseteq Dead'
    BY <1>1, <1>3, <1>4, <1>6 DEF Dead
  <2>2. CancelsFor(q'.control, Dead' \ cancelled')
    BY <1>1, <1>2, <1>7, <2>1 DEF CancelsFit, CancelsFor
  <2> QED BY <1>1, <1>2, <2>1, <2>2 DEF CancelsFit
<1> QED BY <1>8, <1>9, <1>10, <1>11, <1>12, <1>13, <1>14 DEF IndInv

\* A call whose frame finds room after a wait.
LEMMA CallSendOK ==
  ASSUME IndInv, NEW o \in Objects, CallSend(o), ~closed, call[o].rx = "empty"
  PROVE  IndInv'
<1> DEFINE id == call[o].id
           c == [call[o] EXCEPT !.pc = "sent"]
           R == [id : 0..MAX_SERIAL, pc : {"none", "sending", "sent"},
                 rx : Results \cup {"empty"}]
           s == Append(FramesOf(q, o), CallFrame(id))
<1>1. /\ call[o].pc = "sending"
      /\ q' = PushData(q, o, CallFrame(id))
      /\ call' = [call EXCEPT ![o] = c]
      /\ UNCHANGED <<pending, outcome, closed, next, ignored, ended, written, cancelled, reply>>
  BY DEF CallSend
<1>2. /\ TypeOK /\ CallsAreDistinct /\ RoutedExactly /\ HistoriesFit /\ ReplyReachesItsCall
      /\ QueuesFit /\ CancelsFit
  BY DEF IndInv
<1>3. id \in Ids /\ id # 0 /\ call[o] # NoCall
  BY <1>1, CallTyped DEF Ids
<1>4. c \in R /\ c.id = id /\ c.pc = "sent" /\ c.rx = "empty"
  <2>1. call[o] \in R
    BY <1>2 DEF TypeOK
  <2> QED BY <2>1
<1>5. call'[o] = c /\ \A p \in Objects : p # o => call'[p] = call[p]
  BY <1>1, <1>2 DEF TypeOK
<1> HIDE DEF c
<1>6. Shaped(q') /\ q'.control = q.control /\ Replaces(q, q', o, s) /\ FramesFit(s, c)
  <2>1. Shaped(q) /\ FramesOf(q, o) \in Seq(DataFrame) /\ Clean(FramesOf(q, o))
    BY <1>1, <1>2, FramesShape, FitIsClean DEF QueuesFit
  <2>2. CallFrame(id) \in DataFrame /\ CallFrame(id).req = id
    BY <1>3, FrameTypes
  <2> HIDE DEF id
  <2> QED BY <1>1, <1>4, <2>1, <2>2, PushDataOK, RequestFits
<1>7. \A p \in Objects : call'[p].id = call[p].id /\ call'[p].rx = call[p].rx
  BY <1>4, <1>5
<1>8. TypeOK'
  <2>1. call' \in [Objects -> R]
    BY <1>1, <1>2, <1>4 DEF TypeOK
  <2> QED BY <1>1, <1>2, <2>1 DEF TypeOK
<1>9. CallsAreDistinct'
  <2>1. \A p \in Objects : call'[p] = NoCall \/ (call'[p].id \in 1..next' /\ call'[p].pc \in {"sending", "sent"})
    BY <1>1, <1>2, <1>3, <1>4, <1>5 DEF CallsAreDistinct
  <2>2. \A p \in ended' : call'[p] = NoCall
    BY <1>1, <1>2, <1>3, <1>5 DEF CallsAreDistinct, TypeOK
  <2> QED BY <1>2, <1>7, <2>1, <2>2 DEF CallsAreDistinct
<1>10. RoutedExactly'
  BY <1>1, <1>2, <1>7 DEF RoutedExactly, TypeOK
<1>11. HistoriesFit'
  BY <1>1, <1>2, <1>4, <1>5, <1>7 DEF HistoriesFit
<1>12. ReplyReachesItsCall'
  BY <1>1, <1>2 DEF ReplyReachesItsCall
<1>13. QueuesFit'
  <2>1. ASSUME NEW p \in Objects PROVE FramesFit(FramesOf(q', p), call'[p])
    BY <1>2, <1>5, <1>6 DEF QueuesFit, Replaces
  <2>2. \A p \in ended' : FramesOf(q', p) = <<>>
    BY <1>1, <1>2, <1>3, <1>6 DEF QueuesFit, Replaces, TypeOK, CallsAreDistinct
  <2> QED BY <1>6, <2>1, <2>2 DEF QueuesFit
<1>14. CancelsFit'
  <2>1. Dead = Dead'
    BY <1>1, <1>7 DEF Dead
  <2> QED BY <1>1, <1>2, <1>6, <2>1 DEF CancelsFit
<1> QED BY <1>8, <1>9, <1>10, <1>11, <1>12, <1>13, <1>14 DEF IndInv

-----------------------------------------------------------------------------
(* The other steps.                                                        *)

\* A reply goes to the one call that waits for it.
LEMMA ResponseOK ==
  ASSUME IndInv, NEW id \in Ids, NEW r \in Results, Response(id, r)
  PROVE  IndInv'
<1> DEFINE o == pending[id]
           R == [id : 0..MAX_SERIAL, pc : {"none", "sending", "sent"},
                 rx : Results \cup {"empty"}]
<1>1. /\ id \in DOMAIN pending
      /\ pending' = Unrouted(pending, {id})
      /\ call' = [p \in Objects |-> Answered(p, id, r)]
      /\ reply' = [reply EXCEPT ![id] = r]
      /\ UNCHANGED <<q, closed, next, ignored, ended, written, cancelled, outcome>>
  BY DEF Response
<1>2. /\ TypeOK /\ CallsAreDistinct /\ RoutedExactly /\ HistoriesFit /\ ReplyReachesItsCall
      /\ QueuesFit /\ CancelsFit
  BY DEF IndInv
<1>3. o \in Objects /\ call[o].id = id /\ call[o].rx = "empty" /\ id # 0
  BY <1>1, <1>2 DEF RoutedExactly, TypeOK, Ids
<1>4. \A p \in Objects : p # o => call[p].id # id
  BY <1>2, <1>3 DEF CallsAreDistinct
<1>5. PICK c : c = [call[o] EXCEPT !.rx = r]
  OBVIOUS
<1>6. c \in R /\ c.id = id /\ c.pc = call[o].pc /\ c.rx = r
  <2>1. call[o] \in R
    BY <1>2, <1>3 DEF TypeOK
  <2> QED BY <1>3, <1>5, <2>1
<1>7. call'[o] = c /\ \A p \in Objects : p # o => call'[p] = call[p]
  BY <1>1, <1>3, <1>4, <1>5 DEF Answered
<1>8. \A p \in Objects : call'[p].id = call[p].id /\ call'[p].pc = call[p].pc
  BY <1>3, <1>6, <1>7
<1>9. /\ DOMAIN pending' = DOMAIN pending \ {id}
      /\ \A i \in DOMAIN pending' : pending'[i] = pending[i] /\ i # id
  BY <1>1 DEF Unrouted
<1>10. reply'[id] = r /\ \A i \in Ids : i # id => reply'[i] = reply[i]
  BY <1>1, <1>2 DEF TypeOK
<1>11. r # "none" /\ r # "empty" /\ r # "TIMEOUT"
  BY DEF Results
<1> HIDE DEF o, R
<1>12. TypeOK'
  <2>1. call' \in [Objects -> R]
    <3>1. \A p \in Objects : call[p] \in R
      BY <1>2 DEF TypeOK, R
    <3>2. \A p \in Objects : call'[p] \in R
      BY <1>6, <1>7, <3>1
    <3>3. DOMAIN call' = Objects /\ call' = [p \in DOMAIN call' |-> call'[p]]
      BY <1>1
    <3> QED BY <3>2, <3>3
  <2>2. pending' \in [DOMAIN pending' -> Objects] /\ DOMAIN pending' \subseteq Ids
    BY <1>1, <1>2 DEF TypeOK, Unrouted
  <2>3. reply' \in [Ids -> Results \cup {"none"}]
    BY <1>1, <1>2 DEF TypeOK
  <2> QED BY <1>1, <1>2, <2>1, <2>2, <2>3 DEF TypeOK, R
<1>13. CallsAreDistinct'
  <2>1. \A p \in Objects : call'[p] = NoCall \/ (call'[p].id \in 1..next' /\ call'[p].pc \in {"sending", "sent"})
    BY <1>1, <1>2, <1>3, <1>7, <1>8 DEF CallsAreDistinct, NoCall
  <2>2. \A p \in ended' : call'[p] = NoCall
    BY <1>1, <1>2, <1>3, <1>7 DEF CallsAreDistinct, TypeOK, NoCall
  <2> QED BY <1>2, <1>8, <2>1, <2>2 DEF CallsAreDistinct
<1>14. RoutedExactly'
  <2>1. ASSUME NEW i \in DOMAIN pending'
        PROVE  call'[pending'[i]].id = i /\ call'[pending'[i]].rx = "empty"
    <3>1. /\ pending'[i] = pending[i] /\ i # id /\ i \in DOMAIN pending
          /\ pending[i] \in Objects /\ call[pending[i]].id = i /\ call[pending[i]].rx = "empty"
      BY <1>2, <1>9, <2>1 DEF RoutedExactly, TypeOK
    <3> QED BY <1>3, <1>7, <3>1
  <2>2. ASSUME NEW p \in Objects, call'[p].id # 0, call'[p].rx = "empty"
        PROVE  call'[p].id \in DOMAIN pending'
    <3>1. p # o /\ call'[p] = call[p]
      BY <1>6, <1>7, <1>11, <2>2
    <3> QED BY <1>2, <1>4, <1>9, <2>2, <3>1 DEF RoutedExactly
  <2> QED BY <2>1, <2>2 DEF RoutedExactly
<1>15. HistoriesFit'
  <2>1. \A i \in Ids : i > next' \/ i \in DOMAIN pending' => reply'[i] = "none"
    <3>1. ~(id > next')
      BY <1>1, <1>2, <1>3, HostAssumption DEF CallsAreDistinct, TypeOK, NoCall, HostAssumption
    <3> QED BY <1>1, <1>2, <1>9, <1>10, <3>1 DEF HistoriesFit
  <2>2. ASSUME NEW p \in Objects, call'[p].rx # "empty"
        PROVE  reply'[call'[p].id] = call'[p].rx
    <3>1. CASE p = o
      BY <1>6, <1>7, <1>10, <3>1
    <3>2. CASE p # o
      <4>1. call'[p] = call[p] /\ call[p].id # id /\ call[p].id \in Ids
        BY <1>4, <1>7, <2>2, <3>2, CallTyped
      <4> QED BY <1>2, <1>10, <2>2, <4>1 DEF HistoriesFit
    <3> QED BY <3>1, <3>2
  <2>3. \A i \in Ids : i > next' => outcome'[i] = "none"
    BY <1>1, <1>2 DEF HistoriesFit
  <2>4. \A p \in Objects : call'[p].id # 0 => outcome'[call'[p].id] = "none"
    BY <1>1, <1>2, <1>8 DEF HistoriesFit
  <2>5. \A p \in Objects : call'[p].pc = "sending" => call'[p].id \notin written'
    BY <1>1, <1>2, <1>8 DEF HistoriesFit
  <2>6. written' \subseteq 1..next'
    BY <1>1, <1>2 DEF HistoriesFit
  <2> QED BY <2>1, <2>2, <2>3, <2>4, <2>5, <2>6 DEF HistoriesFit
<1>16. ReplyReachesItsCall'
  <2>1. outcome[id] = "none"
    BY <1>2, <1>3 DEF HistoriesFit
  <2> QED BY <1>1, <1>2, <1>10, <2>1 DEF ReplyReachesItsCall, Results
<1>17. QueuesFit'
  BY <1>1, <1>2, <1>8 DEF QueuesFit, FramesFit
<1>18. CancelsFit'
  <2>1. ASSUME NEW i \in Dead PROVE i \in Dead'
    <3>1. i # id
      BY <1>3 DEF Dead
    <3>2. i \in Ids
      BY <1>2, HostAssumption DEF Dead, Ids, TypeOK, HostAssumption
    <3> QED BY <1>1, <1>8, <1>10, <3>1, <3>2 DEF Dead
  <2> QED BY <1>1, <1>2, <2>1 DEF CancelsFit, CancelsFor
<1> QED BY <1>12, <1>13, <1>14, <1>15, <1>16, <1>17, <1>18 DEF IndInv

\* No notification is due when no call is routed to the object.
LEMMA CancelNothing ==
  ASSUME NEW x, NEW ids, ids = {}
  PROVE  CancelObject(x, ids) = x
<1> DEFINE rhs(g) == [s \in SUBSET ids |->
                       IF s = {} THEN x
                       ELSE LET e == CHOOSE e \in s : TRUE
                            IN  TryControl(g[s \ {e}], CancelFrame(e))]
<1>1. CancelObject(x, ids) = (CHOOSE g : g = rhs(g))[ids]
  BY DEF CancelObject, FoldSet, MapThenFoldSet
<1>2. \E g : g = rhs(g)
  <2>1. PICK g : g = [s \in SUBSET ids |-> x]
    OBVIOUS
  <2>2. g = rhs(g)
    BY <2>1
  <2> QED BY <2>2
<1>3. PICK g : g = rhs(g) /\ g = (CHOOSE h : h = rhs(h))
  BY <1>2
<1>4. g[ids] = x
  BY <1>3
<1> QED BY <1>1, <1>3, <1>4

\* Steps that leave the calls alone: what the queues hold still fits.
LEMMA OutboxStepOK ==
  ASSUME IndInv,
         UNCHANGED <<next, pending, call, reply, outcome>>,
         closed' \in BOOLEAN, ignored' \in 0..IGNORED_MAX,
         ended' \subseteq Objects,
         \A p \in ended' : call[p] = NoCall /\ FramesOf(q', p) = <<>>,
         Shaped(q'),
         \A p \in Objects : FramesFit(FramesOf(q', p), call[p]),
         CancelsFor(q'.control, Dead \ cancelled'), cancelled' \subseteq Dead,
         \A id \in written' :
           id \in written \/ \E p \in Objects : call[p].id = id /\ id # 0 /\ call[p].pc = "sent"
  PROVE  IndInv'
<1>1. /\ TypeOK /\ CallsAreDistinct /\ RoutedExactly /\ HistoriesFit /\ ReplyReachesItsCall
      /\ QueuesFit /\ CancelsFit
  BY DEF IndInv
<1>2. Dead' = Dead
  BY DEF Dead
<1>3. Dead \subseteq Ids
  BY <1>1, HostAssumption DEF Dead, Ids, TypeOK, HostAssumption
<1>4. \A id \in written' : id \in written \/ (id \in 1..next /\ id \in Ids)
  BY CallTyped, <1>1 DEF CallsAreDistinct, NoCall
<1>5. TypeOK'
  <2>1. written' \subseteq Ids /\ cancelled' \subseteq Ids
    BY <1>1, <1>3, <1>4 DEF TypeOK
  <2> QED BY <1>1, <2>1 DEF TypeOK
<1>6. CallsAreDistinct' /\ RoutedExactly'
  BY <1>1 DEF CallsAreDistinct, RoutedExactly
<1>7. HistoriesFit'
  <2>1. written' \subseteq 1..next'
    BY <1>1, <1>4 DEF HistoriesFit
  <2>2. ASSUME NEW p \in Objects, call[p].pc = "sending", call[p].id \in written' PROVE FALSE
    <3>1. call[p].id \notin written
      BY <1>1, <2>2 DEF HistoriesFit
    <3>2. PICK m \in Objects : call[m].id = call[p].id /\ call[m].id # 0 /\ call[m].pc = "sent"
      BY <2>2, <3>1
    <3> QED BY <1>1, <2>2, <3>2 DEF CallsAreDistinct
  <2> QED BY <1>1, <2>1, <2>2 DEF HistoriesFit
<1>8. ReplyReachesItsCall'
  <2>1. ASSUME NEW id \in Ids, outcome[id] = "TIMEOUT", id \in written' PROVE id \in written
    BY <1>1, <2>1 DEF HistoriesFit
  <2> QED BY <1>1, <2>1 DEF ReplyReachesItsCall
<1>9. QueuesFit' /\ CancelsFit'
  BY <1>2 DEF QueuesFit, CancelsFit
<1> QED BY <1>5, <1>6, <1>7, <1>8, <1>9 DEF IndInv

\* The end of a task: the guard of its call has already taken the only entry
\* of the table that was routed to it, so cancel_object() finds none.
LEMMA ObjectEndOK ==
  ASSUME IndInv, NEW o \in Objects, ObjectEnd(o)
  PROVE  IndInv'
<1> DEFINE c == call[o]
           x == IF c = NoCall THEN q ELSE DropGuard(q, o, c)
           p == Unrouted(pending, {c.id})
           y == RemoveObject(x, o)
           E == IF c = NoCall THEN Dead \ cancelled
                ELSE (Dead \ cancelled) \cup Waiting(o)
<1>1. /\ TypeOK /\ CallsAreDistinct /\ RoutedExactly /\ QueuesFit /\ CancelsFit
  BY DEF IndInv
<1>2. RoutedTo(p, o) = {}
  <2> SUFFICES ASSUME NEW id \in DOMAIN pending, id # c.id, pending[id] = o PROVE FALSE
    BY DEF RoutedTo, Unrouted
  <2> QED BY <1>1 DEF RoutedExactly
<1>3. /\ o \notin ended /\ ended' = ended \cup {o}
      /\ q' = TryControl(y, OtherFrame)
      /\ pending' = p
      /\ call' = [call EXCEPT ![o] = NoCall]
      /\ outcome' = IF c = NoCall THEN outcome ELSE [outcome EXCEPT ![c.id] = "dropped"]
      /\ UNCHANGED <<closed, next, ignored, written, cancelled, reply>>
  <2>1. CancelObject(x, RoutedTo(p, o)) = x
    BY <1>2, CancelNothing
  <2>2. Unrouted(p, RoutedTo(p, o)) = p
    BY <1>2 DEF Unrouted
  <2> QED BY <2>1, <2>2 DEF ObjectEnd
<1>4. OtherFrame \in ControlFrame
  BY FrameTypes
<1>5. Shaped(x) /\ CancelsFor(x.control, E) /\ \A m \in Objects : m # o => FramesOf(x, m) = FramesOf(q, m)
  <2>1. CASE c = NoCall
    BY <1>1, <2>1 DEF QueuesFit, CancelsFit
  <2>2. CASE c # NoCall
    BY <2>2, DropGuardOK DEF Replaces
  <2> QED BY <2>1, <2>2
<1> HIDE DEF x, y, E
<1>6. Shaped(y) /\ Replaces(x, y, o, <<>>) /\ y.control = x.control
  BY <1>5, RemoveObjectOK DEF y
<1>7. /\ Shaped(q') /\ \A m : FramesOf(q', m) = FramesOf(y, m)
      /\ q'.control \in {x.control, Append(x.control, OtherFrame)}
  BY <1>3, <1>4, <1>6, TryControlOK
<1>8. CancelsFor(q'.control, E)
  <2>1. x.control \in Seq(ControlFrame)
    BY <1>5 DEF Shaped
  <2>2. CancelsFor(Append(x.control, OtherFrame), E)
    BY <1>4, <1>5, <2>1, CancelJoins
  <2> QED BY <1>5, <1>7, <2>2
<1>9. FramesOf(q', o) = <<>> /\ \A m \in Objects : m # o => FramesOf(q', m) = FramesOf(q, m)
  BY <1>5, <1>6, <1>7 DEF Replaces
<1>10. CASE c = NoCall
  <2>1. UNCHANGED <<call, outcome>>
    BY <1>1, <1>3, <1>10 DEF TypeOK
  <2>2. pending' = pending
    <3>1. 0 \notin DOMAIN pending /\ c.id = 0
      BY <1>1, <1>10 DEF TypeOK, Ids, NoCall
    <3> QED BY <1>1, <1>3, <3>1 DEF Unrouted, TypeOK
  <2>3. \A m \in ended' : call[m] = NoCall /\ FramesOf(q', m) = <<>>
    BY <1>1, <1>3, <1>9, <1>10 DEF CallsAreDistinct, QueuesFit, TypeOK
  <2>4. \A m \in Objects : FramesFit(FramesOf(q', m), call[m])
    BY <1>1, <1>9 DEF QueuesFit, FramesFit
  <2>5. CancelsFor(q'.control, Dead \ cancelled') /\ cancelled' \subseteq Dead
    BY <1>1, <1>3, <1>8, <1>10 DEF E, CancelsFit
  <2>6. ended' \subseteq Objects /\ closed' \in BOOLEAN /\ ignored' \in 0..IGNORED_MAX
    BY <1>1, <1>3 DEF TypeOK
  <2> QED BY <1>3, <1>7, <2>1, <2>2, <2>3, <2>4, <2>5, <2>6, OutboxStepOK
<1>11. CASE c # NoCall
  <2>1. /\ CancelsFor(q'.control, (Dead \ cancelled) \cup Waiting(o))
        /\ outcome' = [outcome EXCEPT ![call[o].id] = "dropped"]
    BY <1>3, <1>8, <1>11 DEF E
  <2>2. \A s : s = <<>> => Replaces(q, q', o, s) /\ Clean(s)
    BY <1>9 DEF Replaces, Clean
  <2>3. \A s, r : s = <<>> /\ r = "dropped" =>
          /\ r \in Results \cup {"TIMEOUT", "CLOSED", "dropped"} /\ r \notin Results /\ r # "TIMEOUT"
          /\ ended' = ended \cup {o} /\ s = <<>>
    BY <1>3 DEF Results
  <2> QED BY <1>3, <1>7, <1>11, <2>1, <2>2, <2>3, EndCallOK
<1> QED BY <1>10, <1>11

\* Logs and other control frames.
LEMMA SendersOK ==
  ASSUME IndInv, (\E o \in Objects : Log(o)) \/ OtherControl
  PROVE  IndInv'
<1>1. /\ TypeOK /\ CallsAreDistinct /\ HistoriesFit /\ QueuesFit /\ CancelsFit /\ Shaped(q)
  BY DEF IndInv, QueuesFit
<1>2. UNCHANGED <<closed, next, pending, ignored, call, ended, written, cancelled, reply, outcome>>
  BY DEF Log, OtherControl
<1>3. CASE \E o \in Objects : Log(o)
  <2>1. PICK o \in Objects : o \notin ended /\ call[o] = NoCall /\ q' = PushData(q, o, LogFrame)
    BY <1>3 DEF Log
  <2>2. LogFrame \in DataFrame /\ LogFrame.req = 0
    BY FrameTypes
  <2>3. /\ Shaped(q') /\ Replaces(q, q', o, Append(FramesOf(q, o), LogFrame))
        /\ q'.control = q.control
    BY <1>1, <2>1, <2>2, PushDataOK
  <2>4. FramesFit(Append(FramesOf(q, o), LogFrame), call[o])
    BY <1>1, <2>1, <2>2, FramesShape, FitIsClean, RequestFits DEF QueuesFit, NoCall
  <2>5. \A p \in Objects : FramesFit(FramesOf(q', p), call[p])
    BY <1>1, <2>3, <2>4 DEF Replaces, QueuesFit
  <2>6. \A p \in ended' : call[p] = NoCall /\ FramesOf(q', p) = <<>>
    BY <1>1, <1>2, <2>1, <2>3 DEF Replaces, QueuesFit, CallsAreDistinct, TypeOK
  <2> QED BY <1>1, <1>2, <2>3, <2>5, <2>6, OutboxStepOK DEF TypeOK, CancelsFit
<1>4. CASE OtherControl
  <2>1. OtherFrame \in ControlFrame /\ q.control \in Seq(ControlFrame)
    BY <1>1, FrameTypes DEF Shaped
  <2>2. /\ Shaped(q') /\ \A p : FramesOf(q', p) = FramesOf(q, p)
        /\ q'.control = Append(q.control, OtherFrame)
    BY <1>1, <1>4, <2>1, PushControlOK DEF OtherControl
  <2>3. CancelsFor(q'.control, Dead \ cancelled)
    <3> DEFINE D == Dead \ cancelled
    <3>1. CancelsFor(q.control, D)
      BY <1>1 DEF CancelsFit
    <3> HIDE DEF D
    <3>2. CancelsFor(q'.control, D)
      BY <2>1, <2>2, <3>1, CancelJoins
    <3> QED BY <3>2 DEF D
  <2> QED BY <1>1, <1>2, <2>2, <2>3, OutboxStepOK DEF TypeOK, CancelsFit, QueuesFit, CallsAreDistinct
<1> QED BY <1>3, <1>4

\* The writer puts the oldest cancellation, or the oldest frame of the next
\* object, on the wire.
LEMMA WriterOK ==
  ASSUME IndInv, WriteControl \/ WriteData
  PROVE  IndInv'
<1>1. /\ TypeOK /\ CallsAreDistinct /\ HistoriesFit /\ QueuesFit /\ CancelsFit /\ Shaped(q)
  BY DEF IndInv, QueuesFit
<1>2. UNCHANGED <<closed, next, pending, ignored, call, ended, reply, outcome>>
  BY DEF WriteControl, WriteData
<1>3. CASE WriteControl
  <2> DEFINE h == Head(q.control)
             D == Dead \ cancelled
  <2>1. q.control # <<>> /\ q' = PopControl(q) /\ cancelled' = cancelled \cup ({h.id} \ {0})
        /\ written' = written
    BY <1>3 DEF WriteControl, TakesControl
  <2>2. Shaped(q') /\ (\A p : FramesOf(q', p) = FramesOf(q, p)) /\ q'.control = Tail(q.control)
    BY <1>1, <2>1, PopControlOK
  <2>3. q.control \in Seq(ControlFrame) /\ CancelsFor(q.control, D) /\ cancelled \subseteq Dead
    BY <1>1 DEF Shaped, CancelsFit
  <2>4. /\ h \in ControlFrame /\ (h # OtherFrame => h.id \in D)
        /\ CancelsFor(Tail(q.control), D \ ({h.id} \ {0}))
    <3> HIDE DEF D
    <3> QED BY <2>1, <2>3, CancelLeaves
  <2>5. h.id # 0 => h.id \in D
    BY <2>4 DEF OtherFrame
  <2>6. cancelled' \subseteq Dead
    BY <2>1, <2>3, <2>5
  <2>7. D \ ({h.id} \ {0}) = Dead \ cancelled'
    BY <2>1
  <2> HIDE DEF h, D
  <2>8. CancelsFor(q'.control, Dead \ cancelled')
    BY <2>2, <2>4, <2>7
  <2> QED BY <1>1, <1>2, <2>1, <2>2, <2>6, <2>8, OutboxStepOK DEF TypeOK, QueuesFit, CallsAreDistinct
<1>4. CASE WriteData
  <2> DEFINE o == Head(q.ready)
             s == FramesOf(q, o)
  <2>1. /\ q.ready # <<>> /\ q' = PopData(q) /\ cancelled' = cancelled
        /\ written' = written \cup ({Head(q.data[o]).req} \ {0})
    BY <1>4 DEF WriteData, TakesData
  <2>2. /\ o \in Objects /\ q.data[o] = s /\ s # <<>>
        /\ Shaped(q') /\ Replaces(q, q', o, Tail(s)) /\ q'.control = q.control
    BY <1>1, <2>1, PopDataOK
  <2>3. s \in Seq(DataFrame) /\ FramesFit(s, call[o])
    BY <1>1, <2>2, FramesShape DEF QueuesFit
  <2>4. Head(s).req # 0 => Head(s).req = call[o].id /\ call[o].pc = "sent"
    <3>1. 1 \in 1..Len(s) /\ Head(s) = s[1]
      BY <2>2, <2>3
    <3> QED BY <2>3, <3>1 DEF FramesFit
  <2> HIDE DEF o, s
  <2>5. \A id \in written' :
          id \in written \/ \E p \in Objects : call[p].id = id /\ id # 0 /\ call[p].pc = "sent"
    BY <2>1, <2>2, <2>4
  <2>6. \A p \in Objects : FramesFit(FramesOf(q', p), call[p])
    <3>1. FramesFit(Tail(s), call[o])
      BY <2>2, <2>3, TailFits
    <3> QED BY <1>1, <2>2, <3>1 DEF Replaces, QueuesFit
  <2>7. \A p \in ended' : call[p] = NoCall /\ FramesOf(q', p) = <<>>
    <3>1. o \notin ended
      BY <1>1, <2>2 DEF QueuesFit, s
    <3> QED BY <1>1, <1>2, <2>2, <3>1 DEF Replaces, QueuesFit, CallsAreDistinct, TypeOK
  <2> QED BY <1>1, <1>2, <2>1, <2>2, <2>5, <2>6, <2>7, OutboxStepOK DEF TypeOK, CancelsFit
<1> QED BY <1>3, <1>4

\* The end of the session, and replies that nobody waits for.
LEMMA QuietOK ==
  ASSUME IndInv, Close \/ ResponseIgnored \/ UNCHANGED hvars
  PROVE  IndInv'
<1>1. UNCHANGED <<q, next, pending, call, ended, written, cancelled, reply, outcome>>
  BY DEF Close, ResponseIgnored, hvars
<1>2. closed' \in BOOLEAN /\ ignored' \in 0..IGNORED_MAX
  <2>1. ignored \in 0..IGNORED_MAX /\ closed \in BOOLEAN /\ IGNORED_MAX \in Nat
    BY HostAssumption DEF IndInv, TypeOK, HostAssumption
  <2>2. ignored' \in 0..IGNORED_MAX
    <3>1. ignored' = ignored \/ ignored' = IF ignored < IGNORED_MAX THEN ignored + 1 ELSE ignored
      BY DEF Close, ResponseIgnored, hvars
    <3> QED BY <2>1, <3>1
  <2>3. closed' \in BOOLEAN
    BY <2>1 DEF Close, ResponseIgnored, hvars
  <2> QED BY <2>2, <2>3
<1> QED BY <1>1, <1>2, OutboxStepOK
   DEF IndInv, TypeOK, QueuesFit, CancelsFit, CallsAreDistinct

\* The invariant holds before the first call.
LEMMA InitIndInv == Init => IndInv
<1> SUFFICES ASSUME Init PROVE IndInv
  OBVIOUS
<1>1. /\ q = EmptyQueues /\ q.control = <<>> /\ q.ready = <<>> /\ q.data = <<>>
      /\ DOMAIN q = {"control", "data", "ready", "bytes", "burst"}
      /\ DOMAIN pending = {} /\ pending = <<>>
      /\ \A o \in Objects : call[o] = NoCall
  BY DEF Init, EmptyQueues
<1>2. Shaped(q)
  <2>1. ReadyMatchesData(q)
    BY <1>1 DEF ReadyMatchesData, IsInjective, ToSet
  <2> QED BY <1>1, <2>1 DEF Shaped
<1>3. TypeOK
  <2>1. next \in 0..MAX_SERIAL /\ ignored \in 0..IGNORED_MAX /\ closed \in BOOLEAN
    <3>1. MAX_SERIAL \in Nat /\ IGNORED_MAX \in Nat
      BY HostAssumption DEF HostAssumption
    <3>2. next = 0 /\ ignored = 0 /\ closed = FALSE
      BY DEF Init
    <3>3. next \in 0..MAX_SERIAL
      BY <3>1, <3>2
    <3>4. ignored \in 0..IGNORED_MAX
      BY <3>1, <3>2
    <3> QED BY <3>2, <3>3, <3>4
  <2>2. call \in [Objects -> [id : 0..MAX_SERIAL, pc : {"none", "sending", "sent"},
                             rx : Results \cup {"empty"}]]
    <3>1. NoCall \in [id : 0..MAX_SERIAL, pc : {"none", "sending", "sent"},
                     rx : Results \cup {"empty"}]
      BY HostAssumption DEF NoCall, HostAssumption
    <3> QED BY <3>1 DEF Init
  <2>3. reply \in [Ids -> Results \cup {"none"}]
    BY DEF Init
  <2>4. outcome \in [Ids -> Results \cup {"none", "TIMEOUT", "CLOSED", "dropped"}]
    BY DEF Init
  <2> QED BY <1>1, <2>1, <2>2, <2>3, <2>4 DEF TypeOK, Init
<1>4. CallsAreDistinct /\ RoutedExactly /\ HistoriesFit
  BY <1>1 DEF CallsAreDistinct, RoutedExactly, HistoriesFit, NoCall, Init
<1>5. ReplyReachesItsCall
  BY DEF ReplyReachesItsCall, Init, Results
<1>6. QueuesFit
  BY <1>1, <1>2 DEF QueuesFit, FramesOf, FramesFit, Init
<1>7. CancelsFit
  BY <1>1 DEF CancelsFit, CancelsFor, Init
<1> QED BY <1>3, <1>4, <1>5, <1>6, <1>7 DEF IndInv

\* Every step keeps the invariant.
LEMMA NextIndInv == IndInv /\ [Next]_hvars => IndInv'
<1> SUFFICES ASSUME IndInv, [Next]_hvars PROVE IndInv'
  OBVIOUS
<1>1. ASSUME NEW o \in Objects, CallStart(o) PROVE IndInv'
  BY <1>1, CallRefusedOK, CallRoutedOK
<1>2. ASSUME NEW o \in Objects, CallSend(o) PROVE IndInv'
  BY <1>2, CallReturnsOK, CallSendAnsweredOK, CallSendOK
<1>3. ASSUME NEW o \in Objects, CallAnswer(o) \/ CallTimeout(o) PROVE IndInv'
  BY <1>3, CallReturnsOK
<1>4. ASSUME NEW o \in Objects, ObjectEnd(o) PROVE IndInv'
  BY <1>4, ObjectEndOK
<1>5. ASSUME NEW id \in Ids, NEW r \in Results, Response(id, r) PROVE IndInv'
  BY <1>5, ResponseOK
<1>6. ASSUME (\E o \in Objects : Log(o)) \/ OtherControl PROVE IndInv'
  BY <1>6, SendersOK
<1>7. ASSUME WriteControl \/ WriteData PROVE IndInv'
  BY <1>7, WriterOK
<1>8. ASSUME Close \/ ResponseIgnored \/ UNCHANGED hvars PROVE IndInv'
  BY <1>8, QuietOK
<1> QED BY <1>1, <1>2, <1>3, <1>4, <1>5, <1>6, <1>7, <1>8 DEF Next

\* The inductive invariant holds in every reachable state.
THEOREM InductiveInvariant == Spec => []IndInv
BY InitIndInv, NextIndInv, PTL DEF Spec

-----------------------------------------------------------------------------
(* What follows.                                                           *)

\* The routing table neither leaks an entry nor loses one: however a call
\* ends, and whatever the embedder replies, its ids are those of the calls in
\* progress without an answer.
THEOREM TableIsExact == Spec => []PendingIsExact
<1>1. ASSUME IndInv PROVE PendingIsExact
  <2>1. TypeOK /\ CallsAreDistinct /\ RoutedExactly
    BY <1>1 DEF IndInv
  <2>2. ASSUME NEW id \in DOMAIN pending
        PROVE  \E o \in Objects : call[o].id = id /\ call[o].rx = "empty" /\ pending[id] = o
    BY <2>1 DEF TypeOK, RoutedExactly
  <2>3. ASSUME NEW id \in Ids, NEW o \in Objects, call[o].id = id, call[o].rx = "empty"
        PROVE  id \in DOMAIN pending
    <3>1. id # 0
      BY DEF Ids
    <3> QED BY <2>1, <2>3, <3>1 DEF RoutedExactly
  <2> QED BY <2>1, <2>2, <2>3 DEF PendingIsExact
<1> QED BY <1>1, InductiveInvariant, PTL

\* A request in the queues is the only one of its call.
LEMMA QueuedIsLive ==
  ASSUME IndInv, NEW id \in Ids, Queued(id)
  PROVE  id \in CallIds /\ Cardinality(Carriers(id)) = 1
<1>1. QueuesFit /\ CallsAreDistinct /\ Shaped(q)
  BY DEF IndInv, QueuesFit
<1>2. ASSUME NEW e \in Carriers(id)
      PROVE  \E o \in Objects : \E i \in 1..Len(FramesOf(q, o)) :
               e = <<o, i>> /\ FramesOf(q, o)[i].req = id /\ call[o].id = id
  <2>1. PICK o \in DOMAIN q.data : e \in {<<o, i>> : i \in {j \in DOMAIN q.data[o] : q.data[o][j].req = id}}
    BY DEF Carriers
  <2>2. PICK i \in DOMAIN q.data[o] : q.data[o][i].req = id /\ e = <<o, i>>
    BY <2>1
  <2>3. o \in Objects /\ FramesOf(q, o) = q.data[o] /\ q.data[o] \in Seq(DataFrame)
    BY <1>1 DEF Shaped, FramesOf
  <2>4. i \in 1..Len(FramesOf(q, o)) /\ FramesOf(q, o)[i].req # 0
    BY <2>2, <2>3 DEF Ids
  <2>5. call[o].id = id
    BY <1>1, <2>2, <2>3, <2>4 DEF QueuesFit, FramesFit
  <2> QED BY <2>2, <2>3, <2>4, <2>5
<1>3. PICK e : e \in Carriers(id)
  BY DEF Queued
<1>4. PICK o \in Objects : \E i \in 1..Len(FramesOf(q, o)) :
        e = <<o, i>> /\ FramesOf(q, o)[i].req = id /\ call[o].id = id
  BY <1>2, <1>3
<1>5. PICK i \in 1..Len(FramesOf(q, o)) : e = <<o, i>> /\ FramesOf(q, o)[i].req = id
  BY <1>4
<1>6. ASSUME NEW f \in Carriers(id) PROVE f = e
  <2>1. PICK p \in Objects : \E j \in 1..Len(FramesOf(q, p)) :
          f = <<p, j>> /\ FramesOf(q, p)[j].req = id /\ call[p].id = id
    BY <1>2
  <2>2. id # 0
    BY DEF Ids
  <2>3. p = o
    BY <1>1, <1>4, <2>1, <2>2 DEF CallsAreDistinct
  <2>4. PICK j \in 1..Len(FramesOf(q, o)) : f = <<o, j>> /\ FramesOf(q, o)[j].req = id
    BY <2>1, <2>3
  <2>5. j = i
    BY <1>1, <1>5, <2>2, <2>4 DEF QueuesFit, FramesFit
  <2> QED BY <1>5, <2>4, <2>5
<1>7. Carriers(id) = {e}
  BY <1>3, <1>6
<1>8. id \in CallIds
  BY <1>4 DEF CallIds, Ids
<1> QED BY <1>7, <1>8, FS_Singleton

\* Nothing waits in the outbox to be executed in vain, whatever answers,
\* timeouts and ends of objects came between the call and the writer.
THEOREM NothingIsQueuedInVain == Spec => []NothingOutlivesItsOwner
<1>1. ASSUME IndInv PROVE NothingOutlivesItsOwner
  <2>1. ended \cap DOMAIN q.data = {}
    BY <1>1 DEF IndInv, QueuesFit, Shaped, ReadyMatchesData, FramesOf
  <2> QED BY <1>1, <2>1, QueuedIsLive DEF NothingOutlivesItsOwner
<1> QED BY <1>1, InductiveInvariant, PTL

\* A cancellation is never announced twice, never for a call that goes on or
\* was answered, and never ahead of the request it cancels.
THEOREM CancellationsAreTruthful == Spec => []CancelIsTruthful
<1>1. ASSUME IndInv, NEW id \in Ids, CancelIssued(id)
      PROVE  /\ id \notin cancelled \/ CancelPositions(id) = {}
             /\ Cardinality(CancelPositions(id)) <= 1
             /\ id \notin CallIds
             /\ reply[id] = "none"
             /\ ~Queued(id)
  <2>1. CancelsFit /\ q.control \in Seq(ControlFrame)
    BY <1>1 DEF IndInv, QueuesFit, Shaped
  <2>2. ASSUME NEW i \in CancelPositions(id) PROVE id \in Dead \ cancelled
    <3>1. i \in 1..Len(q.control) /\ q.control[i] # OtherFrame /\ q.control[i].id = id
      BY <2>1 DEF CancelPositions, CancelFrame, OtherFrame
    <3> QED BY <2>1, <3>1 DEF CancelsFit, CancelsFor
  <2>3. id \in Dead
    BY <1>1, <2>1, <2>2 DEF CancelIssued, CancelsFit
  <2>4. id \notin CallIds /\ reply[id] = "none"
    BY <2>3 DEF Dead, CallIds
  <2>5. ~Queued(id)
    BY <1>1, <2>4, QueuedIsLive
  <2>6. ASSUME NEW i \in CancelPositions(id), NEW j \in CancelPositions(id) PROVE i = j
    <3>1. /\ i \in 1..Len(q.control) /\ j \in 1..Len(q.control)
          /\ q.control[i] # OtherFrame /\ q.control[i] = q.control[j]
      BY <2>1 DEF CancelPositions, CancelFrame, OtherFrame
    <3> QED BY <2>1, <3>1 DEF CancelsFit, CancelsFor
  <2>7. Cardinality(CancelPositions(id)) <= 1
    <3>1. CASE CancelPositions(id) = {}
      BY <3>1, FS_EmptySet
    <3>2. CASE CancelPositions(id) # {}
      <4>1. PICK i : CancelPositions(id) = {i}
        BY <2>6, <3>2
      <4> QED BY <4>1, FS_Singleton
    <3> QED BY <3>1, <3>2
  <2> QED BY <2>2, <2>4, <2>5, <2>7
<1>2. IndInv => CancelIsTruthful
  BY <1>1 DEF CancelIsTruthful
<1> QED BY <1>2, InductiveInvariant, PTL

\* A guest receives the reply to its own call and to no other, and a call
\* that times out after its request was written had no accepted reply.
THEOREM RepliesReachTheirCalls == Spec => []ReplyReachesItsCall
<1>1. IndInv => ReplyReachesItsCall
  BY DEF IndInv
<1> QED BY <1>1, InductiveInvariant, PTL
-----------------------------------------------------------------------------
(* The protocol that the calls implement.                                  *)

OpenIds == [o \in Objects |-> call[o].id]

\* The actions of the protocol, in the state of this module.
LEMMA ProtocolSteps ==
  /\ \A o \in Objects :
       /\ o \notin ended /\ OpenIds[o] = 0 /\ next < MAX_SERIAL /\ next' = next + 1
       /\ UNCHANGED <<ended, written, cancelled, reply>>
       /\ \/ OpenIds' = [OpenIds EXCEPT ![o] = next + 1] /\ outcome' = outcome
          \/ OpenIds' = OpenIds /\ outcome' = [id \in Ids |-> IF id = next + 1 THEN "CLOSED" ELSE outcome[id]]
       => Protocol!Begin(o)
  /\ \A r : \A o \in Objects :
       /\ OpenIds[o] # 0
       /\ \/ r \in Results /\ reply[OpenIds[o]] = r
          \/ r = "TIMEOUT" /\ (OpenIds[o] \in written => reply[OpenIds[o]] = "none")
          \/ r = "CLOSED" /\ OpenIds[o] \notin written
       /\ OpenIds' = [OpenIds EXCEPT ![o] = 0]
       /\ outcome' = [id \in Ids |-> IF id = OpenIds[o] THEN r ELSE outcome[id]]
       /\ UNCHANGED <<next, ended, written, cancelled, reply>>
       => Protocol!Finish(o, r)
  /\ \A o \in Objects :
       /\ o \notin ended /\ ended' = ended \cup {o}
       /\ OpenIds' = [OpenIds EXCEPT ![o] = 0]
       /\ outcome' = [id \in Ids |-> IF id = OpenIds[o] THEN "dropped" ELSE outcome[id]]
       /\ UNCHANGED <<next, written, cancelled, reply>>
       => Protocol!End(o)
  /\ \A id, r : \A o \in Objects :
       /\ OpenIds[o] = id /\ id # 0
       /\ reply[id] = "none" /\ reply' = [reply EXCEPT ![id] = r]
       /\ OpenIds' = OpenIds
       /\ UNCHANGED <<next, ended, written, cancelled, outcome>>
       => Protocol!Accept(id, r)
  /\ \A id : \A o \in Objects :
       /\ OpenIds[o] = id /\ id # 0
       /\ written' = written \cup {id}
       /\ OpenIds' = OpenIds
       /\ UNCHANGED <<next, ended, cancelled, reply, outcome>>
       => Protocol!Ask(id)
  /\ \A id :
       /\ outcome[id] \in {"TIMEOUT", "dropped"} /\ reply[id] = "none" /\ id \notin cancelled
       /\ cancelled' = cancelled \cup {id}
       /\ OpenIds' = OpenIds
       /\ UNCHANGED <<next, ended, written, reply, outcome>>
       => Protocol!Withdraw(id)
<1>1. \A o \in Objects : OpenIds[o] # 0 => OpenIds[o] \in Protocol!Open
  BY DEF Protocol!Open, OpenIds
<1>2. Protocol!Ids = Ids
  BY DEF Protocol!Ids, Ids
<1> QED BY <1>1, <1>2
   DEF OpenIds, Protocol!Begin, Protocol!Finish, Protocol!End, Protocol!Accept, Protocol!Ask,
       Protocol!Withdraw, Protocol!Finished

\* A step that replaces the call of o opens or closes its id.
LEMMA OpensAfter ==
  ASSUME TypeOK, NEW o \in Objects, NEW c, call' = [call EXCEPT ![o] = c]
  PROVE  OpenIds' = [OpenIds EXCEPT ![o] = c.id]
BY DEF TypeOK, OpenIds

\* A step that leaves the calls and the histories alone is not seen.
LEMMA UnseenOK ==
  ASSUME UNCHANGED <<next, call, ended, written, cancelled, reply, outcome>>
  PROVE  UNCHANGED Protocol!prot
BY DEF Protocol!prot

\* A new call draws the next id, whatever its first poll finds.
LEMMA CallStartImplements ==
  ASSUME IndInv, NEW o \in Objects, CallStart(o)
  PROVE  Protocol!Begin(o)
<1> DEFINE id == next + 1
           a == [id |-> id, pc |-> "sending", rx |-> "empty"]
           b == [a EXCEPT !.pc = "sent"]
<1>1. /\ o \notin ended /\ call[o] = NoCall /\ next < MAX_SERIAL /\ next' = id /\ TypeOK
      /\ UNCHANGED <<ended, written, cancelled, reply>>
      /\ \/ call' = [call EXCEPT ![o] = a] /\ outcome' = outcome
         \/ call' = [call EXCEPT ![o] = b] /\ outcome' = outcome
         \/ call' = call /\ outcome' = [outcome EXCEPT ![id] = "CLOSED"]
  BY DEF CallStart, IndInv
<1>2. OpenIds[o] = 0 /\ a.id = id /\ b.id = id
  BY <1>1 DEF OpenIds, NoCall
<1>3. [outcome EXCEPT ![id] = "CLOSED"] = [i \in Ids |-> IF i = id THEN "CLOSED" ELSE outcome[i]]
  BY <1>1 DEF TypeOK
<1> HIDE DEF a, b
<1>4. \/ OpenIds' = [OpenIds EXCEPT ![o] = id] /\ outcome' = outcome
      \/ OpenIds' = OpenIds /\ outcome' = [i \in Ids |-> IF i = id THEN "CLOSED" ELSE outcome[i]]
  <2>1. CASE call' = call /\ outcome' = [outcome EXCEPT ![id] = "CLOSED"]
    BY <1>3, <2>1 DEF OpenIds
  <2>2. CASE call' = [call EXCEPT ![o] = a] /\ outcome' = outcome
    BY <1>1, <1>2, <2>2, OpensAfter
  <2>3. CASE call' = [call EXCEPT ![o] = b] /\ outcome' = outcome
    BY <1>1, <1>2, <2>3, OpensAfter
  <2> QED BY <1>1, <2>1, <2>2, <2>3
<1> QED BY <1>1, <1>2, <1>4, ProtocolSteps

\* The end of a call, whatever it returns.
LEMMA ReturnImplements ==
  ASSUME IndInv, NEW o \in Objects, call[o] # NoCall, NEW r,
         call' = [call EXCEPT ![o] = NoCall],
         outcome' = [outcome EXCEPT ![call[o].id] = r],
         \/ r \in Results /\ reply[call[o].id] = r
         \/ r = "TIMEOUT" /\ (call[o].id \in written => reply[call[o].id] = "none")
         \/ r = "CLOSED" /\ call[o].id \notin written,
         UNCHANGED <<next, ended, written, cancelled, reply>>
  PROVE  Protocol!Finish(o, r)
<1>1. OpenIds[o] = call[o].id /\ OpenIds[o] # 0 /\ TypeOK /\ NoCall.id = 0
  BY CallTyped DEF OpenIds, IndInv, NoCall
<1>2. OpenIds' = [OpenIds EXCEPT ![o] = 0]
  BY <1>1, OpensAfter
<1>3. outcome' = [id \in Ids |-> IF id = OpenIds[o] THEN r ELSE outcome[id]]
  BY <1>1 DEF TypeOK
<1>4. \/ r \in Results /\ reply[OpenIds[o]] = r
      \/ r = "TIMEOUT" /\ (OpenIds[o] \in written => reply[OpenIds[o]] = "none")
      \/ r = "CLOSED" /\ OpenIds[o] \notin written
  BY <1>1
<1> QED BY Zenon, <1>1, <1>2, <1>3, <1>4, ProtocolSteps

\* Every way a call comes back to its guest is one the protocol knows.
LEMMA CallEndsImplement ==
  ASSUME IndInv, NEW o \in Objects, CallSend(o) \/ CallAnswer(o) \/ CallTimeout(o)
  PROVE  \/ \E r \in Results \cup {"TIMEOUT", "CLOSED"} : Protocol!Finish(o, r)
         \/ UNCHANGED Protocol!prot
<1> DEFINE c == call[o]
<1>1. HistoriesFit /\ RoutedExactly /\ TypeOK
  BY DEF IndInv
<1>2. c # NoCall /\ c.id # 0 /\ c.id \in Ids /\ c.rx \in Results \cup {"empty"}
  BY CallTyped DEF CallSend, CallAnswer, CallTimeout, Ids
<1>3. UNCHANGED <<next, ended, written, cancelled, reply>>
  BY DEF CallSend, CallAnswer, CallTimeout
<1>4. c.rx # "empty" => c.rx \in Results /\ reply[c.id] = c.rx
  BY <1>1, <1>2 DEF HistoriesFit
<1>5. CASE /\ c.rx # "empty"
           /\ call' = [call EXCEPT ![o] = NoCall]
           /\ outcome' = [outcome EXCEPT ![c.id] = c.rx]
  <2>1. PICK r \in Results : r = c.rx
    BY <1>4, <1>5
  <2>2. Protocol!Finish(o, r)
    BY <1>2, <1>3, <1>4, <1>5, <2>1, ReturnImplements
  <2> QED BY <2>2
<1>6. CASE CallTimeout(o)
  <2>1. c.id \in written => reply[c.id] = "none"
    BY <1>1, <1>2, <1>6 DEF CallTimeout, HistoriesFit, RoutedExactly
  <2>2. Protocol!Finish(o, "TIMEOUT")
    BY <1>2, <1>3, <1>6, <2>1, ReturnImplements DEF CallTimeout, Return
  <2> QED BY <2>2
<1>7. CASE CallSend(o) /\ closed
  <2>1. c.id \notin written
    BY <1>1, <1>7 DEF CallSend, HistoriesFit
  <2>2. Protocol!Finish(o, "CLOSED")
    BY <1>2, <1>3, <1>7, <2>1, ReturnImplements DEF CallSend, Return
  <2> QED BY <2>2
<1>8. CASE CallSend(o) /\ ~closed /\ c.rx = "empty"
  <2> DEFINE d == [c EXCEPT !.pc = "sent"]
  <2>1. call' = [call EXCEPT ![o] = d] /\ outcome' = outcome
    BY <1>8 DEF CallSend
  <2>2. d.id = c.id
    BY <1>1 DEF TypeOK
  <2> HIDE DEF d
  <2>3. OpenIds' = OpenIds
    BY <1>1, <2>1, <2>2, OpensAfter DEF OpenIds
  <2> QED BY <1>3, <2>1, <2>3 DEF Protocol!prot, OpenIds
<1>9. CallSend(o) /\ ~closed /\ c.rx # "empty" =>
        call' = [call EXCEPT ![o] = NoCall] /\ outcome' = [outcome EXCEPT ![c.id] = c.rx]
  BY DEF CallSend
<1>10. CallAnswer(o) => /\ c.rx # "empty"
                        /\ call' = [call EXCEPT ![o] = NoCall]
                        /\ outcome' = [outcome EXCEPT ![c.id] = c.rx]
  BY DEF CallAnswer, Return
<1> QED BY <1>5, <1>6, <1>7, <1>8, <1>9, <1>10

\* The first reply to an open call is its answer.
LEMMA ResponseImplements ==
  ASSUME IndInv, NEW id \in Ids, NEW r \in Results, Response(id, r)
  PROVE  Protocol!Accept(id, r)
<1>1. TypeOK /\ RoutedExactly /\ HistoriesFit /\ id \in DOMAIN pending
  BY DEF IndInv, Response
<1>2. PICK o \in Objects : call[o].id = id
  BY <1>1 DEF RoutedExactly, TypeOK
<1>3. OpenIds[o] = id /\ id # 0
  BY <1>2 DEF OpenIds, Ids
<1>4. reply[id] = "none"
  BY <1>1 DEF HistoriesFit
<1>5. OpenIds' = OpenIds
  <2>1. \A p \in Objects : Answered(p, id, r).id = call[p].id
    BY <1>1 DEF Answered, TypeOK
  <2> QED BY <2>1 DEF Response, OpenIds
<1> QED BY <1>3, <1>4, <1>5, ProtocolSteps DEF Response

\* The end of an object is the end of its call.
LEMMA ObjectEndImplements ==
  ASSUME IndInv, NEW o \in Objects, ObjectEnd(o)
  PROVE  Protocol!End(o)
<1>1. TypeOK /\ NoCall.id = 0 /\ OpenIds[o] = call[o].id
  BY DEF IndInv, NoCall, OpenIds
<1>2. /\ o \notin ended /\ ended' = ended \cup {o}
      /\ call' = [call EXCEPT ![o] = NoCall]
      /\ outcome' = IF call[o] = NoCall THEN outcome ELSE [outcome EXCEPT ![call[o].id] = "dropped"]
      /\ UNCHANGED <<next, written, cancelled, reply>>
  BY DEF ObjectEnd
<1>3. OpenIds' = [OpenIds EXCEPT ![o] = 0]
  BY <1>1, <1>2, OpensAfter
<1>4. outcome' = [id \in Ids |-> IF id = OpenIds[o] THEN "dropped" ELSE outcome[id]]
  <2>1. outcome = [id \in Ids |-> outcome[id]] /\ 0 \notin Ids
    BY <1>1 DEF TypeOK, Ids
  <2>2. CASE call[o] = NoCall
    BY <1>1, <1>2, <2>1, <2>2
  <2>3. CASE call[o] # NoCall
    BY <1>1, <1>2, <2>1, <2>3
  <2> QED BY <2>2, <2>3
<1> QED BY <1>2, <1>3, <1>4, ProtocolSteps

\* What the writer puts on the wire is the request of an open call, a
\* cancellation that is due, or nothing the protocol speaks of.
LEMMA WriterImplements ==
  ASSUME IndInv, WriteControl \/ WriteData
  PROVE  \/ \E id \in Ids : Protocol!Ask(id) \/ Protocol!Withdraw(id)
         \/ UNCHANGED Protocol!prot
<1>1. TypeOK /\ QueuesFit /\ CancelsFit /\ Shaped(q)
  BY DEF IndInv, QueuesFit
<1>2. UNCHANGED <<next, call, ended, reply, outcome>> /\ OpenIds' = OpenIds
  BY DEF WriteControl, WriteData, OpenIds
<1>3. CASE WriteControl
  <2>1. PICK h : h = Head(q.control)
    OBVIOUS
  <2>2. /\ q.control # <<>> /\ cancelled' = cancelled \cup ({h.id} \ {0}) /\ written' = written
    BY <1>3, <2>1 DEF WriteControl, TakesControl
  <2>3. q.control \in Seq(ControlFrame) /\ CancelsFor(q.control, Dead \ cancelled)
    BY <1>1 DEF Shaped, CancelsFit
  <2>4. h # OtherFrame => h.id \in Dead \ cancelled
    BY <2>1, <2>2, <2>3, CancelLeaves
  <2>5. CASE h.id = 0
    BY <1>2, <2>2, <2>5, UnseenOK
  <2>6. CASE h.id # 0
    <3>1. h.id \in Dead /\ h.id \notin cancelled
      BY <2>4, <2>6 DEF OtherFrame
    <3>2. h.id \in Ids /\ reply[h.id] = "none" /\ outcome[h.id] \in {"TIMEOUT", "dropped"}
      BY <1>1, <3>1, HostAssumption DEF Dead, Ids, TypeOK, HostAssumption
    <3>3. cancelled' = cancelled \cup {h.id}
      BY <2>2, <2>6
    <3>4. Protocol!Withdraw(h.id)
      BY <1>2, <2>2, <3>1, <3>2, <3>3, ProtocolSteps
    <3> QED BY <3>2, <3>4
  <2> QED BY <2>5, <2>6
<1>4. CASE WriteData
  <2>1. PICK o : o = Head(q.ready)
    OBVIOUS
  <2>2. PICK s : s = FramesOf(q, o)
    OBVIOUS
  <2>3. /\ q.ready # <<>> /\ cancelled' = cancelled
        /\ written' = written \cup ({Head(q.data[o]).req} \ {0})
    BY <1>4, <2>1 DEF WriteData, TakesData
  <2>4. o \in Objects /\ q.data[o] = s /\ s # <<>>
    BY <1>1, <2>1, <2>2, <2>3, PopDataOK
  <2>5. s \in Seq(DataFrame) /\ FramesFit(s, call[o])
    BY <1>1, <2>2, <2>4, FramesShape DEF QueuesFit
  <2>6. PICK id : id = Head(s).req
    OBVIOUS
  <2>7. CASE id = 0
    <3>1. written' = written
      BY <2>3, <2>4, <2>6, <2>7
    <3> QED BY <1>2, <2>3, <3>1, UnseenOK
  <2>8. CASE id # 0
    <3>1. id = call[o].id
      <4>1. 1 \in 1..Len(s) /\ Head(s) = s[1]
        BY <2>4, <2>5
      <4> QED BY <2>5, <2>6, <2>8, <4>1 DEF FramesFit
    <3>2. OpenIds[o] = id /\ id \in Ids
      BY <2>4, <2>8, <3>1, CallTyped DEF OpenIds
    <3>3. written' = written \cup {id}
      BY <2>3, <2>4, <2>6, <2>8
    <3>4. Protocol!Ask(id)
      BY <1>2, <2>3, <2>4, <2>8, <3>2, <3>3, ProtocolSteps
    <3> QED BY <3>2, <3>4
  <2> QED BY <2>7, <2>8
<1> QED BY <1>3, <1>4

\* The calls implement the protocol for any objects, limits and number of
\* calls: what the embedder is sent and what a guest gets back is what the
\* protocol allows, whatever it replies and whenever calls and objects end.
THEOREM HostCallsImplementProtocol == Spec => ImplementsProtocol
<1>1. Init => Protocol!Init
  BY DEF Init, NoCall, Protocol!Init, Protocol!Ids, Ids
<1>2. IndInv /\ [Next]_hvars => [Protocol!Next]_Protocol!prot
  <2> SUFFICES ASSUME IndInv, [Next]_hvars PROVE [Protocol!Next]_Protocol!prot
    OBVIOUS
  <2>1. Protocol!Ids = Ids
    BY DEF Protocol!Ids, Ids
  <2>2. ASSUME NEW o \in Objects, CallStart(o) PROVE [Protocol!Next]_Protocol!prot
    BY <2>2, CallStartImplements DEF Protocol!Next
  <2>3. ASSUME NEW o \in Objects, CallSend(o) \/ CallAnswer(o) \/ CallTimeout(o)
        PROVE  [Protocol!Next]_Protocol!prot
    BY <2>3, CallEndsImplement DEF Protocol!Next
  <2>4. ASSUME NEW o \in Objects, ObjectEnd(o) PROVE [Protocol!Next]_Protocol!prot
    BY <2>4, ObjectEndImplements DEF Protocol!Next
  <2>5. ASSUME NEW id \in Ids, NEW r \in Results, Response(id, r)
        PROVE  [Protocol!Next]_Protocol!prot
    BY <2>1, <2>5, ResponseImplements DEF Protocol!Next
  <2>6. CASE WriteControl \/ WriteData
    BY <2>1, <2>6, WriterImplements DEF Protocol!Next
  <2>7. CASE (\E o \in Objects : Log(o)) \/ OtherControl \/ ResponseIgnored \/ Close \/ UNCHANGED hvars
    <3>1. UNCHANGED <<next, call, ended, written, cancelled, reply, outcome>>
      BY <2>7 DEF Log, OtherControl, ResponseIgnored, Close, hvars
    <3> QED BY <3>1, UnseenOK
  <2> QED BY <2>2, <2>3, <2>4, <2>5, <2>6, <2>7 DEF Next
<1> QED BY <1>1, <1>2, InductiveInvariant, PTL DEF Spec, ImplementsProtocol, Protocol!Spec
=============================================================================
