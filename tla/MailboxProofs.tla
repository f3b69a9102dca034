---------------------------- MODULE MailboxProofs ---------------------------
(***************************************************************************)
(* Proofs about Mailbox, for every value of its constants.                 *)
(*                                                                         *)
(* IndInv adds to the checked invariants what receive() and deliver() rely *)
(* on: a receiver that was woken finds an entry, and the window holds the  *)
(* last WINDOW accepted ids, or all of them while there are fewer.         *)
(***************************************************************************)
EXTENDS Mailbox, SequenceLemmas

Entry == [id : EventIds, size : Sizes]

\* The ids and the sizes of a sequence of entries.
IdsOf(es) == [i \in DOMAIN es |-> es[i].id]
SizesOf(es) == [i \in DOMAIN es |-> es[i].size]

WokenHasEvent == life # "over" /\ receiver = "woken" => entries # <<>>

\* The window is the end of the history, and full once enough was accepted.
WindowIsLast ==
  life # "over" =>
    /\ Len(recent) <= WINDOW /\ Len(recent) <= Len(accepted)
    /\ Len(recent) < WINDOW => Len(recent) = Len(accepted)
    /\ \A k \in 1..Len(recent) : recent[k] = accepted[Len(accepted) - Len(recent) + k]

RepeatsAreFar ==
  \A i, j \in DOMAIN accepted : i < j /\ accepted[i] = accepted[j] => j - i > WINDOW

IndInv ==
  /\ BytesAreCounted
  /\ ReceiverNeverSleepsOnEvent
  /\ WokenHasEvent
  /\ DeliveryIsFifo
  /\ WindowIsLast
  /\ RepeatsAreFar

\* The ids and sizes of entries follow what is appended and taken.
LEMMA FieldsOfEntries ==
  ASSUME NEW es \in Seq(Entry)
  PROVE  /\ IdsOf(es) \in Seq(EventIds) /\ Len(IdsOf(es)) = Len(es)
         /\ SizesOf(es) \in Seq(Nat) /\ Len(SizesOf(es)) = Len(es)
         /\ \A e \in Entry : /\ IdsOf(Append(es, e)) = Append(IdsOf(es), e.id)
                             /\ SizesOf(Append(es, e)) = Append(SizesOf(es), e.size)
         /\ es # <<>> => /\ IdsOf(Tail(es)) = Tail(IdsOf(es))
                         /\ IdsOf(es) # <<>> /\ Head(IdsOf(es)) = Head(es).id
                         /\ SizesOf(Tail(es)) = Tail(SizesOf(es))
                         /\ SizesOf(es) # <<>> /\ Head(SizesOf(es)) = Head(es).size
<1>1. \A e \in Entry : e.id \in EventIds /\ e.size \in Nat
  BY MailboxAssumption DEF Entry, MailboxAssumption
<1> DEFINE E == Entry
<1>2. es \in Seq(E) /\ \A e \in E : e.id \in EventIds /\ e.size \in Nat
  BY <1>1
<1> HIDE DEF E
<1>3. /\ IdsOf(es) \in Seq(EventIds) /\ Len(IdsOf(es)) = Len(es)
      /\ SizesOf(es) \in Seq(Nat) /\ Len(SizesOf(es)) = Len(es)
  BY <1>2 DEF IdsOf, SizesOf
<1>4. ASSUME NEW e \in E
      PROVE  /\ IdsOf(Append(es, e)) = Append(IdsOf(es), e.id)
             /\ SizesOf(Append(es, e)) = Append(SizesOf(es), e.size)
  BY <1>2 DEF IdsOf, SizesOf
<1>5. ASSUME es # <<>>
      PROVE  /\ IdsOf(Tail(es)) = Tail(IdsOf(es))
             /\ IdsOf(es) # <<>> /\ Head(IdsOf(es)) = Head(es).id
             /\ SizesOf(Tail(es)) = Tail(SizesOf(es))
             /\ SizesOf(es) # <<>> /\ Head(SizesOf(es)) = Head(es).size
  BY <1>2, <1>5 DEF IdsOf, SizesOf
<1> QED BY <1>3, <1>4, <1>5 DEF E

\* Moving the border between two concatenated sequences changes nothing.
LEMMA ConcatMoves ==
  ASSUME NEW S, NEW s \in Seq(S), NEW t \in Seq(S)
  PROVE  /\ \A e \in S : Append(s \o t, e) = s \o Append(t, e)
         /\ t # <<>> => s \o t = Append(s, Head(t)) \o Tail(t)
<1>1. ASSUME NEW e \in S PROVE Append(s \o t, e) = s \o Append(t, e)
  OBVIOUS
<1>2. ASSUME t # <<>> PROVE s \o t = Append(s, Head(t)) \o Tail(t)
  BY <1>2
<1> QED BY <1>1, <1>2

\* What the properties say in terms of the operators above.
LEMMA Unfolded ==
  /\ TypeOK => entries \in Seq(Entry)
  /\ BytesAreCounted <=> /\ TypeOK
                         /\ bytes = SumFunction(SizesOf(entries))
                         /\ Len(entries) <= MAX_ENTRIES
  /\ DeliveryIsFifo <=> IF life = "over" THEN IsPrefix(taken, accepted)
                        ELSE accepted = taken \o IdsOf(entries)
BY DEF TypeOK, Entry, BytesAreCounted, SizesOf, DeliveryIsFifo, IdsOf

\* The limits are natural numbers.
LEMMA ConstantsAreNat ==
  /\ MAX_VALUE_BYTES \in Nat /\ MAX_ENTRIES \in Nat /\ MAX_BYTES \in Nat
  /\ MAX_HANDLES \in Nat /\ MaxAccepts \in Nat /\ WINDOW \in Nat \ {0}
BY MailboxAssumption DEF MailboxAssumption

\* The mailbox starts empty.
LEMMA InitIndInv == Init => IndInv
<1> SUFFICES ASSUME Init PROVE IndInv
  OBVIOUS
<1> USE DEF Init
<1>1. /\ entries = <<>> /\ bytes = 0 /\ recent = <<>> /\ accepted = <<>> /\ taken = <<>>
      /\ life = "accepting" /\ receiver = "none"
  OBVIOUS
<1>2. TypeOK
  <2>1. entries \in Seq([id : EventIds, size : Sizes]) /\ recent \in Seq(EventIds)
        /\ accepted \in Seq(EventIds) /\ taken \in Seq(EventIds)
    BY <1>1
  <2>2. bytes \in 0..MAX_BYTES /\ handles \in 0..MAX_HANDLES
    BY ConstantsAreNat
  <2> QED BY <2>1, <2>2 DEF TypeOK
<1>3. SizesOf(<<>>) = <<>> /\ IdsOf(<<>>) = <<>> /\ SumFunction(<<>>) = 0
  BY EmptySum DEF SizesOf, IdsOf
<1>4. BytesAreCounted
  BY <1>1, <1>2, <1>3, Unfolded, ConstantsAreNat
<1>5. DeliveryIsFifo
  BY <1>1, <1>3, Unfolded
<1>6. WindowIsLast /\ RepeatsAreFar
  BY <1>1, ConstantsAreNat DEF WindowIsLast, RepeatsAreFar
<1> QED BY <1>1, <1>4, <1>5, <1>6
        DEF IndInv, ReceiverNeverSleepsOnEvent, WokenHasEvent

\* A delivery counts the bytes of the event, and keeps the order of delivery
\* and the window.
LEMMA DeliverOK ==
  ASSUME IndInv, NEW id \in EventIds, NEW size \in Sizes, Deliver(id, size)
  PROVE  IndInv'
<1> DEFINE e == [id |-> id, size |-> size]
           n == Len(accepted)
<1>1. /\ life = "accepting" /\ life' = life /\ Fits(size)
      /\ entries' = Append(entries, e) /\ bytes' = bytes + size
      /\ accepted' = Append(accepted, id) /\ taken' = taken /\ handles' = handles
      /\ recent' = Remember(recent, id)
  BY DEF Deliver
<1>2. /\ receiver' = "parked" => FALSE
      /\ receiver' \in {"none", "parked", "woken"} /\ changed' \in BOOLEAN
  BY DEF Deliver, IndInv, BytesAreCounted, TypeOK
<1>3. TypeOK /\ bytes = SumFunction(SizesOf(entries)) /\ Len(entries) <= MAX_ENTRIES
  BY Unfolded DEF IndInv
<1>4. /\ entries \in Seq(Entry) /\ e \in Entry /\ e.id = id /\ e.size = size
      /\ size \in Nat /\ accepted \in Seq(EventIds) /\ taken \in Seq(EventIds)
      /\ recent \in Seq(EventIds) /\ n \in Nat /\ bytes \in Nat
  BY <1>3, Unfolded, MailboxAssumption DEF Entry, TypeOK, MailboxAssumption
<1> HIDE DEF e
<1>5. entries' \in Seq(Entry) /\ entries' # <<>> /\ Len(entries') = Len(entries) + 1
  BY <1>1, <1>4
<1>6. recent' \in Seq(EventIds)
  BY <1>1, <1>4, ConstantsAreNat DEF Remember
<1>7. TypeOK'
  <2>1. bytes' \in 0..MAX_BYTES
    BY <1>1, <1>4, ConstantsAreNat DEF Fits
  <2> QED BY <1>1, <1>2, <1>3, <1>4, <1>5, <1>6, <2>1 DEF TypeOK, Entry
<1>8. BytesAreCounted'
  <2>1. SizesOf(entries') = Append(SizesOf(entries), size) /\ SizesOf(entries) \in Seq(Nat)
    BY <1>1, <1>4, FieldsOfEntries
  <2>2. SumFunction(SizesOf(entries')) = SumFunction(SizesOf(entries)) + size
    BY <1>4, <2>1, SumAppend
  <2>3. Len(entries') <= MAX_ENTRIES
    BY <1>1, <1>4, <1>5, ConstantsAreNat DEF Fits
  <2>4. bytes' = SumFunction(SizesOf(entries'))
    BY <1>1, <1>3, <2>2
  <2> QED BY <1>7, <2>3, <2>4 DEF BytesAreCounted, SizesOf
<1>9. DeliveryIsFifo'
  <2>1. accepted = taken \o IdsOf(entries)
    BY <1>1, Unfolded DEF IndInv
  <2>2. IdsOf(entries') = Append(IdsOf(entries), id) /\ IdsOf(entries) \in Seq(EventIds)
    BY <1>1, <1>4, FieldsOfEntries
  <2>3. Append(taken \o IdsOf(entries), id) = taken \o Append(IdsOf(entries), id)
    <3>1. taken \in Seq(EventIds) /\ IdsOf(entries) \in Seq(EventIds) /\ id \in EventIds
      BY <1>4, <2>2
    <3> QED BY ONLY <3>1, ConcatMoves
  <2>4. accepted' = taken' \o IdsOf(entries')
    BY <1>1, <2>1, <2>2, <2>3
  <2> QED BY <1>1, <2>4 DEF DeliveryIsFifo, IdsOf
<1>10. /\ Len(recent) <= WINDOW /\ Len(recent) <= n
       /\ Len(recent) < WINDOW => Len(recent) = n
       /\ \A k \in 1..Len(recent) : recent[k] = accepted[n - Len(recent) + k]
  BY <1>1 DEF IndInv, WindowIsLast
<1>11. /\ Len(accepted') = n + 1 /\ accepted'[n + 1] = id
       /\ \A i \in 1..n : accepted'[i] = accepted[i]
       /\ DOMAIN accepted' = 1..(n + 1) /\ DOMAIN accepted = 1..n
  BY <1>1, <1>4
<1>12. WindowIsLast'
  <2>1. CASE Len(recent) = WINDOW
    <3>1. /\ Len(recent') = WINDOW
          /\ recent'[WINDOW] = id
          /\ \A k \in 1..(WINDOW - 1) : recent'[k] = recent[k + 1]
      BY <1>1, <1>4, <2>1, ConstantsAreNat DEF Remember
    <3>2. ASSUME NEW k \in 1..Len(recent')
          PROVE  recent'[k] = accepted'[Len(accepted') - Len(recent') + k]
      <4>1. CASE k = WINDOW
        BY <1>11, <3>1, <4>1, <1>4, ConstantsAreNat
      <4>2. CASE k # WINDOW
        <5>1. k + 1 \in 1..Len(recent) /\ k \in 1..(WINDOW - 1)
          BY <2>1, <3>1, <4>2, ConstantsAreNat
        <5>2. recent'[k] = accepted[n - Len(recent) + (k + 1)]
          BY <1>10, <3>1, <5>1
        <5>3. n - Len(recent) + (k + 1) \in 1..n
          BY <1>4, <1>10, <5>1
        <5>4. n - Len(recent) + (k + 1) = Len(accepted') - Len(recent') + k
          BY <1>4, <1>11, <2>1, <3>1, <5>1, ConstantsAreNat
        <5> QED BY <1>11, <5>2, <5>3, <5>4
      <4> QED BY <4>1, <4>2
    <3>3. Len(recent') <= WINDOW /\ ~(Len(recent') < WINDOW) /\ Len(recent') <= Len(accepted')
      <4>1. WINDOW \in Nat /\ n \in Nat /\ WINDOW <= n /\ Len(accepted') = n + 1
        BY <1>4, <1>10, <1>11, <2>1, ConstantsAreNat
      <4> QED BY <3>1, <4>1
    <3> QED BY <3>2, <3>3 DEF WindowIsLast
  <2>2. CASE Len(recent) # WINDOW
    <3>1. Len(recent) = n /\ n < WINDOW
      BY <1>4, <1>10, <2>2, ConstantsAreNat
    <3>2. /\ Len(recent') = n + 1 /\ recent'[n + 1] = id
          /\ \A k \in 1..n : recent'[k] = recent[k]
      BY <1>1, <1>4, <2>2, <3>1 DEF Remember
    <3>3. ASSUME NEW k \in 1..Len(recent')
          PROVE  recent'[k] = accepted'[Len(accepted') - Len(recent') + k]
      <4>1. Len(accepted') - Len(recent') + k = k
        BY <1>4, <1>11, <3>2
      <4>2. CASE k = n + 1
        BY <1>11, <3>2, <4>1, <4>2
      <4>3. CASE k # n + 1
        <5>1. k \in 1..n
          BY <1>4, <3>2, <4>3
        <5>2. recent[k] = accepted[k]
          BY <1>4, <1>10, <3>1, <5>1
        <5> QED BY <1>11, <3>2, <4>1, <5>1, <5>2
      <4> QED BY <4>2, <4>3
    <3> QED BY <1>4, <1>11, <3>1, <3>2, <3>3, ConstantsAreNat DEF WindowIsLast
  <2> QED BY <2>1, <2>2
<1>13. RepeatsAreFar'
  <2>1. \A k \in 1..Len(recent) : recent[k] # id
    BY DEF Deliver, IsDuplicate, Contains
  <2> SUFFICES ASSUME NEW i \in 1..(n + 1), NEW j \in 1..(n + 1), i < j, accepted'[i] = accepted'[j]
               PROVE  j - i > WINDOW
    BY <1>11 DEF RepeatsAreFar
  <2>2. CASE j = n + 1
    <3>1. i \in 1..n /\ accepted[i] = id
      BY <1>4, <1>11, <2>2
    <3>2. SUFFICES ASSUME ~(n + 1 - i > WINDOW) PROVE FALSE
      BY <2>2
    <3> DEFINE k == i - n + Len(recent)
    <3>3. k \in 1..Len(recent) /\ n - Len(recent) + k = i
      BY <1>4, <1>10, <3>1, <3>2, ConstantsAreNat
    <3> HIDE DEF k
    <3>4. recent[k] = accepted[i]
      BY <1>10, <3>3
    <3> QED BY <2>1, <3>1, <3>3, <3>4
  <2>3. CASE j # n + 1
    <3>1. i \in 1..n /\ j \in 1..n
      <4>1. n \in Nat /\ j \in 1..(n + 1) /\ i \in 1..(n + 1) /\ i < j
        BY <1>4
      <4> HIDE DEF n
      <4> QED BY <2>3, <4>1
    <3> QED BY <1>11, <3>1 DEF IndInv, RepeatsAreFar
  <2> QED BY <2>2, <2>3
<1>14. ReceiverNeverSleepsOnEvent' /\ WokenHasEvent'
  BY <1>2, <1>5 DEF ReceiverNeverSleepsOnEvent, WokenHasEvent
<1> QED BY <1>8, <1>9, <1>12, <1>13, <1>14 DEF IndInv

\* Taking the first entry counts its bytes off and keeps the order.
LEMMA TakeFirstOK ==
  ASSUME IndInv, life = "accepting", entries # <<>>, TakeFirst,
         UNCHANGED <<recent, changed, life, accepted>>
  PROVE  IndInv'
<1>1. /\ entries' = Tail(entries) /\ bytes' = bytes - Head(entries).size
      /\ taken' = Append(taken, Head(entries).id) /\ receiver' = "none"
      /\ handles' = IF handles < MAX_HANDLES THEN handles + 1 ELSE handles
  BY DEF TakeFirst
<1>2. TypeOK /\ bytes = SumFunction(SizesOf(entries)) /\ Len(entries) <= MAX_ENTRIES
  BY Unfolded DEF IndInv
<1>3. /\ entries \in Seq(Entry) /\ taken \in Seq(EventIds)
      /\ bytes \in 0..MAX_BYTES /\ handles \in 0..MAX_HANDLES
  BY <1>2, Unfolded DEF TypeOK
<1>4. Head(entries) \in Entry /\ entries' \in Seq(Entry) /\ Len(entries') = Len(entries) - 1
  <2> DEFINE E == Entry
  <2>1. entries \in Seq(E)
    BY <1>3
  <2> HIDE DEF E
  <2>2. Head(entries) \in E /\ entries' \in Seq(E) /\ Len(entries') = Len(entries) - 1
    BY <1>1, <2>1
  <2> QED BY <2>2 DEF E
<1>5. Head(entries).id \in EventIds /\ Head(entries).size \in Nat
  BY <1>4, MailboxAssumption DEF Entry, MailboxAssumption
<1>6. /\ SizesOf(entries) \in Seq(Nat) /\ SizesOf(entries) # <<>>
      /\ SizesOf(entries') = Tail(SizesOf(entries)) /\ Head(SizesOf(entries)) = Head(entries).size
      /\ IdsOf(entries) \in Seq(EventIds) /\ IdsOf(entries) # <<>>
      /\ IdsOf(entries') = Tail(IdsOf(entries)) /\ Head(IdsOf(entries)) = Head(entries).id
  BY <1>1, <1>3, FieldsOfEntries
<1>7. bytes' = SumFunction(SizesOf(entries')) /\ bytes' \in Nat /\ bytes' <= bytes
  <2>1. SumFunction(SizesOf(entries')) = SumFunction(SizesOf(entries)) - Head(entries).size
    BY <1>6, SumTail
  <2>2. SizesOf(entries') \in Seq(Nat)
    BY <1>4, FieldsOfEntries
  <2>3. SumFunction(SizesOf(entries')) \in Nat
    BY <2>2, SumOfSeq
  <2> QED BY <1>1, <1>2, <1>3, <1>5, <2>1, <2>3, ConstantsAreNat
<1>8. handles' \in 0..MAX_HANDLES
  BY <1>1, <1>3, ConstantsAreNat
<1>9. taken' \in Seq(EventIds)
  BY <1>1, <1>3, <1>5
<1>10. TypeOK'
  <2>1. bytes' \in 0..MAX_BYTES
    BY <1>3, <1>7, ConstantsAreNat
  <2>2. receiver' \in {"none", "parked", "woken"}
    BY <1>1
  <2> QED BY <1>2, <1>4, <1>8, <1>9, <2>1, <2>2 DEF TypeOK, Entry
<1>11. BytesAreCounted'
  <2>1. Len(entries') <= MAX_ENTRIES
    BY <1>2, <1>3, <1>4, ConstantsAreNat
  <2> QED BY <1>7, <1>10, <2>1 DEF BytesAreCounted, SizesOf
<1>12. DeliveryIsFifo'
  <2>1. accepted = taken \o IdsOf(entries)
    BY Unfolded DEF IndInv
  <2>2. taken \o IdsOf(entries) = Append(taken, Head(IdsOf(entries))) \o Tail(IdsOf(entries))
    <3>1. taken \in Seq(EventIds) /\ IdsOf(entries) \in Seq(EventIds) /\ IdsOf(entries) # <<>>
      BY <1>3, <1>6
    <3> QED BY ONLY <3>1, ConcatMoves
  <2>3. accepted' = taken' \o IdsOf(entries')
    BY <1>1, <1>6, <2>1, <2>2
  <2> QED BY <2>3 DEF DeliveryIsFifo, IdsOf
<1>13. WindowIsLast' /\ RepeatsAreFar'
  BY DEF IndInv, WindowIsLast, RepeatsAreFar
<1> QED BY <1>1, <1>11, <1>12, <1>13
        DEF IndInv, ReceiverNeverSleepsOnEvent, WokenHasEvent

\* A step that leaves the mailbox and its histories alone, and parks the
\* receiver only when there is no entry.
LEMMA QuietStep ==
  ASSUME IndInv, UNCHANGED <<entries, bytes, recent, accepted, taken>>,
         changed' \in BOOLEAN, handles' \in 0..MAX_HANDLES,
         life' = life \/ (life = "accepting" /\ life' = "stopping"),
         receiver' = receiver \/ receiver' = "none" \/ (receiver' = "parked" /\ entries = <<>>)
  PROVE  IndInv'
<1>1. TypeOK
  BY DEF IndInv, BytesAreCounted
<1>2. TypeOK'
  BY <1>1 DEF TypeOK
<1>3. BytesAreCounted'
  BY <1>2 DEF IndInv, BytesAreCounted
<1>4. ReceiverNeverSleepsOnEvent' /\ WokenHasEvent'
  BY <1>1 DEF IndInv, ReceiverNeverSleepsOnEvent, WokenHasEvent, TypeOK
<1>5. DeliveryIsFifo'
  BY DEF IndInv, DeliveryIsFifo
<1>6. WindowIsLast' /\ RepeatsAreFar'
  BY DEF IndInv, WindowIsLast, RepeatsAreFar
<1> QED BY <1>3, <1>4, <1>5, <1>6 DEF IndInv

\* clear() drops what waits: what was taken stays the beginning of what was
\* accepted.
LEMMA ObjectEndsOK ==
  ASSUME IndInv, ObjectEnds
  PROVE  IndInv'
<1>1. /\ life # "over" /\ life' = "over" /\ entries' = <<>> /\ bytes' = 0 /\ recent' = <<>>
      /\ receiver' = "none" /\ handles' = 0 /\ UNCHANGED <<changed, accepted, taken>>
  BY DEF ObjectEnds, Emptied
<1>2. TypeOK
  BY DEF IndInv, BytesAreCounted
<1>3. TypeOK'
  <2>1. entries' \in Seq([id : EventIds, size : Sizes]) /\ recent' \in Seq(EventIds)
    BY <1>1
  <2>2. bytes' \in 0..MAX_BYTES /\ handles' \in 0..MAX_HANDLES
    BY <1>1, ConstantsAreNat
  <2> QED BY <1>1, <1>2, <2>1, <2>2 DEF TypeOK
<1>4. BytesAreCounted'
  <2>1. SizesOf(entries') = <<>>
    BY <1>1 DEF SizesOf
  <2>2. SumFunction(<<>>) = 0
    BY EmptySum
  <2>3. Len(entries') <= MAX_ENTRIES
    BY <1>1, ConstantsAreNat
  <2> QED BY <1>1, <1>3, <2>1, <2>2, <2>3 DEF BytesAreCounted, SizesOf
<1>5. DeliveryIsFifo'
  <2>1. accepted = taken \o IdsOf(entries)
    BY <1>1, Unfolded DEF IndInv
  <2>2. taken \in Seq(EventIds) /\ IdsOf(entries) \in Seq(EventIds)
    BY <1>2, Unfolded, FieldsOfEntries DEF TypeOK
  <2>3. IsPrefix(taken, accepted)
    BY <2>1, <2>2 DEF IsPrefix
  <2> QED BY <1>1, <2>3 DEF DeliveryIsFifo
<1>6. WindowIsLast' /\ RepeatsAreFar'
  BY <1>1 DEF IndInv, WindowIsLast, RepeatsAreFar
<1> QED BY <1>1, <1>4, <1>5, <1>6 DEF IndInv, ReceiverNeverSleepsOnEvent, WokenHasEvent

\* Every step keeps the invariant.
LEMMA NextIndInv == IndInv /\ [Next]_mvars => IndInv'
<1> SUFFICES ASSUME IndInv, [Next]_mvars PROVE IndInv'
  OBVIOUS
<1>0. changed \in BOOLEAN /\ handles \in 0..MAX_HANDLES
  BY DEF IndInv, BytesAreCounted, TypeOK
<1>1. ASSUME NEW id \in EventIds, NEW size \in Sizes, Deliver(id, size) PROVE IndInv'
  BY <1>1, DeliverOK
<1>2. CASE ReceiveNow
  BY <1>2, TakeFirstOK DEF ReceiveNow
<1>3. CASE ReceiveWaits
  BY <1>0, <1>3, QuietStep DEF ReceiveWaits
<1>4. CASE ReceiveWakes
  <2>1. entries # <<>>
    BY <1>4 DEF ReceiveWakes, IndInv, WokenHasEvent
  <2> QED BY <1>4, <2>1, TakeFirstOK DEF ReceiveWakes
<1>5. CASE ReceiveTimeout
  BY <1>0, <1>5, QuietStep DEF ReceiveTimeout
<1>6. CASE DropHandle
  <2>1. handles' \in 0..MAX_HANDLES
    BY <1>0, <1>6, ConstantsAreNat DEF DropHandle
  <2> QED BY <1>0, <1>6, <2>1, QuietStep DEF DropHandle
<1>7. CASE StopRequested
  BY <1>0, <1>7, QuietStep DEF StopRequested
<1>8. CASE ObjectEnds
  BY <1>8, ObjectEndsOK
<1>9. CASE UNCHANGED mvars
  BY <1>0, <1>9, QuietStep DEF mvars
<1> QED BY <1>1, <1>2, <1>3, <1>4, <1>5, <1>6, <1>7, <1>8, <1>9 DEF Next

\* The invariant of the mailbox, its receiver and the two histories.
THEOREM InductiveInvariant == Spec => []IndInv
<1>1. Init => IndInv
  BY InitIndInv
<1>2. IndInv /\ [Next]_mvars => IndInv'
  BY NextIndInv
<1> QED BY <1>1, <1>2, PTL DEF Spec

\* The byte count is the sum of the entries' sizes, and no limit is exceeded.
THEOREM BytesAreExact == Spec => []BytesAreCounted
<1>1. IndInv => BytesAreCounted
  BY DEF IndInv
<1> QED BY <1>1, InductiveInvariant, PTL

\* Events come out in the order in which they were accepted, none lost and
\* none repeated.
THEOREM EventsComeInOrder == Spec => []DeliveryIsFifo
<1>1. IndInv => DeliveryIsFifo
  BY DEF IndInv
<1> QED BY <1>1, InductiveInvariant, PTL

\* An end of a sequence read forwards is one read backwards.
LEMMA SuffixByPositions ==
  ASSUME NEW S, NEW s \in Seq(S), NEW t \in Seq(S), Len(s) <= Len(t),
         \A k \in 1..Len(s) : s[k] = t[Len(t) - Len(s) + k]
  PROVE  IsSuffix(s, t)
<1> DEFINE rs == Reverse(s)
           rt == Reverse(t)
<1>1. /\ rs \in Seq(S) /\ Len(rs) = Len(s) /\ \A k \in 1..Len(s) : rs[k] = s[Len(s) - k + 1]
      /\ rt \in Seq(S) /\ Len(rt) = Len(t) /\ \A k \in 1..Len(t) : rt[k] = t[Len(t) - k + 1]
  BY DEF Reverse
<1>2. ASSUME NEW k \in 1..Len(s) PROVE rs[k] = rt[k]
  <2>1. Len(s) - k + 1 \in 1..Len(s) /\ k \in 1..Len(t)
    OBVIOUS
  <2>2. Len(t) - Len(s) + (Len(s) - k + 1) = Len(t) - k + 1
    OBVIOUS
  <2>3. s[Len(s) - k + 1] = t[Len(t) - k + 1]
    BY <2>1, <2>2
  <2> QED BY <1>1, <2>1, <2>3
<1> HIDE DEF rs, rt
<1>3. SubSeq(rs, 1, Len(rs)) = SubSeq(rt, 1, Len(rs))
  BY <1>1, <1>2
<1> QED BY <1>1, <1>3 DEF IsSuffix, IsPrefix, rs, rt

\* An id is accepted again only after WINDOW others, and the window holds the
\* end of the history and nothing else.
THEOREM DuplicatesAreKnown == Spec => []WindowIsExact
<1>1. IndInv => WindowIsExact
  <2> SUFFICES ASSUME IndInv PROVE WindowIsExact
    OBVIOUS
  <2>1. recent \in Seq(EventIds) /\ accepted \in Seq(EventIds)
    BY DEF IndInv, BytesAreCounted, TypeOK
  <2>2. life # "over" => IsSuffix(recent, accepted) /\ Len(recent) <= WINDOW
    BY <2>1, SuffixByPositions DEF IndInv, WindowIsLast
  <2> QED BY <2>2 DEF IndInv, RepeatsAreFar, WindowIsExact
<1> QED BY <1>1, InductiveInvariant, PTL

\* The guest does not sleep on an event: no notification is lost.
THEOREM ReceiverIsNotForgotten == Spec => []ReceiverNeverSleepsOnEvent
<1>1. IndInv => ReceiverNeverSleepsOnEvent
  BY DEF IndInv
<1> QED BY <1>1, InductiveInvariant, PTL
=============================================================================
