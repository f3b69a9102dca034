---------------------------- MODULE FramingProofs ---------------------------
(***************************************************************************)
(* Proofs about Framing, for every frame limit, buffer capacity and stream.*)
(*                                                                         *)
(* FramesAreTails says what the loop got, but not why the next frame will  *)
(* again be a tail.  That needs what a live future holds: bytes of a       *)
(* single frame, without its newline (HeldIsOneFrame), which begin where   *)
(* the last frame ended or where a dropped future left off, with           *)
(* everything in between lost (GapIsLost).                                 *)
(***************************************************************************)
EXTENDS Framing, SequenceLemmas

\* The vector of the future holds no newline, and all received frames are
\* before it.
HeldIsOneFrame ==
  /\ \A n \in newlines : n <= consumed => n <= begin
  /\ \A k \in DOMAIN received : received[k].to <= begin

\* What is between the last newline before the vector and the vector is lost.
GapIsLost ==
  \A p \in 1..begin : (\A n \in newlines : n <= begin => n < p) => p \in lost

IndInv ==
  BufferBound /\ FramesAreTails /\ EndIsJustified /\ HeldIsOneFrame /\ GapIsLost

-----------------------------------------------------------------------------
(* Where frames begin and end. *)

\* The start of the frame of byte p, for any set of newlines.
StartIn(N, p) ==
  CHOOSE s \in N \cup {0} :
     /\ s < p
     /\ \A t \in N : t < p => t <= s

\* That start exists: the last newline before p, or the start of the stream.
LEMMA StartInProperties ==
  ASSUME NEW N \in SUBSET Nat, NEW p \in Nat \ {0}
  PROVE  /\ StartIn(N, p) \in N \cup {0}
         /\ StartIn(N, p) < p
         /\ \A t \in N : t < p => t <= StartIn(N, p)
<1> DEFINE T == {s \in N \cup {0} : s < p}
<1>1. T \in SUBSET Nat /\ T # {} /\ \A y \in T : y <= p
  <2>1. 0 \in T
    OBVIOUS
  <2>2. ASSUME NEW y \in T PROVE y \in Nat /\ y <= p
    <3>1. y \in Nat
      OBVIOUS
    <3> QED BY <3>1
  <2> QED BY <2>1, <2>2
<1>2. PICK m \in T : \A y \in T : y <= m
  <2> HIDE DEF T
  <2> QED BY <1>1, GreatestNat
<1>3. \E s \in N \cup {0} : s < p /\ \A t \in N : t < p => t <= s
  BY <1>2
<1> QED BY <1>3 DEF StartIn

\* There is only one.
LEMMA StartInUnique ==
  ASSUME NEW N \in SUBSET Nat, NEW p \in Nat \ {0}, NEW s \in N \cup {0},
         s < p, \A t \in N : t < p => t <= s
  PROVE  StartIn(N, p) = s
<1> DEFINE x == StartIn(N, p)
<1>1. x \in N \cup {0} /\ x < p /\ \A t \in N : t < p => t <= x
  BY StartInProperties
<1> HIDE DEF x
<1>2. x \in Nat /\ s \in Nat
  BY <1>1
<1>3. x <= s /\ s <= x
  BY <1>1, <1>2
<1>4. x = s
  BY <1>2, <1>3
<1> QED BY <1>4 DEF x

\* Newlines that come after p do not move the start of its frame.
LEMMA StartInStable ==
  ASSUME NEW M \in SUBSET Nat, NEW N \in SUBSET Nat, NEW p \in Nat \ {0},
         N \subseteq M, \A n \in M \ N : n >= p
  PROVE  StartIn(M, p) = StartIn(N, p)
<1>1. /\ StartIn(N, p) \in N \cup {0}
      /\ StartIn(N, p) < p
      /\ \A t \in N : t < p => t <= StartIn(N, p)
  BY StartInProperties
<1> DEFINE s == StartIn(N, p)
<1> HIDE DEF s
<1>2. s \in M \cup {0} /\ s < p /\ \A t \in M : t < p => t <= s
  <2>1. ASSUME NEW t \in M, t < p PROVE t \in N
    <3>1. t \in Nat
      OBVIOUS
    <3> QED BY <2>1, <3>1
  <2> QED BY <1>1, <2>1 DEF s
<1>3. StartIn(M, p) = s
  BY <1>2, StartInUnique
<1> QED BY <1>3 DEF s

\* The same facts for FrameStart.
LEMMA FrameStartProperties ==
  ASSUME TypeOK, NEW p \in Nat \ {0}
  PROVE  /\ FrameStart(p) \in newlines \cup {0}
         /\ FrameStart(p) < p
         /\ \A t \in newlines : t < p => t <= FrameStart(p)
<1>1. newlines \in SUBSET Nat
  BY DEF TypeOK
<1>2. FrameStart(p) = StartIn(newlines, p)
  BY DEF FrameStart, StartIn
<1> QED BY <1>1, <1>2, StartInProperties

\* Whatever the peer writes later, a byte that was sent stays in its frame.
LEMMA FrameStartStable ==
  ASSUME TypeOK, newlines \subseteq newlines', newlines' \subseteq newlines \cup {sent + 1},
         NEW p \in 1..sent
  PROVE  FrameStart(p)' = FrameStart(p)
<1>1. newlines \in SUBSET Nat /\ newlines' \in SUBSET Nat /\ p \in Nat \ {0}
  BY FramingAssumption DEF TypeOK, FramingAssumption
<1>2. \A n \in newlines' \ newlines : n >= p
  BY FramingAssumption DEF TypeOK, FramingAssumption
<1>3. StartIn(newlines', p) = StartIn(newlines, p)
  BY <1>1, <1>2, StartInStable
<1>4. FrameStart(p)' = StartIn(newlines', p) /\ FrameStart(p) = StartIn(newlines, p)
  BY DEF FrameStart, StartIn
<1> QED BY <1>3, <1>4

\* FillBuf never reads past what was sent, and never loses what it has.
LEMMA FillBufProperties ==
  ASSUME TypeOK
  PROVE  /\ FillBuf \in Nat /\ filled <= FillBuf /\ FillBuf <= sent
         /\ FillBuf = consumed => filled = consumed /\ sent = consumed
BY FramingAssumption DEF FramingAssumption, TypeOK, FillBuf, Smaller

\* A pass of frame() takes the bytes up to `last`: the first newline that is
\* buffered, or everything.  All of them belong to the frame that the vector
\* holds, since the vector has no newline.
LEMMA PassProperties ==
  ASSUME TypeOK, HeldIsOneFrame, FillBuf > consumed,
         NEW last, last = consumed + Count(FillBuf)
  PROVE  /\ Count(FillBuf) \in Nat
         /\ last \in Nat /\ consumed < last /\ last <= FillBuf
         /\ \A n \in newlines : n < last => n <= begin
         /\ EndIn(FillBuf) # {} => last \in newlines
         /\ EndIn(FillBuf) = {} => last \notin newlines
         /\ FrameStart(last) <= begin
<1>1. FillBuf \in Nat /\ consumed \in Nat /\ begin \in Nat /\ begin <= consumed
  BY FillBufProperties DEF TypeOK
<1>2. newlines \in SUBSET Nat
  BY DEF TypeOK
<1>3. \A n \in newlines : n <= consumed => n <= begin
  BY DEF HeldIsOneFrame
<1>4. /\ Count(FillBuf) \in Nat
      /\ last \in Nat /\ consumed < last /\ last <= FillBuf
      /\ \A n \in newlines : n < last => n <= begin
      /\ EndIn(FillBuf) # {} => last \in newlines
      /\ EndIn(FillBuf) = {} => last \notin newlines
  <2>1. CASE EndIn(FillBuf) = {}
    <3>1. last = FillBuf
      BY <1>1, <2>1 DEF Count
    <3>2. ASSUME NEW n \in newlines, consumed < n, n <= FillBuf
          PROVE  FALSE
      <4> DEFINE T == {m \in newlines : m > consumed}
      <4>1. T \in SUBSET Nat /\ T # {}
        BY <1>2, <3>2
      <4>2. PICK m \in T : \A y \in T : m <= y
        <5> HIDE DEF T
        <5> QED BY <4>1, LeastNat
      <4>3. m \in EndIn(FillBuf)
        BY <1>1, <1>2, <3>2, <4>2 DEF EndIn
      <4> QED BY <2>1, <4>3
    <3>3. Count(FillBuf) = FillBuf - consumed
      BY <2>1 DEF Count
    <3> QED BY <1>1, <1>2, <1>3, <2>1, <3>1, <3>2, <3>3
  <2>2. CASE EndIn(FillBuf) # {}
    <3>1. PICK n \in EndIn(FillBuf) : n = CHOOSE m \in EndIn(FillBuf) : TRUE
      BY <2>2
    <3>2. /\ n \in newlines /\ consumed < n /\ n <= FillBuf
          /\ \A m \in newlines : m > consumed => n <= m
      BY <3>1 DEF EndIn
    <3>3. Count(FillBuf) = n - consumed
      BY <2>2, <3>1 DEF Count
    <3>4. last = n
      BY <1>1, <1>2, <3>2, <3>3
    <3> QED BY <1>1, <1>2, <1>3, <2>2, <3>2, <3>3, <3>4
  <2> QED BY <2>1, <2>2
<1>5. FrameStart(last) \in newlines \cup {0} /\ FrameStart(last) < last
  BY <1>1, <1>4, FrameStartProperties
<1>6. FrameStart(last) <= begin
  <2>1. CASE FrameStart(last) \in newlines
    BY <1>4, <1>5, <2>1
  <2>2. CASE FrameStart(last) = 0
    BY <1>1, <2>2
  <2> QED BY <1>5, <2>1, <2>2
<1> QED BY <1>4, <1>6

\* What a received frame is made of.
LEMMA ReceivedTypes ==
  ASSUME TypeOK, NEW k \in DOMAIN received
  PROVE  received[k].from \in Nat /\ received[k].to \in Nat
<1> DEFINE R == [from : Nat, to : Nat]
<1>1. received \in Seq(R)
  BY DEF TypeOK
<1>2. received[k] \in R
  <2> HIDE DEF R
  <2> QED BY <1>1
<1> QED BY <1>2

\* TypeOK in two parts: the positions and the counters, and the flags.
Positions ==
  /\ begin \in Nat /\ begin <= consumed
  /\ consumed \in Nat /\ consumed <= filled
  /\ filled \in Nat /\ filled <= sent
  /\ sent \in 0..STREAM
  /\ newlines \subseteq 1..sent /\ garbled \subseteq newlines
  /\ lost \subseteq 1..consumed
  /\ running \in Nat /\ finished \in Nat /\ rejected \in Nat

Flags ==
  /\ eof \in BOOLEAN /\ polling \in BOOLEAN
  /\ status \in {"open", "eof", "truncated", "toolong", "full", "panicked",
                 "stopped", "unreadable"}

\* The two parts make TypeOK, with the type of the frames.
LEMMA TypeParts ==
  TypeOK <=> Positions /\ Flags /\ received \in Seq([from : Nat, to : Nat])
BY DEF TypeOK, Positions, Flags

-----------------------------------------------------------------------------
(* The steps. *)

\* The loop starts with nothing read and nothing lost.
LEMMA InitIndInv == Init => IndInv
<1> SUFFICES ASSUME Init PROVE IndInv
  OBVIOUS
<1>1. received \in Seq([from : Nat, to : Nat]) /\ DOMAIN received = {}
  BY DEF Init
<1>2. TypeOK
  <2>1. Positions
    BY FramingAssumption DEF FramingAssumption, Init, Positions
  <2>2. Flags
    BY DEF Init, Flags
  <2> QED BY <1>1, <2>1, <2>2, TypeParts
<1>3. BufferBound /\ FramesAreTails
  BY <1>1, <1>2, FramingAssumption DEF FramingAssumption, Init, BufferBound, FramesAreTails
<1>4. EndIsJustified /\ HeldIsOneFrame /\ GapIsLost
  BY <1>1 DEF Init, EndIsJustified, HeldIsOneFrame, GapIsLost
<1> QED BY <1>3, <1>4 DEF IndInv

\* What the peer writes comes after everything that was read, so it changes
\* nothing that is known of the frames read so far.
LEMMA PeerWritesOK ==
  ASSUME IndInv, PeerWrites
  PROVE  IndInv'
<1> USE DEF IndInv
<1>0. /\ TypeOK
      /\ ~eof /\ sent < STREAM /\ sent' = sent + 1
      /\ newlines \subseteq newlines' /\ newlines' \subseteq newlines \cup {sent + 1}
      /\ garbled' \subseteq garbled \cup {sent + 1} /\ garbled' \subseteq newlines'
      /\ UNCHANGED <<eof, filled, consumed, begin, polling, tasks, status, received, rejected,
                     lost>>
  BY DEF BufferBound, PeerWrites, WriteByte, WriteNewline, TypeOK
<1>1. TypeOK'
  BY <1>0, FramingAssumption DEF FramingAssumption, TypeOK, tasks
<1>2. BufferBound'
  BY <1>0, <1>1 DEF BufferBound
<1>3. \A p \in 1..sent : FrameStart(p)' = FrameStart(p)
  BY <1>0, FrameStartStable
<1>4. FramesAreTails'
  <2>1. ASSUME NEW k \in DOMAIN received
        PROVE  IsTail(received[k])'
    <3>1. IsTail(received[k]) /\ received'[k] = received[k]
      BY <1>0, <2>1 DEF FramesAreTails
    <3>2. received[k].to \in 1..sent
      BY <1>0, <3>1 DEF TypeOK, IsTail
    <3>3. FrameStart(received[k].to)' = FrameStart(received[k].to)
      <4> DEFINE p == received[k].to
      <4>1. p' = p
        BY <1>0
      <4> QED BY <1>3, <3>2, <4>1 DEF FrameStart
    <3> QED BY <1>0, <3>1, <3>3 DEF IsTail
  <2>2. \A n \in newlines' : n <= consumed' => n \in newlines
    BY <1>0 DEF TypeOK
  <2> QED BY <1>0, <2>1, <2>2 DEF FramesAreTails
<1>5. EndIsJustified'
  <2>1. status = "toolong" => \E p \in 1..sent' : p - FrameStart(p)' > MAX_FRAME
    BY <1>0, <1>3 DEF EndIsJustified, TypeOK
  <2>2. status \notin {"eof", "truncated"}
    BY <1>0 DEF EndIsJustified
  <2> QED BY <1>0, <2>1, <2>2 DEF EndIsJustified
<1>6. HeldIsOneFrame'
  BY <1>0 DEF HeldIsOneFrame, TypeOK
<1>7. GapIsLost'
  BY <1>0 DEF GapIsLost, TypeOK
<1> QED BY <1>2, <1>4, <1>5, <1>6, <1>7

\* A step that only moves the flags, the counters of the tasks or the reasons
\* that need no justification keeps the invariant.
LEMMA FlagsOK ==
  ASSUME IndInv,
         UNCHANGED <<sent, newlines, garbled, consumed, begin, received, lost>>,
         TypeOK', status' = status \/ status' \in {"open", "panicked", "stopped", "unreadable"},
         eof => eof'
  PROVE  IndInv'
<1> USE DEF IndInv
<1>1. BufferBound'
  BY DEF BufferBound
<1>2. \A p : FrameStart(p)' = FrameStart(p)
  BY DEF FrameStart
<1>3. FramesAreTails'
  <2>1. ASSUME NEW k \in DOMAIN received
        PROVE  IsTail(received[k])'
    BY <2>1 DEF FramesAreTails, IsTail, FrameStart
  <2> QED BY <2>1 DEF FramesAreTails
<1>4. EndIsJustified'
  BY <1>2 DEF EndIsJustified
<1>5. HeldIsOneFrame' /\ GapIsLost'
  BY DEF HeldIsOneFrame, GapIsLost
<1> QED BY <1>1, <1>3, <1>4, <1>5

\* Dropping the future loses the bytes of its vector, which are of one frame.
LEMMA DropFutureOK ==
  ASSUME IndInv, DropFuture, TypeOK', status = "open",
         status' \in {"open", "panicked", "stopped"},
         UNCHANGED <<sent, newlines, garbled, eof, filled, consumed, received>>
  PROVE  IndInv'
<1> USE DEF IndInv
<1>0. /\ TypeOK /\ begin' = consumed
      /\ lost' = lost \cup ((begin + 1)..consumed)
  BY DEF BufferBound, DropFuture
<1>1. BufferBound'
  BY <1>0, FramingAssumption DEF BufferBound, TypeOK
<1>2. FramesAreTails'
  <2>1. ASSUME NEW k \in DOMAIN received
        PROVE  IsTail(received[k])'
    BY <1>0, <2>1 DEF FramesAreTails, IsTail, FrameStart
  <2> QED BY <1>0, <2>1 DEF FramesAreTails
<1>3. EndIsJustified'
  BY DEF EndIsJustified
<1>4. HeldIsOneFrame'
  <2>1. ASSUME NEW k \in DOMAIN received
        PROVE  received[k].to <= consumed
    <3>1. received[k].to \in Nat /\ received[k].to <= begin
      BY <1>0, <2>1, ReceivedTypes DEF HeldIsOneFrame
    <3> QED BY SMTT(20), <1>0, <3>1 DEF TypeOK
  <2> QED BY <1>0, <2>1 DEF HeldIsOneFrame
<1>5. GapIsLost'
  <2>1. ASSUME NEW p \in 1..consumed, \A n \in newlines : n <= consumed => n < p
        PROVE  p \in lost'
    <3>1. CASE p <= begin
      BY <1>0, <2>1, <3>1 DEF GapIsLost, TypeOK
    <3>2. CASE p > begin
      BY <1>0, <3>2 DEF TypeOK
    <3> QED BY <1>0, <3>1, <3>2 DEF TypeOK
  <2> QED BY <1>0, <2>1 DEF GapIsLost
<1> QED BY <1>1, <1>2, <1>3, <1>4, <1>5

\* A pass adds bytes of one frame to the vector and, at the newline, hands the
\* vector over: the tail of that frame that is not lost.
LEMMA TakeBytesOK ==
  ASSUME IndInv, TakeBytes
  PROVE  IndInv'
<1> USE DEF IndInv
<1> PICK last : last = consumed + Count(FillBuf)
  OBVIOUS
<1>0. /\ TypeOK /\ FillBuf > consumed /\ status = "open"
      /\ filled' = FillBuf /\ consumed' = last
      /\ consumed \in Nat /\ begin \in Nat /\ begin <= consumed
      /\ UNCHANGED <<sent, newlines, garbled, eof, finished, lost>>
  BY DEF BufferBound, TypeOK, TakeBytes, FrameTurn, peer
<1>1. /\ last \in Nat /\ consumed < last /\ last <= FillBuf
      /\ \A n \in newlines : n < last => n <= begin
      /\ EndIn(FillBuf) # {} => last \in newlines
      /\ EndIn(FillBuf) = {} => last \notin newlines
      /\ FrameStart(last) <= begin
      /\ last - begin <= MAX_FRAME
  <2>1. /\ Count(FillBuf) \in Nat
        /\ last \in Nat /\ consumed < last /\ last <= FillBuf
        /\ \A n \in newlines : n < last => n <= begin
        /\ EndIn(FillBuf) # {} => last \in newlines
        /\ EndIn(FillBuf) = {} => last \notin newlines
        /\ FrameStart(last) <= begin
    BY <1>0, PassProperties
  <2>2. ~((consumed - begin) + Count(FillBuf) > MAX_FRAME)
    BY DEF TakeBytes, TooLong
  <2> QED BY <1>0, <2>1, <2>2, FramingAssumption DEF FramingAssumption
<1>2. FillBuf \in Nat /\ filled <= FillBuf /\ FillBuf <= sent
  BY <1>0, FillBufProperties
<1>3. CASE EndIn(FillBuf) = {}
  <2>1. UNCHANGED <<begin, running, status, received, rejected>> /\ polling' = TRUE
    BY <1>3 DEF TakeBytes
  <2>2. TypeOK'
    BY <1>0, <1>1, <1>2, <2>1 DEF TypeOK
  <2>3. BufferBound'
    BY <1>0, <1>1, <2>1, <2>2 DEF BufferBound
  <2>4. FramesAreTails'
    <3>1. ASSUME NEW k \in DOMAIN received
          PROVE  IsTail(received[k])'
      BY <1>0, <2>1, <3>1 DEF FramesAreTails, IsTail, FrameStart
    <3>2. \A n \in newlines : n <= last => n <= consumed
      BY <1>0, <1>1, <1>3 DEF TypeOK
    <3> QED BY <1>0, <2>1, <3>1, <3>2 DEF FramesAreTails
  <2>5. EndIsJustified'
    BY <1>0, <2>1 DEF EndIsJustified
  <2>6. HeldIsOneFrame' /\ GapIsLost'
    BY <1>0, <1>1, <1>3, <2>1 DEF HeldIsOneFrame, GapIsLost, TypeOK
  <2> QED BY <2>3, <2>4, <2>5, <2>6
<1>4. CASE EndIn(FillBuf) # {}
  <2> PICK r : r = [from |-> begin, to |-> last]
    OBVIOUS
  <2>1. /\ received' = Append(received, r) /\ begin' = last /\ polling' = FALSE
        /\ running' \in Nat /\ rejected' \in Nat /\ status' \in {"open", "full"}
    <3>1. HandOver(consumed')
      BY <1>4 DEF TakeBytes
    <3> QED BY <1>0, <3>1 DEF HandOver, TypeOK
  <2>2. r.from = begin /\ r.to = last /\ r \in [from : Nat, to : Nat]
    BY <1>0, <1>1
  <2>3. TypeOK'
    <3>1. received' \in Seq([from : Nat, to : Nat])
      BY <1>0, <2>1, <2>2, AppendProperties DEF TypeOK
    <3>2. Positions'
      BY SMTT(20), <1>0, <1>1, <1>2, <2>1, TypeParts DEF Positions
    <3>3. Flags'
      BY <1>0, <2>1, TypeParts DEF Flags
    <3> QED BY <3>1, <3>2, <3>3 DEF TypeOK, Positions, Flags
  <2>4. /\ DOMAIN received' = 1..(Len(received) + 1)
        /\ DOMAIN received = 1..Len(received) /\ Len(received) \in Nat
        /\ received'[Len(received) + 1] = r
        /\ \A k \in 1..Len(received) : received'[k] = received[k]
    BY <1>0, <2>1, <2>2 DEF TypeOK
  <2>5. BufferBound'
    BY SMTT(20), <1>0, <1>1, <2>1, <2>3, <2>4, FramingAssumption DEF BufferBound
  <2>6. FramesAreTails'
    <3>1. IsTail(r)'
      <4>1. FrameStart(last) \in newlines \cup {0} /\ FrameStart(last) \in Nat
        <5>1. FrameStart(last) \in newlines \cup {0}
          BY <1>0, <1>1, FrameStartProperties
        <5>2. newlines \subseteq Nat
          BY <1>0 DEF TypeOK
        <5>3. \A n \in newlines \cup {0} : n \in Nat
          BY <5>2
        <5> QED BY <5>1, <5>3
      <4>2. \A t \in newlines : t < last => t <= FrameStart(last)
        BY <1>0, <1>1, FrameStartProperties
      <4>3. ASSUME NEW p \in (FrameStart(last) + 1)..begin
            PROVE  p \in lost
        BY SMTT(20), <1>0, <1>1, <4>1, <4>2, <4>3 DEF GapIsLost, TypeOK
      <4>4. IsTail(r)
        BY <1>0, <1>1, <1>4, <2>2, <4>3 DEF IsTail
      <4> QED BY <1>0, <4>4 DEF IsTail, FrameStart
    <3>2. ASSUME NEW k \in DOMAIN received
          PROVE  IsTail(received[k])'
      BY <1>0, <2>4, <3>2 DEF FramesAreTails, IsTail, FrameStart
    <3>3. ASSUME NEW j \in DOMAIN received', NEW k \in DOMAIN received', j < k
          PROVE  received'[j].to <= received'[k].from
      BY <2>2, <2>4, <3>3 DEF FramesAreTails, HeldIsOneFrame
    <3>4. ASSUME NEW n \in newlines, n <= last, n \notin lost
          PROVE  \E k \in DOMAIN received' : received'[k].to = n
      <4>1. CASE n = last
        BY <2>2, <2>4, <4>1
      <4>2. CASE n # last
        <5>1. n <= consumed
          BY <1>0, <1>1, <3>4, <4>2 DEF TypeOK
        <5> QED BY <2>4, <3>4, <5>1 DEF FramesAreTails
      <4> QED BY <4>1, <4>2
    <3>5. \A k \in DOMAIN received' : IsTail(received[k])'
      <4>1. ASSUME NEW k \in DOMAIN received', k \notin DOMAIN received
            PROVE  IsTail(received[k])'
        <5>1. received'[k] = r
          BY <2>4, <4>1
        <5> QED BY <3>1, <5>1 DEF IsTail, FrameStart
      <4> QED BY <3>2, <4>1
    <3> QED BY <1>0, <3>3, <3>4, <3>5 DEF FramesAreTails
  <2>7. EndIsJustified'
    BY <1>0, <2>1 DEF EndIsJustified
  <2>8. HeldIsOneFrame'
    <3>1. ASSUME NEW k \in DOMAIN received
          PROVE  received[k].to <= last
      <4>1. received[k].to \in Nat /\ received[k].to <= begin
        BY <1>0, <3>1, ReceivedTypes DEF HeldIsOneFrame
      <4> QED BY <1>0, <1>1, <4>1
    <3> QED BY <1>0, <1>1, <2>1, <2>2, <2>4, <3>1 DEF HeldIsOneFrame
  <2>9. GapIsLost'
    BY SMTT(20), <1>0, <1>1, <1>4, <2>1 DEF GapIsLost
  <2> QED BY <2>5, <2>6, <2>7, <2>8, <2>9
<1> QED BY <1>3, <1>4

\* A frame above the limit ends the session, and one of at most MAX_FRAME
\* bytes never does.
LEMMA FrameTooLongOK ==
  ASSUME IndInv, FrameTooLong
  PROVE  IndInv'
<1> USE DEF IndInv
<1> PICK last : last = consumed + Count(FillBuf)
  OBVIOUS
<1>0. /\ TypeOK /\ FillBuf > consumed
      /\ consumed \in Nat /\ begin \in Nat /\ begin <= consumed
      /\ filled' = FillBuf /\ status' = "toolong" /\ polling' = FALSE
      /\ UNCHANGED <<sent, newlines, garbled, eof, consumed, begin, running, finished, received,
                     rejected, lost>>
  BY DEF BufferBound, TypeOK, FrameTooLong, peer, tasks
<1>1. FillBuf \in Nat /\ filled <= FillBuf /\ FillBuf <= sent
  BY <1>0, FillBufProperties
<1>2. TypeOK'
  <2>1. Positions'
    BY <1>0, <1>1, TypeParts DEF Positions
  <2>2. Flags'
    BY <1>0, TypeParts DEF Flags
  <2> QED BY <1>0, <2>1, <2>2 DEF TypeOK, Positions, Flags
<1>3. BufferBound'
  BY <1>0, <1>2 DEF BufferBound
<1>4. FramesAreTails'
  <2>1. ASSUME NEW k \in DOMAIN received
        PROVE  IsTail(received[k])'
    BY <1>0, <2>1 DEF FramesAreTails, IsTail, FrameStart
  <2> QED BY <1>0, <2>1 DEF FramesAreTails
<1>5. EndIsJustified'
  <2>1. /\ Count(FillBuf) \in Nat
        /\ last \in Nat /\ consumed < last /\ last <= FillBuf
        /\ FrameStart(last) <= begin
    BY <1>0, PassProperties
  <2>2. (consumed - begin) + Count(FillBuf) > MAX_FRAME
    BY DEF FrameTooLong, TooLong
  <2>3. FrameStart(last) \in Nat
    <3>1. FrameStart(last) \in newlines \cup {0}
      BY <1>0, <2>1, FrameStartProperties
    <3>2. newlines \subseteq Nat
      BY <1>0 DEF TypeOK
    <3>3. \A n \in newlines \cup {0} : n \in Nat
      BY <3>2
    <3> QED BY <3>1, <3>3
  <2>4. last \in 1..sent /\ last - FrameStart(last) > MAX_FRAME
    BY <1>0, <1>1, <2>1, <2>2, <2>3, FramingAssumption DEF FramingAssumption, TypeOK
  <2>5. FrameStart(last)' = FrameStart(last)
    BY <1>0 DEF FrameStart
  <2> QED BY <1>0, <2>4, <2>5 DEF EndIsJustified
<1>6. HeldIsOneFrame' /\ GapIsLost'
  BY <1>0 DEF HeldIsOneFrame, GapIsLost
<1> QED BY <1>3, <1>4, <1>5, <1>6

\* At the end of the input everything sent was consumed; the vector tells
\* whether it ended inside a frame, unless bytes of that frame were lost.
LEMMA EndOfInputOK ==
  ASSUME IndInv, EndOfInput
  PROVE  IndInv'
<1> USE DEF IndInv
<1>0. /\ TypeOK /\ eof
      /\ consumed \in Nat /\ begin \in Nat /\ begin <= consumed
      /\ status' = IF begin = consumed THEN "eof" ELSE "truncated"
      /\ polling' = FALSE
      /\ UNCHANGED <<sent, newlines, garbled, eof, filled, consumed, begin, running, finished,
                     received, rejected, lost>>
  BY DEF BufferBound, TypeOK, EndOfInput, peer, tasks
<1>1. sent = consumed
  BY <1>0, FillBufProperties DEF EndOfInput
<1>2. TypeOK'
  BY <1>0 DEF TypeOK
<1>3. BufferBound'
  BY <1>0, <1>2 DEF BufferBound
<1>4. FramesAreTails'
  <2>1. ASSUME NEW k \in DOMAIN received
        PROVE  IsTail(received[k])'
    BY <1>0, <2>1 DEF FramesAreTails, IsTail, FrameStart
  <2> QED BY <1>0, <2>1 DEF FramesAreTails
<1>5. EndIsJustified'
  <2>1. begin # consumed => sent \notin newlines
    BY <1>0, <1>1 DEF HeldIsOneFrame
  <2>2. ASSUME begin = consumed, lost = {}
        PROVE  sent \in newlines \cup {0}
    <3>1. ASSUME sent # 0, sent \notin newlines
          PROVE  FALSE
      <4>1. sent \in 1..begin
        BY <1>0, <1>1, <2>2, <3>1
      <4>2. \A n \in newlines : n < sent
        BY <1>0, <3>1 DEF TypeOK
      <4> QED BY <2>2, <4>1, <4>2 DEF GapIsLost
    <3> QED BY <3>1
  <2> QED BY <1>0, <1>1, <2>1, <2>2 DEF EndIsJustified
<1>6. HeldIsOneFrame' /\ GapIsLost'
  BY <1>0 DEF HeldIsOneFrame, GapIsLost
<1> QED BY <1>3, <1>4, <1>5, <1>6

-----------------------------------------------------------------------------
\* Every step of the specification keeps the invariant.
LEMMA NextIndInv == IndInv /\ [Next]_vars => IndInv'
<1> SUFFICES ASSUME IndInv, [Next]_vars PROVE IndInv'
  OBVIOUS
<1>0. TypeOK
  BY DEF IndInv, BufferBound
<1>1. CASE PeerWrites
  BY <1>1, PeerWritesOK
<1>2. CASE PeerCloses
  BY <1>0, <1>2, FlagsOK DEF PeerCloses, TypeOK, tasks
<1>3. CASE TakeBytes
  BY <1>3, TakeBytesOK
<1>4. CASE FrameTooLong
  BY <1>4, FrameTooLongOK
<1>5. CASE EndOfInput
  BY <1>5, EndOfInputOK
<1>6. CASE FramePending \/ ReadError \/ TaskFinishes
  <2>1. UNCHANGED <<sent, newlines, garbled, eof, filled, consumed, begin, rejected, received, lost>>
    BY <1>6 DEF FramePending, ReadError, TaskFinishes, peer
  <2>2. running' \in Nat /\ finished' \in Nat
    BY <1>0, <1>6 DEF FramePending, ReadError, TaskFinishes, TypeOK, tasks
  <2>3. Positions'
    BY <1>0, <2>1, <2>2, TypeParts DEF Positions
  <2>4. Flags'
    BY <1>0, <1>6, TypeParts DEF FramePending, ReadError, TaskFinishes, peer, Flags
  <2>5. TypeOK'
    BY <1>0, <2>1, <2>3, <2>4 DEF TypeOK, Positions, Flags
  <2> QED BY <1>6, <2>1, <2>5, FlagsOK DEF FramePending, ReadError, TaskFinishes, peer
<1>7. CASE JoinNext \/ Stopped
  <2>1. /\ DropFuture /\ status = "open" /\ status' \in {"open", "panicked", "stopped"}
        /\ UNCHANGED <<sent, newlines, garbled, eof, filled, consumed, received>>
    BY <1>7 DEF JoinNext, Stopped, peer
  <2>2. /\ polling' \in BOOLEAN /\ running' \in Nat /\ finished' \in Nat /\ rejected' \in Nat
    BY <1>0, <1>7 DEF JoinNext, Stopped, peer, tasks, TypeOK
  <2>3. TypeOK'
    BY <1>0, <2>1, <2>2 DEF TypeOK, DropFuture
  <2> QED BY <2>1, <2>3, DropFutureOK
<1>8. CASE Ended \/ UNCHANGED vars
  BY <1>0, <1>8, FlagsOK DEF Ended, vars, TypeOK
<1> QED BY <1>1, <1>2, <1>3, <1>4, <1>5, <1>6, <1>7, <1>8 DEF Next, Reader

\* The invariant that the theorems below come from holds in every state.
THEOREM InductiveInvariant == Spec => []IndInv
BY InitIndInv, NextIndInv, PTL DEF Spec

\* The vector of frame() never grows beyond MAX_FRAME bytes, whatever the
\* capacity of the BufReader and the chunks the bytes arrive in.
THEOREM InputIsBounded == Spec => []BufferBound
<1>1. IndInv => BufferBound
  BY DEF IndInv
<1> QED BY <1>1, InductiveInvariant, PTL

\* The loop never gets two frames merged, a frame twice or frames out of
\* order: a dropped future can only cut the head of a frame, and a frame that
\* lost nothing is received.
THEOREM FramesAreAlwaysTails == Spec => []FramesAreTails
<1>1. IndInv => FramesAreTails
  BY DEF IndInv
<1> QED BY <1>1, InductiveInvariant, PTL

\* The loop ends on its input only for a reason that the peer gave.
THEOREM EndIsAlwaysJustified == Spec => []EndIsJustified
<1>1. IndInv => EndIsJustified
  BY DEF IndInv
<1> QED BY <1>1, InductiveInvariant, PTL
=============================================================================
