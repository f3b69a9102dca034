------------------------------ MODULE Framing ------------------------------
(***************************************************************************)
(* The session's input side: frame() in protocol.rs and the part of the    *)
(* select! loop of serve_with_config that polls it.                        *)
(*                                                                         *)
(* The input is a stream of bytes, known by their positions 1, 2, ...; a   *)
(* position is in newlines when its byte ends a frame, and in garbled when *)
(* that frame is not JSON.  A frame is known by the position of its        *)
(* newline.  The BufReader holds the bytes consumed+1 .. filled; the       *)
(* vector `frame` of the frame() future that is alive holds begin+1 ..     *)
(* consumed.  The future lives only as long as one turn of select!: when   *)
(* another branch wins the turn, the future is dropped with its vector.    *)
(***************************************************************************)
EXTENDS Integers, FiniteSets, Sequences

CONSTANTS MAX_FRAME,   \* bytes of the longest frame, newline included
          BUFFER,      \* capacity of the BufReader
          STREAM       \* bound: bytes the peer writes

ASSUME FramingAssumption == /\ MAX_FRAME \in Nat \ {0}
                            /\ BUFFER \in Nat \ {0}
                            /\ STREAM \in Nat

VARIABLES sent,        \* bytes the peer has written
          newlines,    \* positions of the newlines among them
          garbled,     \* newlines of the frames that are not JSON
          eof,         \* the peer has closed its end
          filled,      \* bytes read into the BufReader so far
          consumed,    \* bytes consumed from it so far
          begin,       \* the live frame() future holds begin+1 .. consumed
          polling,     \* the loop is inside one poll of frame()
          running,     \* request tasks that have not finished
          finished,    \* request tasks that join_next has not returned yet
          status,      \* "open", or why the loop ended
          received,    \* the frames handed to the loop, as [from, to]
          rejected,    \* how many of them were answered by PARSE_ERROR
          lost         \* history: bytes that were in a dropped vector

vars == <<sent, newlines, garbled, eof, filled, consumed, begin, polling,
          running, finished, status, received, rejected, lost>>
peer == <<sent, newlines, garbled, eof>>
tasks == <<running, finished>>

Init == /\ sent = 0 /\ newlines = {} /\ garbled = {} /\ eof = FALSE
        /\ filled = 0 /\ consumed = 0 /\ begin = 0 /\ polling = FALSE
        /\ running = 0 /\ finished = 0 /\ status = "open"
        /\ received = <<>> /\ rejected = 0 /\ lost = {}

Smaller(a, b) == IF a < b THEN a ELSE b

\* The position before the first byte of the frame that byte p belongs to.
FrameStart(p) ==
  CHOOSE s \in newlines \cup {0} :
     /\ s < p
     /\ \A t \in newlines : t < p => t <= s

-----------------------------------------------------------------------------
(* The peer.  A frame that is JSON has at least one byte before its newline. *)

WriteByte ==
  /\ sent < STREAM /\ ~eof
  /\ sent' = sent + 1
  /\ UNCHANGED <<newlines, garbled>>

WriteNewline ==
  /\ sent < STREAM /\ ~eof
  /\ sent' = sent + 1
  /\ newlines' = newlines \cup {sent + 1}
  /\ \E bad \in BOOLEAN :
        /\ sent \in newlines \cup {0} => bad
        /\ garbled' = IF bad THEN garbled \cup {sent + 1} ELSE garbled

PeerWrites ==
  /\ WriteByte \/ WriteNewline
  /\ UNCHANGED <<eof, filled, consumed, begin, polling, tasks, status,
                 received, rejected, lost>>

PeerCloses ==
  /\ ~eof
  /\ eof' = TRUE
  /\ UNCHANGED <<sent, newlines, garbled, filled, consumed, begin, polling,
                 tasks, status, received, rejected, lost>>

-----------------------------------------------------------------------------
(* One pass of the loop of frame(). *)

\* fill_buf reads only when the buffer is empty.
FillBuf == IF consumed < filled THEN filled
           ELSE Smaller(sent, filled + BUFFER)

\* The newline among the buffered bytes, if there is one: the first.
EndIn(top) == {n \in newlines : /\ consumed < n /\ n <= top
                                /\ \A m \in newlines : m > consumed => n <= m}

\* Mutant: everything buffered is taken, the bytes after the newline too.
MutCount(top) == top - consumed

\* How many bytes this pass takes: up to the newline, else all.
Count(top) == IF EndIn(top) = {} THEN top - consumed
              ELSE (CHOOSE n \in EndIn(top) : TRUE) - consumed

\* Mutant: the limit is tested before the bytes of this pass are counted.
MutTooLong(count) == consumed - begin > MAX_FRAME

\* Mutant: a frame of exactly MAX_FRAME bytes is refused.
MutTooLongByOne(count) == (consumed - begin) + count >= MAX_FRAME

\* frame.len() + count > MAX_FRAME: checked before the vector grows.
TooLong(count) == (consumed - begin) + count > MAX_FRAME

\* The loop gets the bytes begin+1 .. to.  Only a whole JSON frame parses: a
\* proper tail of a JSON object, or a newline alone, never does.
Parses(to) == begin = FrameStart(to) /\ to \notin garbled

\* A frame that parses becomes a request task, or is handled at once: a reply
\* to a host call, a notification, or a request that is refused.  What does
\* not parse is refused too.  A refusal is queued by try_control, and the loop
\* breaks when there is no room for it.
HandOver(to) ==
  /\ received' = Append(received, [from |-> begin, to |-> to])
  /\ begin' = to
  /\ polling' = FALSE
  /\ \/ /\ Parses(to)
        /\ running' = running + 1
        /\ UNCHANGED <<rejected, status>>
     \/ /\ Parses(to)
        /\ status' \in {"open", "full"}
        /\ UNCHANGED <<running, rejected>>
     \/ /\ ~Parses(to)
        /\ rejected' = rejected + 1
        /\ status' \in {"open", "full"}
        /\ UNCHANGED running

\* Mutant: the loop reads on only when every request has been served.
MutFrameTurn == status = "open" /\ finished = 0 /\ running = 0

\* The select! turn may poll frame(): no earlier branch of the biased select
\* is ready, or the poll is already under way.
FrameTurn == status = "open" /\ (polling \/ finished = 0)

TakeBytes ==
  /\ FrameTurn
  /\ FillBuf > consumed
  /\ ~TooLong(Count(FillBuf))
  /\ filled' = FillBuf
  /\ consumed' = consumed + Count(FillBuf)
  /\ IF EndIn(FillBuf) # {}
     THEN HandOver(consumed')
     ELSE /\ polling' = TRUE
          /\ UNCHANGED <<begin, running, status, received, rejected>>
  /\ UNCHANGED <<peer, finished, lost>>

FrameTooLong ==
  /\ FrameTurn
  /\ FillBuf > consumed
  /\ TooLong(Count(FillBuf))
  /\ filled' = FillBuf
  /\ status' = "toolong"
  /\ polling' = FALSE
  /\ UNCHANGED <<peer, consumed, begin, tasks, received, rejected, lost>>

EndOfInput ==
  /\ FrameTurn
  /\ FillBuf = consumed /\ eof
  /\ status' = IF begin = consumed THEN "eof" ELSE "truncated"
  /\ polling' = FALSE
  /\ UNCHANGED <<peer, filled, consumed, begin, tasks, received, rejected,
                 lost>>

\* fill_buf() fails: read(2) on stdin does.
ReadError ==
  /\ FrameTurn
  /\ consumed = filled
  /\ status' = "unreadable"
  /\ polling' = FALSE
  /\ UNCHANGED <<peer, filled, consumed, begin, tasks, received, rejected,
                 lost>>

\* fill_buf is pending: the loop sleeps until a branch wakes it.
FramePending ==
  /\ status = "open" /\ polling
  /\ FillBuf = consumed /\ ~eof
  /\ polling' = FALSE
  /\ UNCHANGED <<peer, filled, consumed, begin, tasks, status, received,
                 rejected, lost>>

-----------------------------------------------------------------------------
(* The branches before frame() in the biased select!, and the tasks.  All   *)
(* run on one thread, so none runs during a poll of frame().                *)

TaskFinishes ==
  /\ running > 0 /\ ~polling
  /\ running' = running - 1
  /\ finished' = finished + 1
  /\ UNCHANGED <<peer, filled, consumed, begin, polling, status, received,
                 rejected, lost>>

\* join_next wins the turn: the frame() future and its vector are dropped.
DropFuture ==
  /\ lost' = lost \cup (begin + 1)..consumed
  /\ begin' = consumed

JoinNext ==
  /\ status = "open" /\ ~polling /\ finished > 0
  /\ finished' = finished - 1
  /\ DropFuture
  /\ status' \in {"open", "panicked"}
  /\ UNCHANGED <<peer, filled, consumed, polling, running, received, rejected>>

\* Shutdown, a signal, or the closed outbox.
Stopped ==
  /\ status = "open" /\ ~polling
  /\ status' = "stopped"
  /\ DropFuture
  /\ UNCHANGED <<peer, filled, consumed, polling, tasks, received, rejected>>

Ended == status # "open" /\ UNCHANGED vars

Reader == TakeBytes \/ FrameTooLong \/ EndOfInput \/ FramePending \/ JoinNext

Next == \/ PeerWrites \/ PeerCloses
        \/ Reader \/ ReadError \/ TaskFinishes \/ Stopped \/ Ended

Spec == Init /\ [][Next]_vars

\* The executor polls a woken task: bytes, end of file and a finished task
\* all wake the loop.
FairSpec == Spec /\ WF_vars(Reader)

-----------------------------------------------------------------------------
(* Properties. *)

\* The state has its types, and the positions stay in the order in which bytes
\* move: a vector ends where consumption stands, the BufReader holds only
\* bytes it read, and it read only bytes that were sent.
TypeOK ==
  /\ begin \in Nat /\ begin <= consumed
  /\ consumed \in Nat /\ consumed <= filled
  /\ filled \in Nat /\ filled <= sent
  /\ sent \in 0..STREAM
  /\ newlines \subseteq 1..sent /\ garbled \subseteq newlines
  /\ lost \subseteq 1..consumed
  /\ running \in Nat /\ finished \in Nat /\ rejected \in Nat
  /\ eof \in BOOLEAN /\ polling \in BOOLEAN
  /\ status \in {"open", "eof", "truncated", "toolong", "full", "panicked",
                 "stopped", "unreadable"}
  /\ received \in Seq([from : Nat, to : Nat])

\* frame()'s comment: "Incremental framing never grows the input buffer beyond
\* the configured limit", whatever the chunks the bytes arrive in.
BufferBound ==
  /\ TypeOK
  /\ consumed - begin <= MAX_FRAME
  /\ \A k \in DOMAIN received : received[k].to - received[k].from <= MAX_FRAME

\* A tail of one frame of the peer: it ends at the newline, holds no byte of
\* another frame, and what misses at its head was lost in a dropped future.
IsTail(r) ==
  /\ r.to \in newlines
  /\ FrameStart(r.to) <= r.from /\ r.from < r.to
  /\ (FrameStart(r.to) + 1)..r.from \subseteq lost

\* The loop never gets two frames merged, a frame twice or two frames out of
\* order: chunk boundaries and dropped futures can only cut a frame's head.
FramesAreTails ==
  /\ \A k \in DOMAIN received : IsTail(received[k])
  /\ \A j, k \in DOMAIN received : j < k => received[j].to <= received[k].from
  /\ \A n \in newlines : (n <= consumed /\ n \notin lost)
                         => \E k \in DOMAIN received : received[k].to = n

\* The loop ends on its input only for a reason the peer gave: an end of file
\* read to the last byte, one inside a frame, or a frame above the limit.  A
\* frame of exactly MAX_FRAME bytes is accepted.
EndIsJustified ==
  /\ status \in {"eof", "truncated"} => eof /\ consumed = sent
  /\ status = "truncated" => sent \notin newlines
  /\ (status = "eof" /\ lost = {}) => sent \in newlines \cup {0}
  /\ status = "toolong" =>
        \E p \in 1..sent : p - FrameStart(p) > MAX_FRAME

\* The reader is independent of request execution: every byte sent is consumed
\* or the session ends, although a request task may run for ever.
ReaderKeepsUp ==
  \A p \in 1..STREAM : (sent >= p) ~> (consumed >= p \/ status # "open")

\* DESIGN.md keeps the reader "separate from request execution": no frame
\* loses bytes because a request task finished while it was arriving.
FramesAreWhole ==
  \A k \in DOMAIN received : received[k].from = FrameStart(received[k].to)

=============================================================================
