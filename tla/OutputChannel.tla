--------------------------- MODULE OutputChannel ----------------------------
(***************************************************************************)
(* What the outbox promises to those who send through it, without its      *)
(* bounds, its notifications and its choice of the next frame: one control *)
(* queue and one queue per object, each first in first out.  A frame is    *)
(* handed to the writer once, and is lost only where the code removes it:  *)
(* the one request of a call that ended, or everything of an object.       *)
(*                                                                         *)
(* This is the specification that Outbox implements (Outbox!Channel).      *)
(***************************************************************************)
EXTENDS Integers, SequencesExt

CONSTANTS Objects, Frames, ControlFrames, None

VARIABLES control,   \* frames of the control queue
          data,      \* [Objects -> Seq(Frames)]
          out        \* the frame handed to the writer, or None

chan == <<control, data, out>>

Init ==
  /\ control = <<>>
  /\ data = [o \in Objects |-> <<>>]
  /\ out = None

SendControl ==
  \E f \in ControlFrames :
    /\ control' = Append(control, f)
    /\ UNCHANGED <<data, out>>

SendData(o) ==
  \E f \in Frames :
    /\ data' = [data EXCEPT ![o] = Append(@, f)]
    /\ UNCHANGED <<control, out>>

\* The frame of one request is withdrawn; it has not been handed out.
Withdraw(o) ==
  \E i \in DOMAIN data[o] :
    /\ data' = [data EXCEPT ![o] = RemoveAt(@, i)]
    /\ UNCHANGED <<control, out>>

Discard(o) ==
  /\ data' = [data EXCEPT ![o] = <<>>]
  /\ UNCHANGED <<control, out>>

HandControl ==
  /\ out = None
  /\ control # <<>>
  /\ out' = Head(control)
  /\ control' = Tail(control)
  /\ UNCHANGED data

HandData(o) ==
  /\ out = None
  /\ data[o] # <<>>
  /\ out' = Head(data[o])
  /\ data' = [data EXCEPT ![o] = Tail(@)]
  /\ UNCHANGED control

\* The frame is written, or given up with the pipe.
Done ==
  /\ out' = None
  /\ UNCHANGED <<control, data>>

Next ==
  \/ SendControl \/ HandControl \/ Done
  \/ \E o \in Objects : SendData(o) \/ Withdraw(o) \/ Discard(o) \/ HandData(o)

Spec == Init /\ [][Next]_chan
=============================================================================
