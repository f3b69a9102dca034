---------------------------- MODULE CallProtocol -----------------------------
(***************************************************************************)
(* What guest-to-host calls promise to a guest and to the embedder,        *)
(* without queues, without the table of pending calls and without guards:  *)
(* ids that are drawn in order, one call of an object at a time, requests  *)
(* of open calls only, one answer to an id, and a notification for a call  *)
(* that was given up.                                                      *)
(*                                                                         *)
(* This is the specification that HostCalls implements                     *)
(* (HostCalls!Protocol).                                                   *)
(***************************************************************************)
EXTENDS Integers

CONSTANTS Objects, MAX_SERIAL,
          Replies     \* what an answer can carry

VARIABLES last,       \* the last id drawn
          open,       \* [Objects -> the id of the open call, or 0]
          over,       \* objects that have ended
          asked,      \* ids whose request the embedder was sent
          withdrawn,  \* ids whose end the embedder was told of
          answer,     \* [Ids -> the answer that was accepted, or "none"]
          result      \* [Ids -> what the call returned, or "none"]

prot == <<last, open, over, asked, withdrawn, answer, result>>

Ids == 1..MAX_SERIAL
Open == {open[o] : o \in Objects} \ {0}

\* The call of an object is over and its id had this end.
Finished(id, r) == result' = [i \in Ids |-> IF i = id THEN r ELSE result[i]]

Init ==
  /\ last = 0
  /\ open = [o \in Objects |-> 0]
  /\ over = {}
  /\ asked = {} /\ withdrawn = {}
  /\ answer = [id \in Ids |-> "none"]
  /\ result = [id \in Ids |-> "none"]

\* A call draws an id, and opens or finds the session closed.
Begin(o) ==
  /\ o \notin over
  /\ open[o] = 0
  /\ last < MAX_SERIAL
  /\ last' = last + 1
  /\ \/ open' = [open EXCEPT ![o] = last + 1] /\ UNCHANGED result
     \/ Finished(last + 1, "CLOSED") /\ UNCHANGED open
  /\ UNCHANGED <<over, asked, withdrawn, answer>>

\* The embedder is asked while the call is open, never later.
Ask(id) ==
  /\ id \in Open
  /\ asked' = asked \cup {id}
  /\ UNCHANGED <<last, open, over, withdrawn, answer, result>>

\* One answer to an open call counts.
Accept(id, r) ==
  /\ id \in Open
  /\ answer[id] = "none"
  /\ answer' = [answer EXCEPT ![id] = r]
  /\ UNCHANGED <<last, open, over, asked, withdrawn, result>>

\* A call returns the answer to its own id.  It times out on an answer only
\* if the embedder was never asked, and is refused only then.
Finish(o, r) ==
  /\ open[o] # 0
  /\ \/ r \in Replies /\ answer[open[o]] = r
     \/ r = "TIMEOUT" /\ (open[o] \in asked => answer[open[o]] = "none")
     \/ r = "CLOSED" /\ open[o] \notin asked
  /\ Finished(open[o], r)
  /\ open' = [open EXCEPT ![o] = 0]
  /\ UNCHANGED <<last, over, asked, withdrawn, answer>>

\* An object ends, and with it its call.
End(o) ==
  /\ o \notin over
  /\ over' = over \cup {o}
  /\ open' = [open EXCEPT ![o] = 0]
  /\ Finished(open[o], "dropped")
  /\ UNCHANGED <<last, asked, withdrawn, answer>>

\* The embedder is told, once at most, that a call without an answer timed
\* out or went down with its object.
Withdraw(id) ==
  /\ result[id] \in {"TIMEOUT", "dropped"}
  /\ answer[id] = "none"
  /\ id \notin withdrawn
  /\ withdrawn' = withdrawn \cup {id}
  /\ UNCHANGED <<last, open, over, asked, answer, result>>

Next ==
  \/ \E o \in Objects : Begin(o) \/ End(o) \/ \E r \in Replies \cup {"TIMEOUT", "CLOSED"} : Finish(o, r)
  \/ \E id \in Ids : Ask(id) \/ Withdraw(id) \/ \E r \in Replies : Accept(id, r)

Spec == Init /\ [][Next]_prot
=============================================================================
