---------------------------- MODULE ObjectProofs ----------------------------
(***************************************************************************)
(* Proofs about the two sides of an object: its life (Lifecycle), for any  *)
(* number of objects and of requests that stop them, and the handles and   *)
(* values of its guest (Guest), for any limits, texts and payloads.        *)
(*                                                                         *)
(* StateMatchesTask is not inductive: whether a stop may return depends on *)
(* what the stops in progress know (StopsWait), whether a load may list an *)
(* object on what an id that is not listed can be (FreshIds), and what is  *)
(* left at the end on the list that Runtime::shutdown works through        *)
(* (ShutdownCovers).                                                       *)
(*                                                                         *)
(* That a handle is fresh rests on all ids in use being below the counter  *)
(* (HandlesAreOld).  That a value stays bounded rests on its being a tree  *)
(* (IsValue, in Held): only then is a child of it no larger, and what      *)
(* h_set and h_push check before they keep it a value again.  The walk of  *)
(* valid_value() counts all nodes (VisitCounts), and what leaves the       *)
(* mailbox is an envelope around a payload that was checked (MailboxFits). *)
(***************************************************************************)
EXTENDS Lifecycle, Guest, SequenceLemmas, TLAPS

\* An id that no object has yet has nothing; a load in progress has such an id.
FreshIds ==
  /\ \A id \in Ids : state[id] = "none" =>
       id \notin listed /\ id \notin program /\ task[id] = "none" /\ events[id] = 0
  /\ \A id \in Ids : id > next \/ id \in loading => state[id] = "none"

\* A stop that waits has cancelled its object and waits for its task; one that
\* was woken finds the task over.
StopsWait ==
  /\ \A id \in Ids : state[id] = "Stopping" => id \in cancel
  /\ \A h \in Stoppers : stopper[h].pc = "parked" =>
       stopper[h].id \in Ids /\ state[stopper[h].id] = "Stopping"
  /\ \A h \in Stoppers : stopper[h].pc = "woken" =>
       stopper[h].id \in Ids /\ state[stopper[h].id] \in Terminal
  /\ \A h \in Stoppers : stopper[h].pc = "none" => stopper[h] = NoStop

\* Only listed objects have a program.  Before the shutdown nobody stops for
\* it; once it has begun no request is left, and what still has a program is
\* waited for or on its list.
ShutdownCovers ==
  /\ program \subseteq listed
  /\ phase \in {"serving", "aborting"} => stopper["main"] = NoStop
  /\ phase \in {"stopping", "done"} => loading = {} /\ \A h \in Handlers : stopper[h] = NoStop
  /\ phase = "stopping" => program \subseteq toStop \cup {stopper["main"].id}
  /\ phase = "done" => listed = {}

IndInv ==
  StateMatchesTask /\ StopIsComplete /\ FreshIds /\ StopsWait /\ ShutdownCovers

-----------------------------------------------------------------------------
\* Nothing has begun: no object, no request, no stop.
LEMMA InitIndInv == Init => IndInv
BY LifecycleAssumption
   DEF LifecycleAssumption, Init, IndInv, StateMatchesTask, TypeOK, StopIsComplete, FreshIds,
       StopsWait, ShutdownCovers, Ids, Live, Terminal, Stoppers, NoStop, TaskLives

(***************************************************************************)
(* Loads, starts and deliveries.                                           *)
(***************************************************************************)

\* A new serial number belongs to no object yet.
LEMMA LoadStartOK ==
  ASSUME IndInv, LoadStart
  PROVE  IndInv'
<1> USE LifecycleAssumption DEF LifecycleAssumption, IndInv, LoadStart, tasks, stops, Ids
<1>1. StateMatchesTask'
  BY DEF StateMatchesTask, TypeOK, TaskLives
<1>2. StopIsComplete'
  BY DEF StopIsComplete, TaskLives
<1>3. FreshIds'
  BY DEF FreshIds, StateMatchesTask, TypeOK
<1>4. StopsWait'
  BY DEF StopsWait
<1>5. ShutdownCovers'
  BY DEF ShutdownCovers
<1> QED BY <1>1, <1>2, <1>3, <1>4, <1>5

\* A load lists an object that nobody knew: it was stopped by nobody.
LEMMA LoadOkOK ==
  ASSUME IndInv, NEW id \in Ids, LoadOk(id)
  PROVE  IndInv'
<1> USE DEF IndInv, LoadOk, tasks, stops, Ids, Terminal, Live
<1>1. StateMatchesTask'
  BY DEF StateMatchesTask, TypeOK, TaskLives, FreshIds
<1>2. StopIsComplete'
  BY DEF StopIsComplete, StateMatchesTask, TypeOK, TaskLives, FreshIds
<1>3. FreshIds'
  BY DEF FreshIds, StateMatchesTask, TypeOK
<1>4. StopsWait'
  BY DEF StopsWait, FreshIds, StateMatchesTask, TypeOK
<1>5. ShutdownCovers'
  BY DEF ShutdownCovers
<1> QED BY <1>1, <1>2, <1>3, <1>4, <1>5

\* A failed load only gives up its serial number.
LEMMA LoadFailOK ==
  ASSUME IndInv, NEW id \in Ids, LoadFail(id)
  PROVE  IndInv'
<1> USE DEF IndInv, LoadFail, tasks, stops, Ids
<1>1. StateMatchesTask'
  BY DEF StateMatchesTask, TypeOK, TaskLives
<1>2. StopIsComplete'
  BY DEF StopIsComplete, TaskLives
<1>3. FreshIds'
  BY DEF FreshIds
<1>4. StopsWait'
  BY DEF StopsWait
<1>5. ShutdownCovers'
  BY DEF ShutdownCovers
<1> QED BY <1>1, <1>2, <1>3, <1>4, <1>5

\* start() takes the object out of Loaded, together with its task.
LEMMA StartOK ==
  ASSUME IndInv, NEW id \in Ids, Start(id)
  PROVE  IndInv'
<1> USE DEF IndInv, Start, serial, stops, Ids, Terminal, Live
<1>1. StateMatchesTask'
  BY DEF StateMatchesTask, TypeOK, TaskLives
<1>2. StopIsComplete'
  BY DEF StopIsComplete, StateMatchesTask, TypeOK, TaskLives
<1>3. FreshIds'
  BY DEF FreshIds, StateMatchesTask, TypeOK
<1>4. StopsWait'
  BY DEF StopsWait, StateMatchesTask, TypeOK
<1>5. ShutdownCovers'
  BY DEF ShutdownCovers
<1> QED BY <1>1, <1>2, <1>3, <1>4, <1>5

\* deliver() adds an event only to an object that will still read it.
LEMMA DeliverOK ==
  ASSUME IndInv, NEW id \in Ids, Deliver(id)
  PROVE  IndInv'
<1> USE LifecycleAssumption
        DEF LifecycleAssumption, IndInv, Deliver, serial, tasks, stops, Ids, Terminal, Live
<1>1. StateMatchesTask'
  BY SMTT(20) DEF StateMatchesTask, TypeOK, TaskLives
<1>2. StopIsComplete'
  BY DEF StopIsComplete, StateMatchesTask, TypeOK, TaskLives
<1>3. FreshIds'
  BY DEF FreshIds, StateMatchesTask, TypeOK
<1>4. StopsWait'
  BY DEF StopsWait
<1>5. ShutdownCovers'
  BY DEF ShutdownCovers
<1> QED BY <1>1, <1>2, <1>3, <1>4, <1>5

(***************************************************************************)
(* The object task.                                                        *)
(***************************************************************************)

\* DoneWakes changes no stop but the parked ones of the object.
LEMMA DoneWakesType ==
  ASSUME TypeOK, NEW id \in Ids
  PROVE  /\ DoneWakes(id) \in [Stoppers -> [pc : {"none", "parked", "woken"},
                                            id : 0..MAX_SERIAL, unload : BOOLEAN]]
         /\ \A h \in Stoppers : /\ DoneWakes(id)[h].id = stopper[h].id
                                /\ DoneWakes(id)[h].pc =
                                     IF stopper[h].id = id /\ stopper[h].pc = "parked"
                                     THEN "woken" ELSE stopper[h].pc
                                /\ stopper[h].pc = "none" => DoneWakes(id)[h] = stopper[h]
<1>1. ASSUME NEW h \in Stoppers
      PROVE  /\ stopper[h] \in [pc : {"none", "parked", "woken"}, id : 0..MAX_SERIAL,
                                unload : BOOLEAN]
             /\ [stopper[h] EXCEPT !.pc = "woken"]
                  \in [pc : {"none", "parked", "woken"}, id : 0..MAX_SERIAL, unload : BOOLEAN]
             /\ [stopper[h] EXCEPT !.pc = "woken"].pc = "woken"
             /\ [stopper[h] EXCEPT !.pc = "woken"].id = stopper[h].id
  BY DEF TypeOK
<1> QED BY <1>1 DEF DoneWakes

\* The task ends in a terminal state and wakes whoever waits for that.
LEMMA TaskEndsOK ==
  ASSUME IndInv, NEW id \in Ids, NEW s \in Terminal,
         NEW o \in {"none", "exit_code", "PROGRAM_FAULT"}, TaskEnds(id, s, o)
  PROVE  IndInv'
<1> USE LifecycleAssumption
        DEF LifecycleAssumption, IndInv, TaskEnds, serial, stops, Ids, Terminal, Live
<1>0. TypeOK /\ (\A h \in Stoppers : stopper[h].pc \in {"none", "parked", "woken"})
  BY DEF StateMatchesTask, TypeOK
<1>1. StateMatchesTask'
  <2>0. DoneWakes(id) \in [Stoppers -> [pc : {"none", "parked", "woken"},
                                       id : 0..MAX_SERIAL, unload : BOOLEAN]]
    BY <1>0, DoneWakesType DEF Ids
  <2>1. TypeOK'
    BY <1>0, <2>0 DEF TypeOK
  <2> QED BY SMTT(20), <2>1 DEF StateMatchesTask, TypeOK, TaskLives
<1>2. StopIsComplete'
  BY DEF StopIsComplete, StateMatchesTask, TypeOK, TaskLives
<1>3. FreshIds'
  BY DEF FreshIds, StateMatchesTask, TypeOK
<1>4. StopsWait'
  <2>1. /\ \A h \in Stoppers : stopper'[h].id = stopper[h].id
        /\ \A h \in Stoppers : stopper'[h].pc = IF stopper[h].id = id /\ stopper[h].pc = "parked"
                                               THEN "woken" ELSE stopper[h].pc
        /\ \A h \in Stoppers : stopper[h].pc = "none" => stopper'[h] = stopper[h]
    BY <1>0, DoneWakesType
  <2>2. /\ state'[id] = s
        /\ \A i \in Ids : i # id => state'[i] = state[i]
    BY DEF StateMatchesTask, TypeOK
  <2>3. \A i \in Ids : state'[i] = "Stopping" => i \in cancel'
    BY <2>2 DEF StopsWait
  <2>4. ASSUME NEW h \in Stoppers, stopper'[h].pc = "parked"
        PROVE  stopper'[h].id \in Ids /\ state'[stopper'[h].id] = "Stopping"
    BY <2>1, <2>2, <2>4 DEF StopsWait
  <2>5. ASSUME NEW h \in Stoppers, stopper'[h].pc = "woken"
        PROVE  stopper'[h].id \in Ids /\ state'[stopper'[h].id] \in Terminal
    BY <2>1, <2>2, <2>5 DEF StopsWait
  <2>6. ASSUME NEW h \in Stoppers, stopper'[h].pc = "none"
        PROVE  stopper'[h] = NoStop
    BY <2>1, <2>6 DEF StopsWait
  <2> QED BY <2>3, <2>4, <2>5, <2>6 DEF StopsWait
<1>5. ShutdownCovers'
  <2>1. ASSUME NEW h \in Stoppers, stopper[h] = NoStop PROVE stopper'[h] = NoStop
    BY <1>0, <2>1, DoneWakesType DEF NoStop
  <2> QED BY <1>0, <2>1, DoneWakesType DEF ShutdownCovers, Stoppers
<1> QED BY <1>1, <1>2, <1>3, <1>4, <1>5

\* The first poll sets Running; nobody waits for an object whose token is intact.
LEMMA TaskRunsOK ==
  ASSUME IndInv, NEW id \in Ids, TaskRuns(id)
  PROVE  IndInv'
<1> USE DEF IndInv, TaskRuns, serial, stops, Ids, Terminal, Live
<1>1. StateMatchesTask'
  BY DEF StateMatchesTask, TypeOK, TaskLives
<1>2. StopIsComplete'
  BY DEF StopIsComplete, StateMatchesTask, TypeOK, TaskLives
<1>3. FreshIds'
  BY DEF FreshIds, StateMatchesTask, TypeOK
<1>4. StopsWait'
  BY DEF StopsWait, StateMatchesTask, TypeOK, TaskLives
<1>5. ShutdownCovers'
  BY DEF ShutdownCovers
<1> QED BY <1>1, <1>2, <1>3, <1>4, <1>5

\* A running program only takes an event.
LEMMA TaskReceivesOK ==
  ASSUME IndInv, NEW id \in Ids, TaskReceives(id)
  PROVE  IndInv'
<1> USE DEF IndInv, TaskReceives, serial, tasks, stops, Ids, Terminal, Live
<1>0. events[id] - 1 \in 0..MAX_EVENTS
  BY LifecycleAssumption DEF LifecycleAssumption, StateMatchesTask, TypeOK
<1>1. StateMatchesTask'
  BY <1>0 DEF StateMatchesTask, TypeOK, TaskLives
<1>2. StopIsComplete'
  BY DEF StopIsComplete, StateMatchesTask, TypeOK, TaskLives
<1>3. FreshIds'
  BY DEF FreshIds, StateMatchesTask, TypeOK
<1>4. StopsWait'
  BY DEF StopsWait
<1>5. ShutdownCovers'
  BY DEF ShutdownCovers
<1> QED BY <1>1, <1>2, <1>3, <1>4, <1>5

(***************************************************************************)
(* Object::stop.                                                           *)
(***************************************************************************)

\* A stop that completes on an object without a task, which is or becomes
\* terminal, keeps the invariant but for ShutdownCovers.
LEMMA StopCompletesOK ==
  ASSUME IndInv, NEW h \in Stoppers, NEW id \in Ids, NEW unload \in BOOLEAN,
         NEW s \in Terminal, state[id] \in Terminal \cup {"Loaded"},
         state' = [state EXCEPT ![id] = s], StopCompletes(h, id, unload),
         toStop' \subseteq Ids, UNCHANGED <<phase, serial, cancel, task, outcome>>
  PROVE  StateMatchesTask' /\ StopIsComplete' /\ FreshIds' /\ StopsWait'
<1> USE LifecycleAssumption
        DEF LifecycleAssumption, IndInv, StopCompletes, serial, Ids, Terminal, Live, NoStop
<1>1. StateMatchesTask'
  <2>1. stopper' \in [Stoppers -> [pc : {"none", "parked", "woken"}, id : 0..MAX_SERIAL,
                                   unload : BOOLEAN]]
    BY DEF StateMatchesTask, TypeOK
  <2>2. TypeOK'
    BY SMTT(20), <2>1 DEF StateMatchesTask, TypeOK
  <2> QED BY <2>2 DEF StateMatchesTask, TypeOK, TaskLives
<1>2. StopIsComplete'
  BY DEF StopIsComplete, StateMatchesTask, TypeOK, TaskLives
<1>3. FreshIds'
  BY DEF FreshIds, StateMatchesTask, TypeOK
<1>4. StopsWait'
  <2>1. /\ stopper'[h] = NoStop
        /\ \A g \in Stoppers : g # h => stopper'[g] = stopper[g]
        /\ \A i \in Ids : state'[i] = IF i = id THEN s ELSE state[i]
    BY DEF StateMatchesTask, TypeOK
  <2>2. \A i \in Ids : /\ state[i] = "Stopping" => state'[i] = "Stopping"
                       /\ state[i] \in Terminal => state'[i] \in Terminal
    BY <2>1
  <2>3. \A i \in Ids : state'[i] = "Stopping" => i \in cancel'
    BY <2>1 DEF StopsWait
  <2>4. ASSUME NEW g \in Stoppers
        PROVE  /\ stopper'[g].pc = "parked" =>
                    stopper'[g].id \in Ids /\ state'[stopper'[g].id] = "Stopping"
               /\ stopper'[g].pc = "woken" =>
                    stopper'[g].id \in Ids /\ state'[stopper'[g].id] \in Terminal
               /\ stopper'[g].pc = "none" => stopper'[g] = NoStop
    <3>1. CASE g = h
      BY <2>1, <3>1
    <3>2. CASE g # h
      BY <2>1, <2>2, <3>2 DEF StopsWait
    <3> QED BY <3>1, <3>2
  <2> QED BY <2>3, <2>4 DEF StopsWait
<1> QED BY <1>1, <1>2, <1>3, <1>4

\* A stop that has to wait leaves a cancelled object in Stopping.
LEMMA StopParksOK ==
  ASSUME IndInv, NEW h \in Stoppers, NEW id \in Ids, NEW unload \in BOOLEAN,
         state[id] \in Live,
         state' = [state EXCEPT ![id] = "Stopping"],
         cancel' = cancel \cup {id},
         stopper' = [stopper EXCEPT ![h] = [pc |-> "parked", id |-> id, unload |-> unload]],
         toStop' \subseteq Ids,
         UNCHANGED <<phase, serial, handle, program, events, listed, returned, task, outcome>>
  PROVE  StateMatchesTask' /\ StopIsComplete' /\ FreshIds' /\ StopsWait'
<1> USE LifecycleAssumption
        DEF LifecycleAssumption, IndInv, serial, Ids, Terminal, Live, NoStop
<1>1. StateMatchesTask'
  <2>1. stopper' \in [Stoppers -> [pc : {"none", "parked", "woken"}, id : 0..MAX_SERIAL,
                                   unload : BOOLEAN]]
    BY DEF StateMatchesTask, TypeOK
  <2>2. TypeOK'
    BY <2>1 DEF StateMatchesTask, TypeOK
  <2> QED BY <2>2 DEF StateMatchesTask, TypeOK, TaskLives
<1>2. StopIsComplete'
  BY DEF StopIsComplete, StateMatchesTask, TypeOK, TaskLives
<1>3. FreshIds'
  BY DEF FreshIds, StateMatchesTask, TypeOK
<1>4. StopsWait'
  <2>1. /\ stopper'[h] = [pc |-> "parked", id |-> id, unload |-> unload]
        /\ \A g \in Stoppers : g # h => stopper'[g] = stopper[g]
        /\ \A i \in Ids : state'[i] = IF i = id THEN "Stopping" ELSE state[i]
    BY DEF StateMatchesTask, TypeOK
  <2>2. \A i \in Ids : state[i] \in Terminal \cup {"Stopping"} => state'[i] = state[i]
    BY <2>1
  <2>3. \A i \in Ids : state'[i] = "Stopping" => i \in cancel'
    BY <2>1 DEF StopsWait
  <2>4. ASSUME NEW g \in Stoppers
        PROVE  /\ stopper'[g].pc = "parked" =>
                    stopper'[g].id \in Ids /\ state'[stopper'[g].id] = "Stopping"
               /\ stopper'[g].pc = "woken" =>
                    stopper'[g].id \in Ids /\ state'[stopper'[g].id] \in Terminal
               /\ stopper'[g].pc = "none" => stopper'[g] = NoStop
    <3>1. CASE g = h
      BY <2>1, <3>1
    <3>2. CASE g # h
      BY <2>1, <2>2, <3>2 DEF StopsWait
    <3> QED BY <3>1, <3>2
  <2> QED BY <2>3, <2>4 DEF StopsWait
<1> QED BY <1>1, <1>2, <1>3, <1>4

\* The first poll of a stop, whatever the state of the object.
LEMMA StopBeginsOK ==
  ASSUME IndInv, NEW h \in Stoppers, NEW id \in Ids, NEW unload \in BOOLEAN,
         StopBegins(h, id, unload), toStop' \subseteq Ids,
         UNCHANGED <<phase, serial, task, outcome>>
  PROVE  StateMatchesTask' /\ StopIsComplete' /\ FreshIds' /\ StopsWait'
<1>1. CASE state[id] \in Live
  BY <1>1, StopParksOK DEF StopBegins, Live, Terminal
<1>2. CASE state[id] = "Loaded"
  BY <1>2, StopCompletesOK DEF StopBegins, Live, Terminal
<1>3. CASE state[id] \in Terminal
  <2>1. state' = [state EXCEPT ![id] = state[id]]
    BY <1>3 DEF StopBegins, Live, Terminal, IndInv, StateMatchesTask, TypeOK
  <2>2. StopCompletes(h, id, unload) /\ UNCHANGED cancel
    BY <1>3 DEF StopBegins, Live, Terminal
  <2> QED BY <1>3, <2>1, <2>2, StopCompletesOK
<1> QED BY <1>1, <1>2, <1>3 DEF StopBegins

\* A request stops an object: either its program stays and a task will end, or
\* the program goes first.
LEMMA StopRequestOK ==
  ASSUME IndInv, NEW h \in Handlers, NEW id \in Ids, NEW unload \in BOOLEAN,
         StopRequest(h, id, unload)
  PROVE  IndInv'
<1>1. StateMatchesTask' /\ StopIsComplete' /\ FreshIds' /\ StopsWait'
  <2>1. toStop' \subseteq Ids /\ h \in Stoppers
    BY DEF StopRequest, IndInv, StateMatchesTask, TypeOK, Stoppers
  <2> QED BY <2>1, StopBeginsOK DEF StopRequest
<1>2. ShutdownCovers'
  <2>1. phase' = "serving" /\ loading' = loading
    BY DEF StopRequest, serial
  <2>2. stopper'["main"] = stopper["main"]
    BY LifecycleAssumption
       DEF LifecycleAssumption, StopRequest, StopBegins, StopCompletes, IndInv,
           StateMatchesTask, TypeOK, Stoppers
  <2>3. program' \subseteq listed'
    BY DEF StopRequest, StopBegins, StopCompletes, IndInv, ShutdownCovers
  <2> QED BY <2>1, <2>2, <2>3 DEF StopRequest, IndInv, ShutdownCovers
<1> QED BY <1>1, <1>2 DEF IndInv

\* A stop that was woken returns; the object it waited for is over.
LEMMA StopResumesOK ==
  ASSUME IndInv, NEW h \in Stoppers, StopResumes(h)
  PROVE  IndInv'
<1> DEFINE id == stopper[h].id
<1>1. /\ id \in Ids /\ state[id] \in Terminal
      /\ stopper[h].unload \in BOOLEAN
      /\ StopCompletes(h, id, stopper[h].unload)
      /\ state' = [state EXCEPT ![id] = state[id]]
      /\ toStop' \subseteq Ids
      /\ UNCHANGED <<phase, serial, cancel, task, outcome, toStop>>
  BY DEF StopResumes, IndInv, StopsWait, StateMatchesTask, TypeOK
<1> HIDE DEF id
<1>2. StateMatchesTask' /\ StopIsComplete' /\ FreshIds' /\ StopsWait'
  BY <1>1, StopCompletesOK
<1>3. ShutdownCovers'
  <2>1. /\ listed' \subseteq listed
        /\ program' = program \ {id}
        /\ program' \subseteq listed'
        /\ stopper' = [stopper EXCEPT ![h] = NoStop]
    BY <1>1 DEF StopCompletes, IndInv, ShutdownCovers
  <2>2. /\ h = "main" => stopper'["main"].id = 0 /\ id = stopper["main"].id
        /\ \A g \in Stoppers : stopper[g] = NoStop => stopper'[g] = NoStop
        /\ h # "main" => stopper'["main"] = stopper["main"]
    BY <2>1 DEF NoStop, IndInv, StateMatchesTask, TypeOK, Stoppers, id
  <2> QED BY <1>1, <2>1, <2>2 DEF IndInv, ShutdownCovers, Stoppers, serial
<1> QED BY <1>2, <1>3 DEF IndInv

(***************************************************************************)
(* The end of the session.                                                 *)
(***************************************************************************)

\* abort_all() changes nothing yet.
LEMMA SessionEndsOK ==
  ASSUME IndInv, SessionEnds
  PROVE  IndInv'
<1> USE DEF IndInv, SessionEnds, serial, tasks, stops
<1>1. StateMatchesTask'
  BY DEF StateMatchesTask, TypeOK, TaskLives
<1>2. StopIsComplete'
  BY DEF StopIsComplete, TaskLives
<1>3. FreshIds'
  BY DEF FreshIds
<1>4. StopsWait'
  BY DEF StopsWait
<1>5. ShutdownCovers'
  BY DEF ShutdownCovers
<1> QED BY <1>1, <1>2, <1>3, <1>4, <1>5

\* An aborted stop is forgotten; what it cancelled stays cancelled.
LEMMA StopAbortedOK ==
  ASSUME IndInv, NEW h \in Handlers, StopAborted(h)
  PROVE  IndInv'
<1> USE LifecycleAssumption
        DEF LifecycleAssumption, IndInv, StopAborted, serial, tasks, NoStop, Stoppers
<1>1. StateMatchesTask'
  BY DEF StateMatchesTask, TypeOK, TaskLives
<1>2. StopIsComplete'
  BY DEF StopIsComplete, TaskLives
<1>3. FreshIds'
  BY DEF FreshIds
<1>4. StopsWait'
  BY DEF StopsWait, StateMatchesTask, TypeOK
<1>5. ShutdownCovers'
  BY DEF ShutdownCovers, StateMatchesTask, TypeOK
<1> QED BY <1>1, <1>2, <1>3, <1>4, <1>5

\* The list that the shutdown takes has every object with a program on it.
LEMMA ShutdownBeginsOK ==
  ASSUME IndInv, ShutdownBegins
  PROVE  IndInv'
<1> USE DEF IndInv, ShutdownBegins, serial, Ids
<1>1. StateMatchesTask'
  BY LifecycleAssumption DEF LifecycleAssumption, StateMatchesTask, TypeOK, TaskLives
<1>2. StopIsComplete'
  BY DEF StopIsComplete, TaskLives
<1>3. FreshIds'
  BY DEF FreshIds
<1>4. StopsWait'
  BY DEF StopsWait
<1>5. ShutdownCovers'
  BY DEF ShutdownCovers
<1> QED BY <1>1, <1>2, <1>3, <1>4, <1>5

\* An object leaves the list when its stop waits for it, or is done with it.
LEMMA ShutdownStopsOK ==
  ASSUME IndInv, NEW id \in Ids, ShutdownStops(id)
  PROVE  IndInv'
<1>1. StateMatchesTask' /\ StopIsComplete' /\ FreshIds' /\ StopsWait'
  <2>1. toStop' \subseteq Ids /\ "main" \in Stoppers /\ FALSE \in BOOLEAN
    BY DEF ShutdownStops, IndInv, StateMatchesTask, TypeOK, Stoppers
  <2>2. StopBegins("main", id, FALSE) /\ UNCHANGED <<phase, serial, task, outcome>>
    BY DEF ShutdownStops
  <2> QED BY <2>1, <2>2, StopBeginsOK
<1>2. ShutdownCovers'
  <2>1. /\ phase = "stopping" /\ phase' = "stopping"
        /\ loading' = loading /\ stopper["main"] = NoStop
        /\ toStop' = toStop \ {id}
    BY DEF ShutdownStops, serial
  <2>2. \A h \in Handlers : stopper'[h] = stopper[h]
    BY LifecycleAssumption
       DEF LifecycleAssumption, ShutdownStops, StopBegins, StopCompletes, IndInv,
           StateMatchesTask, TypeOK, Stoppers
  <2>3. program' \subseteq listed'
    BY DEF ShutdownStops, StopBegins, StopCompletes, IndInv, ShutdownCovers
  <2>4. program' \subseteq toStop' \cup {stopper'["main"].id}
    <3>1. program \subseteq toStop \cup {0} /\ program \subseteq Ids /\ 0 \notin Ids
      BY <2>1 DEF NoStop, IndInv, ShutdownCovers, StateMatchesTask, TypeOK, Ids
    <3>2. "main" \in Stoppers /\ stopper \in [Stoppers -> [pc : {"none", "parked", "woken"},
                                               id : 0..MAX_SERIAL, unload : BOOLEAN]]
      BY DEF Stoppers, IndInv, StateMatchesTask, TypeOK
    <3>3. program' = program \ {id} \/ (program' = program /\ stopper'["main"].id = id)
      BY <3>2 DEF ShutdownStops, StopBegins, StopCompletes
    <3> QED BY <2>1, <3>1, <3>3
  <2> QED BY <2>1, <2>2, <2>3, <2>4 DEF IndInv, ShutdownCovers
<1> QED BY <1>1, <1>2 DEF IndInv

\* The list is empty and nobody is waited for: no program is left.
LEMMA ShutdownDoneOK ==
  ASSUME IndInv, ShutdownDone
  PROVE  IndInv'
<1> USE DEF IndInv, ShutdownDone, serial, tasks, stops
<1>1. StateMatchesTask'
  BY DEF StateMatchesTask, TypeOK, TaskLives
<1>2. StopIsComplete'
  BY DEF StopIsComplete, TaskLives
<1>3. FreshIds'
  BY DEF FreshIds
<1>4. StopsWait'
  BY DEF StopsWait
<1>5. ShutdownCovers'
  BY DEF ShutdownCovers, NoStop, StateMatchesTask, TypeOK, Ids
<1> QED BY <1>1, <1>2, <1>3, <1>4, <1>5

-----------------------------------------------------------------------------
\* Every step of the specification keeps the invariant.
LEMMA NextIndInv == IndInv /\ [Next]_lvars => IndInv'
<1> SUFFICES ASSUME IndInv, [Next]_lvars PROVE IndInv'
  OBVIOUS
<1>1. CASE LoadStart
  BY <1>1, LoadStartOK
<1>2. ASSUME NEW id \in Ids, LoadOk(id) \/ LoadFail(id) \/ Start(id) \/ Deliver(id)
      PROVE  IndInv'
  BY <1>2, LoadOkOK, LoadFailOK, StartOK, DeliverOK
<1>3. ASSUME NEW id \in Ids, TaskCancelled(id) \/ TaskExits(id) \/ TaskFaults(id)
      PROVE  IndInv'
  BY <1>3, TaskEndsOK DEF TaskCancelled, TaskExits, TaskFaults, Terminal
<1>4. ASSUME NEW id \in Ids, TaskRuns(id) \/ TaskReceives(id) \/ ShutdownStops(id)
      PROVE  IndInv'
  BY <1>4, TaskRunsOK, TaskReceivesOK, ShutdownStopsOK
<1>5. ASSUME NEW h \in Handlers, NEW id \in Ids, NEW unload \in BOOLEAN,
             StopRequest(h, id, unload)
      PROVE  IndInv'
  BY <1>5, StopRequestOK
<1>6. ASSUME NEW h \in Stoppers, StopResumes(h)
      PROVE  IndInv'
  BY <1>6, StopResumesOK
<1>7. ASSUME NEW h \in Handlers, StopAborted(h)
      PROVE  IndInv'
  BY <1>7, StopAbortedOK
<1>8. CASE SessionEnds \/ ShutdownBegins \/ ShutdownDone
  BY <1>8, SessionEndsOK, ShutdownBeginsOK, ShutdownDoneOK
<1>9. CASE UNCHANGED lvars
  BY <1>9 DEF lvars, IndInv, StateMatchesTask, TypeOK, StopIsComplete, FreshIds, StopsWait,
              ShutdownCovers, TaskLives
<1> QED BY <1>1, <1>2, <1>3, <1>4, <1>5, <1>6, <1>7, <1>8, <1>9 DEF Next

\* The invariant that the theorems below come from holds in every state.
THEOREM InductiveInvariant == Spec => []IndInv
BY InitIndInv, NextIndInv, PTL DEF Spec

\* Object::state always tells whether a task will still end the object, the
\* program is there as long as start() or the task needs it, and a terminal
\* object holds no events.
THEOREM StateAlwaysMatchesTask == Spec => []StateMatchesTask
<1>1. IndInv => StateMatchesTask
  BY DEF IndInv
<1> QED BY <1>1, InductiveInvariant, PTL

\* Whichever of several concurrent stops of an object returns first, the
\* object is over and its program, JoinHandle and events are gone for good.
THEOREM EveryReturnedStopIsComplete == Spec => []StopIsComplete
<1>1. IndInv => StopIsComplete
  BY DEF IndInv
<1> QED BY <1>1, InductiveInvariant, PTL

\* After the shutdown no task, no program and no listed object is left,
\* wherever the session was when it ended.
THEOREM NothingIsLeft == Spec => []ShutdownLeavesNothing
<1>1. IndInv => ShutdownLeavesNothing
  BY DEF IndInv, ShutdownLeavesNothing, ShutdownCovers, StateMatchesTask, TypeOK
<1> QED BY <1>1, InductiveInvariant, PTL

\* A terminal state is final, and an id that left the list never comes back.
THEOREM TerminalStatesAreFinal == Spec => TerminalIsFinal
<1>1. ASSUME IndInv, [Next]_lvars, NEW id \in Ids
      PROVE  /\ state[id] \in Terminal => state'[id] = state[id]
             /\ id \notin listed /\ state[id] # "none" => id \notin listed'
  <2> USE DEF IndInv, StateMatchesTask, TypeOK, TaskLives, serial, tasks, stops, Live, Terminal
  <2>1. CASE LoadStart \/ SessionEnds \/ ShutdownBegins \/ ShutdownDone \/ UNCHANGED lvars
    BY <1>1, <2>1 DEF LoadStart, SessionEnds, ShutdownBegins, ShutdownDone, lvars
  <2>2. ASSUME NEW i \in Ids, LoadOk(i)
        PROVE  /\ state[id] \in Terminal => state'[id] = state[id]
               /\ id \notin listed /\ state[id] # "none" => id \notin listed'
    BY <1>1, <2>2 DEF LoadOk, FreshIds
  <2>3. ASSUME NEW i \in Ids, LoadFail(i) \/ Start(i) \/ Deliver(i) \/ TaskReceives(i)
        PROVE  /\ state[id] \in Terminal => state'[id] = state[id]
               /\ listed' = listed
    BY <1>1, <2>3 DEF LoadFail, Start, Deliver, TaskReceives
  <2>4. ASSUME NEW i \in Ids, TaskCancelled(i) \/ TaskExits(i) \/ TaskFaults(i) \/ TaskRuns(i)
        PROVE  /\ state[id] \in Terminal => state'[id] = state[id]
               /\ listed' = listed
    BY <1>1, <2>4 DEF TaskCancelled, TaskExits, TaskFaults, TaskRuns, TaskEnds
  <2>5. ASSUME NEW h \in Stoppers, NEW i \in Ids, NEW unload \in BOOLEAN,
               StopBegins(h, i, unload)
        PROVE  /\ state[id] \in Terminal => state'[id] = state[id]
               /\ listed' \subseteq listed
    BY <1>1, <2>5 DEF StopBegins, StopCompletes
  <2>6. ASSUME NEW h \in Stoppers, StopResumes(h)
        PROVE  state' = state /\ listed' \subseteq listed
    BY <1>1, <2>6 DEF StopResumes, StopCompletes
  <2>7. ASSUME NEW h \in Handlers, StopAborted(h)
        PROVE  state' = state /\ listed' = listed
    BY <1>1, <2>7 DEF StopAborted
  <2> HIDE DEF IndInv, StateMatchesTask, TypeOK, TaskLives, Live, Terminal
  <2> QED BY <1>1, <2>1, <2>2, <2>3, <2>4, <2>5, <2>6, <2>7
          DEF Next, StopRequest, ShutdownStops, Stoppers
<1>2. IndInv /\ [Next]_lvars =>
        [\A id \in Ids :
           /\ state[id] \in Terminal => state'[id] = state[id]
           /\ id \notin listed /\ state[id] # "none" => id \notin listed']_lvars
  BY <1>1
<1> QED BY <1>2, InductiveInvariant, PTL DEF Spec, TerminalIsFinal

-----------------------------------------------------------------------------
(***************************************************************************)
(* The walk of valid_value() through a value.                              *)
(***************************************************************************)

\* What the walk has counted after the nodes of T.
Walked(T) ==
  IF (\A p \in T : Len(p) <= MAX_DEPTH) /\ Cardinality(T) <= MAX_NODES
  THEN Cardinality(T) ELSE TooMuch

\* g solves the recursion of the walk for every set of nodes of S.
IsWalk(g, S) ==
  g = [s \in SUBSET S |->
         IF s = {} THEN 0
         ELSE IF \/ g[s \ {Pick(s)}] = TooMuch
                 \/ Len(Pick(s)) > MAX_DEPTH
                 \/ g[s \ {Pick(s)}] + 1 > MAX_NODES
         THEN TooMuch ELSE g[s \ {Pick(s)}] + 1]

\* The fold of the community modules is that recursion.
LEMMA VisitIs ==
  ASSUME NEW v
  PROVE  Visit(v) = (CHOOSE g : IsWalk(g, DOMAIN v))[DOMAIN v]
BY DEF Visit, FoldSet, MapThenFoldSet, IsWalk, Pick

\* What one more node does to the count.
LEMMA WalkStep ==
  ASSUME NEW s, IsFiniteSet(s), s # {}, \A p \in s : Len(p) \in Nat
  PROVE  Walked(s) = IF \/ Walked(s \ {Pick(s)}) = TooMuch
                        \/ Len(Pick(s)) > MAX_DEPTH
                        \/ Walked(s \ {Pick(s)}) + 1 > MAX_NODES
                     THEN TooMuch ELSE Walked(s \ {Pick(s)}) + 1
<1> DEFINE r == s \ {Pick(s)}
<1>1. /\ Pick(s) \in s
      /\ Cardinality(s) \in Nat /\ Cardinality(r) \in Nat
      /\ Cardinality(r) = Cardinality(s) - 1
  BY PickOne
<1>2. (\A p \in s : Len(p) <= MAX_DEPTH) <=>
        Len(Pick(s)) <= MAX_DEPTH /\ \A p \in r : Len(p) <= MAX_DEPTH
  BY <1>1
<1>3. MAX_DEPTH \in Nat /\ MAX_NODES \in Nat /\ Len(Pick(s)) \in Nat
  BY <1>1, GuestAssumption
<1> HIDE DEF r
<1> QED BY <1>1, <1>2, <1>3 DEF Walked, TooMuch, r

\* The walk ends with the number of nodes, unless the value is beyond a limit.
LEMMA VisitCounts ==
  ASSUME NEW v, IsFiniteSet(DOMAIN v), \A p \in DOMAIN v : Len(p) \in Nat
  PROVE  Visit(v) = Walked(DOMAIN v)
<1> DEFINE D == DOMAIN v
           w == [s \in SUBSET D |-> Walked(s)]
<1>1. \A s \in SUBSET D : IsFiniteSet(s) /\ Cardinality(s) \in Nat
  BY FS_Subset, FS_CardinalityType
<1>2. Walked({}) = 0
  BY FS_EmptySet, GuestAssumption DEF Walked
<1>3. ASSUME NEW s \in SUBSET D
      PROVE  w[s] = IF s = {} THEN 0
                    ELSE IF \/ w[s \ {Pick(s)}] = TooMuch
                            \/ Len(Pick(s)) > MAX_DEPTH
                            \/ w[s \ {Pick(s)}] + 1 > MAX_NODES
                    THEN TooMuch ELSE w[s \ {Pick(s)}] + 1
  <2>1. s \ {Pick(s)} \in SUBSET D
    OBVIOUS
  <2>2. s # {} => Walked(s) = IF \/ Walked(s \ {Pick(s)}) = TooMuch
                                 \/ Len(Pick(s)) > MAX_DEPTH
                                 \/ Walked(s \ {Pick(s)}) + 1 > MAX_NODES
                              THEN TooMuch ELSE Walked(s \ {Pick(s)}) + 1
    BY <1>1, WalkStep
  <2> QED BY <1>2, <2>1, <2>2
<1>4. IsWalk(w, D)
  <2>1. w = [s \in SUBSET D |-> w[s]]
    OBVIOUS
  <2> HIDE DEF w
  <2> QED BY <1>3, <2>1 DEF IsWalk
<1>5. PICK g : IsWalk(g, D) /\ Visit(v) = g[D]
  <2> HIDE DEF w
  <2> QED BY <1>4, VisitIs
<1> DEFINE Bad == {n \in Nat : \E s \in SUBSET D : Cardinality(s) = n /\ g[s] # Walked(s)}
<1>6. Bad = {}
  <2> SUFFICES ASSUME Bad # {} PROVE FALSE
    OBVIOUS
  <2>1. PICK m \in Bad : \A n \in Bad : m <= n
    <3>1. Bad \in SUBSET Nat
      OBVIOUS
    <3> HIDE DEF Bad
    <3> QED BY <3>1, LeastNat
  <2>2. PICK s \in SUBSET D : Cardinality(s) = m /\ g[s] # Walked(s)
    BY <2>1
  <2>3. s # {}
    BY <1>2, <1>5, <2>2 DEF IsWalk
  <2> DEFINE r == s \ {Pick(s)}
  <2>4. r \in SUBSET D /\ Cardinality(r) \in Nat /\ Cardinality(r) = m - 1
    BY <1>1, <2>2, <2>3, PickOne
  <2>5. g[s] = IF g[r] = TooMuch \/ Len(Pick(s)) > MAX_DEPTH \/ g[r] + 1 > MAX_NODES
               THEN TooMuch ELSE g[r] + 1
    BY <1>5, <2>2, <2>3 DEF IsWalk
  <2>6. Walked(s) = IF \/ Walked(r) = TooMuch
                       \/ Len(Pick(s)) > MAX_DEPTH
                       \/ Walked(r) + 1 > MAX_NODES
                    THEN TooMuch ELSE Walked(r) + 1
    BY <1>1, <2>2, <2>3, WalkStep
  <2>7. g[r] # Walked(r)
    <3> HIDE DEF r
    <3> QED BY <2>2, <2>5, <2>6
  <2> HIDE DEF r
  <2>8. m - 1 \in Bad
    BY <2>4, <2>7
  <2> QED BY <2>1, <2>8
<1>7. g[D] = Walked(D)
  BY <1>1, <1>6
<1> QED BY <1>5, <1>7

(***************************************************************************)
(* JSON values: paths, children, limits.                                   *)
(***************************************************************************)

\* A path that begins with k.
LEMMA UnderIs ==
  ASSUME NEW k \in Nat, NEW r \in Seq(Nat)
  PROVE  /\ Under(k, r) \in Seq(Nat) /\ Under(k, r) # <<>>
         /\ Head(Under(k, r)) = k /\ Tail(Under(k, r)) = r
         /\ Len(Under(k, r)) = Len(r) + 1
BY DEF Under

\* Its keys, one by one.
LEMMA UnderAt ==
  ASSUME NEW k \in Nat, NEW r \in Seq(Nat), NEW i \in 1..(Len(r) + 1)
  PROVE  Under(k, r)[i] = IF i = 1 THEN k ELSE r[i - 1]
<1>1. <<k>> \in Seq(Nat) /\ Len(<<k>>) = 1 /\ Len(r) \in Nat
  OBVIOUS
<1>2. (<<k>> \o r)[i] = IF i <= Len(<<k>>) THEN <<k>>[i] ELSE r[i - Len(<<k>>)]
  BY <1>1, ConcatProperties
<1>3. i <= 1 <=> i = 1
  OBVIOUS
<1>4. i = 1 => <<k>>[i] = k
  OBVIOUS
<1> QED BY <1>1, <1>2, <1>3, <1>4 DEF Under

\* Every path but the root's is one.
LEMMA PathIsUnder ==
  ASSUME NEW p \in Seq(Nat), p # <<>>
  PROVE  /\ Head(p) \in Nat /\ Tail(p) \in Seq(Nat)
         /\ p = Under(Head(p), Tail(p))
<1>1. Head(p) \in Nat /\ Tail(p) \in Seq(Nat) /\ Len(Tail(p)) = Len(p) - 1 /\ Len(p) \in Nat \ {0}
  OBVIOUS
<1>2. PICK k \in Nat, r \in Seq(Nat) : k = Head(p) /\ r = Tail(p)
  BY <1>1
<1>3. Under(k, r) \in Seq(Nat) /\ Len(Under(k, r)) = Len(p)
  <2>1. Under(k, r) \in Seq(Nat) /\ Len(Under(k, r)) = Len(r) + 1
    BY UnderIs
  <2> QED BY <1>1, <1>2, <2>1
<1>4. \A i \in 1..Len(p) : p[i] = Under(k, r)[i]
  BY <1>1, <1>2 DEF Under
<1>5. p = Under(k, r)
  <2>1. PICK u \in Seq(Nat) : u = Under(k, r)
    BY <1>3
  <2> QED BY <1>3, <1>4, <2>1, SeqEqual
<1> QED BY <1>1, <1>2, <1>5

\* The path of the parent.
LEMMA FrontIs ==
  ASSUME NEW p \in Seq(Nat), p # <<>>
  PROVE  Front(p) \in Seq(Nat) /\ Len(Front(p)) = Len(p) - 1 /\ Last(p) \in Nat
<1>1. Len(p) \in Nat \ {0} /\ Last(p) = p[Len(p)] /\ Front(p) = SubSeq(p, 1, Len(p) - 1)
  BY DEF Front, Last
<1>2. PICK m \in Nat : m = Len(p) - 1 /\ m <= Len(p)
  BY <1>1
<1>3. SubSeq(p, 1, m) \in Seq(Nat) /\ Len(SubSeq(p, 1, m)) = m
  BY <1>2
<1>4. Last(p) \in Nat
  BY <1>1
<1> QED BY <1>1, <1>2, <1>3, <1>4

\* The parent of a path that begins with k does so too, or is the root.
LEMMA FrontOfUnder ==
  ASSUME NEW k \in Nat, NEW r \in Seq(Nat)
  PROVE  /\ r = <<>> => Front(Under(k, r)) = <<>>
         /\ r # <<>> => /\ Front(Under(k, r)) = Under(k, Front(r))
                        /\ Last(Under(k, r)) = Last(r)
<1>1. CASE r = <<>>
  <2>1. Under(k, r) \in Seq(Nat) /\ Under(k, r) # <<>> /\ Len(Under(k, r)) = 1
    <3>1. Under(k, r) \in Seq(Nat) /\ Under(k, r) # <<>> /\ Len(Under(k, r)) = Len(r) + 1
      BY UnderIs
    <3> QED BY <1>1, <3>1
  <2> DEFINE p == Under(k, r)
  <2>2. Front(p) \in Seq(Nat) /\ Len(Front(p)) = 0
    <3> HIDE DEF p
    <3>1. p \in Seq(Nat) /\ p # <<>> /\ Len(p) = 1
      BY <2>1 DEF p
    <3>2. Front(p) \in Seq(Nat) /\ Len(Front(p)) = Len(p) - 1
      BY <3>1, FrontIs
    <3> QED BY <3>1, <3>2
  <2> QED BY <1>1, <2>2
<1>2. CASE r # <<>>
  <2>1. PICK f \in Seq(Nat) : f = Front(r) /\ Len(f) = Len(r) - 1
    BY <1>2, FrontIs
  <2>2. PICK p \in Seq(Nat) : p = Under(k, r) /\ p # <<>> /\ Len(p) = Len(r) + 1
    BY UnderIs
  <2>3. PICK e \in Seq(Nat) : e = Under(k, f) /\ Len(e) = Len(f) + 1
    BY UnderIs
  <2>4. PICK g \in Seq(Nat) : g = Front(p) /\ Len(g) = Len(p) - 1
    BY <2>2, FrontIs
  <2>5. Len(r) \in Nat \ {0} /\ Len(g) = Len(r) /\ Len(e) = Len(r)
    BY <1>2, <2>1, <2>2, <2>3, <2>4
  <2>6. \A i \in 1..Len(r) : g[i] = e[i]
    <3> SUFFICES ASSUME NEW i \in 1..Len(r) PROVE g[i] = e[i]
      OBVIOUS
    <3>1. g[i] = p[i]
      BY <2>2, <2>4, <2>5 DEF Front
    <3>5. i \in 1..(Len(r) + 1) /\ i \in 1..(Len(f) + 1)
      BY <2>1, <2>5
    <3>6. /\ Under(k, r)[i] = IF i = 1 THEN k ELSE r[i - 1]
          /\ Under(k, f)[i] = IF i = 1 THEN k ELSE f[i - 1]
      BY <3>5, UnderAt
    <3>2. p[i] = IF i = 1 THEN k ELSE r[i - 1]
      BY <2>2, <3>6
    <3>3. e[i] = IF i = 1 THEN k ELSE f[i - 1]
      BY <2>3, <3>6
    <3>4. i # 1 => f[i - 1] = r[i - 1]
      BY <2>1, <2>5 DEF Front
    <3> QED BY <3>1, <3>2, <3>3, <3>4
  <2>7. g = e
    BY <2>5, <2>6, SeqEqual
  <2>8. Last(p) = Last(r)
    <3>1. Len(p) \in 1..(Len(r) + 1) /\ Len(p) # 1 /\ Len(p) - 1 = Len(r)
      BY <2>2, <2>5
    <3>2. PICK i \in 1..(Len(r) + 1) : i = Len(p)
      BY <3>1
    <3>3. Under(k, r)[i] = r[i - 1]
      BY <3>1, <3>2, UnderAt
    <3> QED BY <2>2, <3>1, <3>2, <3>3 DEF Last
  <2> QED BY <1>2, <2>1, <2>2, <2>3, <2>4, <2>7, <2>8
<1> QED BY <1>1, <1>2

\* The nodes of a child are those below it.
LEMMA KidIs ==
  ASSUME NEW v, DOMAIN v \subseteq Seq(Nat), NEW k \in Nat
  PROVE  /\ \A r : r \in DOMAIN Kid(v, k) <=> r \in Seq(Nat) /\ Under(k, r) \in DOMAIN v
         /\ \A r \in DOMAIN Kid(v, k) : Kid(v, k)[r] = v[Under(k, r)]
<1>1. DOMAIN Kid(v, k) = {Tail(p) : p \in Below(v, k)}
  BY DEF Kid
<1>2. ASSUME NEW p \in Below(v, k)
      PROVE  Tail(p) \in Seq(Nat) /\ Under(k, Tail(p)) \in DOMAIN v
  <2>1. p \in Seq(Nat) /\ p # <<>> /\ Head(p) = k /\ p \in DOMAIN v
    BY <1>2 DEF Below
  <2> QED BY <2>1, PathIsUnder
<1>3. ASSUME NEW r \in Seq(Nat), Under(k, r) \in DOMAIN v
      PROVE  r \in DOMAIN Kid(v, k)
  <2>1. Under(k, r) # <<>> /\ Head(Under(k, r)) = k /\ Tail(Under(k, r)) = r
    BY UnderIs
  <2>2. Under(k, r) \in Below(v, k)
    BY <1>3, <2>1 DEF Below
  <2> QED BY <1>1, <2>1, <2>2
<1> QED BY <1>1, <1>2, <1>3 DEF Kid

\* A child is a value.
LEMMA KidIsValue ==
  ASSUME NEW v, IsValue(v), NEW k \in Keys(v)
  PROVE  k \in Nat /\ IsValue(Kid(v, k))
<1>1. /\ IsFiniteSet(DOMAIN v) /\ DOMAIN v \subseteq Seq(Nat)
      /\ v \in [DOMAIN v -> [kind : Kinds, val : Nat]]
      /\ \A p \in DOMAIN v \ {<<>>} : Front(p) \in DOMAIN v
  BY DEF IsValue
<1>2. PICK b \in Below(v, k) : TRUE
  BY DEF Keys, Below
<1>3. k \in Nat
  <2>1. b \in Seq(Nat) /\ b # <<>> /\ Head(b) = k
    BY <1>1, <1>2 DEF Below
  <2> QED BY <2>1, PathIsUnder
<1>4. /\ \A r : r \in DOMAIN Kid(v, k) <=> r \in Seq(Nat) /\ Under(k, r) \in DOMAIN v
      /\ \A r \in DOMAIN Kid(v, k) : Kid(v, k)[r] = v[Under(k, r)]
  BY <1>1, <1>3, KidIs
<1>5. IsFiniteSet(DOMAIN Kid(v, k))
  <2>1. IsFiniteSet(Below(v, k))
    BY <1>1, FS_Subset DEF Below
  <2> DEFINE f == [p \in Below(v, k) |-> Tail(p)]
  <2>2. f \in Surjection(Below(v, k), DOMAIN Kid(v, k))
    BY DEF Surjection, Kid
  <2> QED BY <2>1, <2>2, FS_Surjection
<1>6. <<>> \in DOMAIN Kid(v, k)
  <2> DEFINE L == {Len(p) : p \in Below(v, k)}
  <2>1. L \in SUBSET Nat /\ L # {}
    <3>1. \A p \in Below(v, k) : p \in Seq(Nat)
      BY <1>1 DEF Below
    <3>2. \A p \in Seq(Nat) : Len(p) \in Nat
      OBVIOUS
    <3> QED BY <1>2, <3>1, <3>2
  <2>2. PICK m \in L : \A n \in L : m <= n
    <3> HIDE DEF L
    <3> QED BY <2>1, LeastNat
  <2>3. PICK p \in Below(v, k) : \A o \in Below(v, k) : Len(p) <= Len(o)
    BY <2>2
  <2>4. p \in Seq(Nat) /\ p # <<>> /\ Head(p) = k /\ p \in DOMAIN v
    BY <1>1, <2>3 DEF Below
  <2> DEFINE r == Tail(p)
  <2>5. r \in Seq(Nat) /\ p = Under(k, r)
    BY <2>4, PathIsUnder
  <2>6. r = <<>>
    <3> SUFFICES ASSUME r # <<>> PROVE FALSE
      OBVIOUS
    <3> HIDE DEF r
    <3>1. PICK f \in Seq(Nat) : f = Front(r) /\ Len(f) = Len(r) - 1 /\ Len(r) \in Nat
      BY <2>5, FrontIs
    <3>2. PICK g : g = Front(p) /\ g = Under(k, f) /\ g \in DOMAIN v
      BY <1>1, <1>3, <2>4, <2>5, <3>1, FrontOfUnder
    <3>3. g # <<>> /\ Head(g) = k /\ Len(g) = Len(f) + 1
      BY <1>3, <3>2, UnderIs
    <3>4. Len(p) = Len(r) + 1
      BY <1>3, <2>5, UnderIs
    <3>5. g \in Below(v, k)
      BY <3>2, <3>3 DEF Below
    <3>6. Len(p) <= Len(g)
      BY <2>3, <3>5
    <3> QED BY <3>1, <3>3, <3>4, <3>6
  <2> HIDE DEF r
  <2> QED BY <1>4, <2>4, <2>5, <2>6
<1>7. Kid(v, k) \in [DOMAIN Kid(v, k) -> [kind : Kinds, val : Nat]]
  <2>1. Kid(v, k) = [r \in DOMAIN Kid(v, k) |-> Kid(v, k)[r]]
    BY DEF Kid
  <2>2. \A r \in DOMAIN Kid(v, k) : Kid(v, k)[r] \in [kind : Kinds, val : Nat]
    BY <1>1, <1>4
  <2> QED BY <2>1, <2>2
<1>8. ASSUME NEW r \in DOMAIN Kid(v, k) \ {<<>>}
      PROVE  Front(r) \in DOMAIN Kid(v, k)
  <2>1. r \in Seq(Nat) /\ Under(k, r) \in DOMAIN v
    BY <1>4, <1>8
  <2>2. Front(r) \in Seq(Nat) /\ Under(k, r) # <<>>
    BY <1>3, <1>8, <2>1, FrontIs, UnderIs
  <2>3. Front(Under(k, r)) = Under(k, Front(r))
    BY <1>3, <1>8, <2>1, FrontOfUnder
  <2>4. Under(k, Front(r)) \in DOMAIN v
    BY <1>1, <2>1, <2>2, <2>3
  <2> QED BY <1>4, <2>2, <2>4
<1>9. DOMAIN Kid(v, k) \subseteq Seq(Nat)
  BY <1>4
<1> QED BY <1>3, <1>5, <1>6, <1>7, <1>8, <1>9 DEF IsValue

\* What a node adds to the text is a number, and so is the length of the text.
LEMMA NodeSizes ==
  ASSUME NEW v, IsValue(v)
  PROVE  \A p \in DOMAIN v : Own(v, p) \in Nat /\ Entry(v, p) \in Nat
<1>1. ASSUME NEW p \in DOMAIN v PROVE Own(v, p) \in Nat
  <2>1. v[p].val \in Nat
    BY DEF IsValue
  <2>2. \A c \in BOOLEAN : (IF c THEN 4 ELSE 5) \in Nat /\ (IF c THEN 1 ELSE 2) \in Nat
    OBVIOUS
  <2>3. v[p].val + 2 \in Nat
    BY <2>1
  <2> QED BY <2>2, <2>3 DEF Own
<1>2. ASSUME NEW p \in DOMAIN v PROVE Entry(v, p) \in Nat
  <2>1. \A k : KeyLength(k) \in Nat
    BY DEF KeyLength
  <2>2. \A k : KeyLength(k) + 3 \in Nat
    BY <2>1
  <2>3. \A n \in Nat : 1 + n \in Nat
    OBVIOUS
  <2> QED BY <2>2, <2>3 DEF Entry
<1> QED BY <1>1, <1>2

\* The length of a text is a number.
LEMMA EncodedType ==
  ASSUME NEW v, IsValue(v)
  PROVE  Encoded(v) \in Nat
<1> DEFINE f == [p \in DOMAIN v |-> Own(v, p) + Entry(v, p)]
<1>1. \A p \in DOMAIN f : f[p] \in Nat
  <2>1. \A a, b \in Nat : a + b \in Nat
    OBVIOUS
  <2> QED BY <2>1, NodeSizes
<1>2. IsFiniteSet(DOMAIN f)
  BY DEF IsValue
<1> HIDE DEF f
<1>3. SumFunction(f) \in Nat
  BY <1>1, <1>2, SumBounds
<1> QED BY <1>3 DEF Encoded, f

\* The children of a child are those of its node.
LEMMA ParentsOfKid ==
  ASSUME NEW v, IsValue(v), NEW k \in Keys(v), NEW r \in DOMAIN Kid(v, k)
  PROVE  r \in Parents(Kid(v, k)) <=> Under(k, r) \in Parents(v)
<1>1. k \in Nat /\ DOMAIN v \subseteq Seq(Nat)
  BY KidIsValue DEF IsValue
<1>2. \A q : q \in DOMAIN Kid(v, k) <=> q \in Seq(Nat) /\ Under(k, q) \in DOMAIN v
  BY <1>1, KidIs
<1>3. ASSUME r \in Parents(Kid(v, k)) PROVE Under(k, r) \in Parents(v)
  <2>1. PICK q \in DOMAIN Kid(v, k) \ {<<>>} : r = Front(q)
    BY <1>3 DEF Parents
  <2>2. q \in Seq(Nat) /\ Under(k, q) \in DOMAIN v
    BY <1>2, <2>1
  <2>3. Under(k, q) # <<>> /\ Front(Under(k, q)) = Under(k, r)
    BY <1>1, <2>1, <2>2, UnderIs, FrontOfUnder
  <2> QED BY <2>2, <2>3 DEF Parents
<1>4. ASSUME Under(k, r) \in Parents(v) PROVE r \in Parents(Kid(v, k))
  <2>1. PICK p \in DOMAIN v \ {<<>>} : Under(k, r) = Front(p)
    BY <1>4 DEF Parents
  <2>2. PICK l, q : l = Head(p) /\ q = Tail(p)
    OBVIOUS
  <2>3. l \in Nat /\ q \in Seq(Nat) /\ p = Under(l, q)
    BY <1>1, <2>1, <2>2, PathIsUnder
  <2>4. r \in Seq(Nat) /\ Under(k, r) # <<>> /\ Head(Under(k, r)) = k /\ Tail(Under(k, r)) = r
    BY <1>1, <1>2, UnderIs
  <2>5. q # <<>>
    BY <2>1, <2>3, <2>4, FrontOfUnder
  <2>6. PICK f \in Seq(Nat) : f = Front(q)
    BY <2>3, <2>5, FrontIs
  <2>7. Front(p) = Under(l, f)
    BY <2>3, <2>5, <2>6, FrontOfUnder
  <2>8. l = k /\ f = r
    BY <2>1, <2>3, <2>4, <2>6, <2>7, UnderIs
  <2>9. q \in DOMAIN Kid(v, k) \ {<<>>}
    BY <1>2, <2>1, <2>3, <2>5, <2>8
  <2> QED BY <2>6, <2>8, <2>9 DEF Parents
<1> QED BY <1>3, <1>4

\* A child keeps within the limits of the value it is in, and its text is no
\* longer.
LEMMA KidFits ==
  ASSUME NEW v, IsValue(v), NEW k \in Keys(v)
  PROVE  /\ Encoded(Kid(v, k)) <= Encoded(v)
         /\ Bounded(v) => Bounded(Kid(v, k))
<1> DEFINE c == Kid(v, k)
           f == [r \in DOMAIN c |-> Own(c, r) + Entry(c, r)]
           g == [p \in DOMAIN v |-> Own(v, p) + Entry(v, p)]
           h == [r \in DOMAIN c |-> Under(k, r)]
<1>1. k \in Nat /\ IsValue(c) /\ IsFiniteSet(DOMAIN v) /\ DOMAIN v \subseteq Seq(Nat)
      /\ IsFiniteSet(DOMAIN c) /\ DOMAIN c \subseteq Seq(Nat)
  BY KidIsValue DEF IsValue
<1>2. /\ \A r : r \in DOMAIN c <=> r \in Seq(Nat) /\ Under(k, r) \in DOMAIN v
      /\ \A r \in DOMAIN c : c[r] = v[Under(k, r)]
  BY <1>1, KidIs
<1> HIDE DEF c
<1>3. ASSUME NEW r \in DOMAIN c PROVE Own(c, r) = Own(v, Under(k, r))
  <2>1. c[r] = v[Under(k, r)] /\ (r \in Parents(c) <=> Under(k, r) \in Parents(v))
    BY <1>2, ParentsOfKid DEF c
  <2> QED BY <2>1 DEF Own
<1>4. ASSUME NEW r \in DOMAIN c
      PROVE  Entry(c, r) = 0 \/ Entry(c, r) = Entry(v, Under(k, r))
  <2>1. CASE r = <<>>
    BY <2>1 DEF Entry
  <2>2. CASE r # <<>>
    <3>1. r \in Seq(Nat)
      BY <1>2
    <3>2. Under(k, r) # <<>>
      BY <1>1, <3>1, UnderIs
    <3>3. Front(Under(k, r)) = Under(k, Front(r)) /\ Last(Under(k, r)) = Last(r)
      BY <1>1, <2>2, <3>1, FrontOfUnder
    <3>4. c[Front(r)] = v[Under(k, Front(r))]
      <4>1. Front(r) \in DOMAIN c
        BY <1>1, <2>2 DEF IsValue
      <4> QED BY <1>2, <4>1
    <3> QED BY Zenon, <2>2, <3>2, <3>3, <3>4 DEF Entry
  <2> QED BY <2>1, <2>2
<1>5. Encoded(c) <= Encoded(v)
  <2>1. \A r \in DOMAIN c : Own(c, r) \in Nat /\ Entry(c, r) \in Nat
    BY <1>1, NodeSizes
  <2>2. \A p \in DOMAIN v : Own(v, p) \in Nat /\ Entry(v, p) \in Nat
    BY NodeSizes
  <2>3. h \in [DOMAIN c -> DOMAIN v]
    BY <1>2
  <2>4. \A p \in DOMAIN v : g[p] \in Nat
    <3>1. \A a, b \in Nat : a + b \in Nat
      OBVIOUS
    <3> QED BY <2>2, <3>1
  <2>5. ASSUME NEW r \in DOMAIN c PROVE f[r] \in Nat /\ f[r] <= g[h[r]]
    <3>1. PICK p \in DOMAIN v : p = Under(k, r)
      BY <1>2
    <3>2. f[r] = Own(c, r) + Entry(c, r) /\ g[h[r]] = Own(v, p) + Entry(v, p)
      BY <3>1
    <3>3. Own(c, r) = Own(v, p) /\ (Entry(c, r) = 0 \/ Entry(c, r) = Entry(v, p))
      BY <1>3, <1>4, <3>1
    <3> HIDE DEF f, g, h
    <3> QED BY <2>1, <2>2, <3>2, <3>3
  <2>6. ASSUME NEW r \in DOMAIN c, NEW s \in DOMAIN c, h[r] = h[s] PROVE r = s
    <3>1. r \in Seq(Nat) /\ s \in Seq(Nat) /\ Under(k, r) = Under(k, s)
      BY <1>2, <2>6
    <3> QED BY <1>1, <3>1, UnderIs
  <2> HIDE DEF f, g, h
  <2>7. SumFunctionOnSet(f, DOMAIN c) <= SumFunctionOnSet(g, DOMAIN v)
    BY <1>1, <2>3, <2>4, <2>5, <2>6, SumEmbeds
  <2>8. DOMAIN f = DOMAIN c /\ DOMAIN g = DOMAIN v
    BY DEF f, g
  <2> QED BY <2>7, <2>8 DEF Encoded, SumFunction, f, g
<1>6. ASSUME Bounded(v) PROVE Bounded(c)
  <2>1. ASSUME NEW r \in DOMAIN c PROVE Len(r) <= MAX_DEPTH
    <3>1. r \in Seq(Nat) /\ Under(k, r) \in DOMAIN v
      BY <1>2
    <3>2. Len(Under(k, r)) = Len(r) + 1 /\ Len(r) \in Nat /\ Len(Under(k, r)) <= MAX_DEPTH
      BY <1>1, <1>6, <3>1, UnderIs DEF Bounded
    <3> QED BY <3>2, GuestAssumption
  <2>2. h \in Injection(DOMAIN c, DOMAIN v)
    <3>1. h \in [DOMAIN c -> DOMAIN v]
      BY <1>2
    <3>2. ASSUME NEW r \in DOMAIN c, NEW s \in DOMAIN c, h[r] = h[s] PROVE r = s
      <4>1. r \in Seq(Nat) /\ s \in Seq(Nat) /\ Under(k, r) = Under(k, s)
        BY <1>2, <3>2
      <4> QED BY <1>1, <4>1, UnderIs
    <3> HIDE DEF h
    <3> QED BY <3>1, <3>2 DEF Injection, IsInjective
  <2> HIDE DEF h
  <2>3. Cardinality(DOMAIN c) <= Cardinality(DOMAIN v)
    BY <1>1, <2>2, FS_Injection
  <2>4. Cardinality(DOMAIN c) \in Nat /\ Cardinality(DOMAIN v) \in Nat
    BY <1>1, FS_CardinalityType
  <2> QED BY <1>6, <2>1, <2>3, <2>4, GuestAssumption DEF Bounded
<1> QED BY <1>5, <1>6 DEF c

\* A tree of values; kids gives the children.
IsForest(kids) ==
  /\ IsFiniteSet(DOMAIN kids) /\ DOMAIN kids \subseteq Nat
  /\ \A k \in DOMAIN kids : IsValue(kids[k])

\* The nodes of a tree: its root, and those of its children.
LEMMA TreeNodes ==
  ASSUME NEW kind, NEW kids, IsForest(kids)
  PROVE  LET t == Tree(kind, kids)
         IN  /\ \A p : p \in DOMAIN t <=>
                  \/ p = <<>>
                  \/ \E k \in DOMAIN kids : \E r \in DOMAIN kids[k] : p = Under(k, r)
             /\ t[<<>>] = [kind |-> kind, val |-> 0]
             /\ \A k \in DOMAIN kids : \A r \in DOMAIN kids[k] : t[Under(k, r)] = kids[k][r]
             /\ DOMAIN t \subseteq Seq(Nat) /\ IsFiniteSet(DOMAIN t)
<1> DEFINE t == Tree(kind, kids)
           nodes(k) == {Under(k, r) : r \in DOMAIN kids[k]}
           all == {nodes(k) : k \in DOMAIN kids}
<1>1. DOMAIN t = {<<>>} \cup UNION all
  BY DEF Tree
<1>2. \A k \in DOMAIN kids : \A r \in DOMAIN kids[k] : k \in Nat /\ r \in Seq(Nat)
  BY DEF IsForest, IsValue
<1>3. ASSUME NEW k \in DOMAIN kids, NEW r \in DOMAIN kids[k]
      PROVE  t[Under(k, r)] = kids[k][r]
  <2>1. Under(k, r) # <<>> /\ Head(Under(k, r)) = k /\ Tail(Under(k, r)) = r
    BY <1>2, UnderIs
  <2>2. Under(k, r) \in DOMAIN t
    BY <1>1
  <2> QED BY <1>1, <2>1, <2>2 DEF Tree
<1>4. t[<<>>] = [kind |-> kind, val |-> 0]
  BY <1>1 DEF Tree
<1>5. DOMAIN t \subseteq Seq(Nat)
  <2>1. \A k \in DOMAIN kids : \A r \in DOMAIN kids[k] : Under(k, r) \in Seq(Nat)
    BY <1>2, UnderIs
  <2>2. <<>> \in Seq(Nat)
    OBVIOUS
  <2>3. \A p \in UNION all : p \in Seq(Nat)
    BY <2>1
  <2> HIDE DEF t, all
  <2> QED BY <1>1, <2>2, <2>3
<1>6. IsFiniteSet(DOMAIN t)
  <2>1. ASSUME NEW k \in DOMAIN kids PROVE IsFiniteSet(nodes(k))
    <3> DEFINE f == [r \in DOMAIN kids[k] |-> Under(k, r)]
    <3>1. f \in Surjection(DOMAIN kids[k], nodes(k))
      BY DEF Surjection
    <3>2. IsFiniteSet(DOMAIN kids[k])
      BY DEF IsForest, IsValue
    <3> HIDE DEF f, nodes
    <3> QED BY <3>1, <3>2, FS_Surjection
  <2>2. IsFiniteSet(all)
    <3> DEFINE f == [k \in DOMAIN kids |-> nodes(k)]
    <3>1. f \in Surjection(DOMAIN kids, all)
      BY DEF Surjection
    <3>2. IsFiniteSet(DOMAIN kids)
      BY DEF IsForest
    <3> HIDE DEF f, all
    <3> QED BY <3>1, <3>2, FS_Surjection
  <2>3. IsFiniteSet(UNION all)
    <3>1. \A s \in all : IsFiniteSet(s)
      BY <2>1
    <3> HIDE DEF all
    <3> QED BY <2>2, <3>1, FS_UNION
  <2>4. IsFiniteSet({<<>>})
    BY FS_Singleton
  <2> HIDE DEF t, all
  <2>5. IsFiniteSet({<<>>} \cup UNION all)
    BY <2>3, <2>4, FS_Union
  <2> QED BY <1>1, <2>5
<1>7. \A p : p \in DOMAIN t <=>
        p = <<>> \/ \E k \in DOMAIN kids : \E r \in DOMAIN kids[k] : p = Under(k, r)
  <2> HIDE DEF t
  <2> QED BY <1>1
<1> QED BY <1>3, <1>4, <1>5, <1>6, <1>7

\* It is a value.
LEMMA TreeIsValue ==
  ASSUME NEW kind \in Kinds, NEW kids, IsForest(kids)
  PROVE  IsValue(Tree(kind, kids))
<1>1. PICK t : t = Tree(kind, kids)
  OBVIOUS
<1>2. /\ \A p : p \in DOMAIN t <=>
           p = <<>> \/ \E k \in DOMAIN kids : \E r \in DOMAIN kids[k] : p = Under(k, r)
      /\ t[<<>>] = [kind |-> kind, val |-> 0]
      /\ \A k \in DOMAIN kids : \A r \in DOMAIN kids[k] : t[Under(k, r)] = kids[k][r]
      /\ DOMAIN t \subseteq Seq(Nat) /\ IsFiniteSet(DOMAIN t)
  BY <1>1, TreeNodes
<1>3. \A k \in DOMAIN kids :
         /\ k \in Nat /\ <<>> \in DOMAIN kids[k] /\ DOMAIN kids[k] \subseteq Seq(Nat)
         /\ kids[k] \in [DOMAIN kids[k] -> [kind : Kinds, val : Nat]]
         /\ \A r \in DOMAIN kids[k] \ {<<>>} : Front(r) \in DOMAIN kids[k]
  BY DEF IsForest, IsValue
<1>4. t \in [DOMAIN t -> [kind : Kinds, val : Nat]]
  <2>1. t = [p \in DOMAIN t |-> t[p]]
    BY <1>1 DEF Tree
  <2>2. ASSUME NEW p \in DOMAIN t PROVE t[p] \in [kind : Kinds, val : Nat]
    <3>1. CASE p = <<>>
      BY <1>2, <3>1
    <3>2. CASE p # <<>>
      <4>1. PICK k \in DOMAIN kids : \E r \in DOMAIN kids[k] : p = Under(k, r)
        BY <1>2, <3>2
      <4>2. PICK r \in DOMAIN kids[k] : p = Under(k, r)
        BY <4>1
      <4> QED BY <1>2, <1>3, <4>2
    <3> QED BY <3>1, <3>2
  <2> QED BY <2>1, <2>2
<1>5. ASSUME NEW p \in DOMAIN t \ {<<>>} PROVE Front(p) \in DOMAIN t
  <2>1. PICK k \in DOMAIN kids : \E r \in DOMAIN kids[k] : p = Under(k, r)
    BY <1>2
  <2>2. PICK r \in DOMAIN kids[k] : p = Under(k, r)
    BY <2>1
  <2>3. k \in Nat /\ r \in Seq(Nat)
    BY <1>3
  <2>4. CASE r = <<>>
    BY <1>2, <2>2, <2>3, <2>4, FrontOfUnder
  <2>5. CASE r # <<>>
    <3>1. Front(p) = Under(k, Front(r)) /\ Front(r) \in DOMAIN kids[k]
      BY <1>3, <2>2, <2>3, <2>5, FrontOfUnder
    <3> QED BY <1>2, <3>1
  <2> QED BY <2>4, <2>5
<1>6. <<>> \in DOMAIN t
  BY <1>2
<1> QED BY <1>1, <1>2, <1>4, <1>5, <1>6 DEF IsValue

\* Its children are the ones it was given.
LEMMA KidOfTree ==
  ASSUME NEW kind \in Kinds, NEW kids, IsForest(kids)
  PROVE  /\ Keys(Tree(kind, kids)) \subseteq DOMAIN kids
         /\ \A k \in Keys(Tree(kind, kids)) : Kid(Tree(kind, kids), k) = kids[k]
<1>1. PICK t : t = Tree(kind, kids)
  OBVIOUS
<1>2. /\ \A p : p \in DOMAIN t <=>
           p = <<>> \/ \E k \in DOMAIN kids : \E r \in DOMAIN kids[k] : p = Under(k, r)
      /\ t[<<>>] = [kind |-> kind, val |-> 0]
      /\ \A k \in DOMAIN kids : \A r \in DOMAIN kids[k] : t[Under(k, r)] = kids[k][r]
      /\ DOMAIN t \subseteq Seq(Nat) /\ IsFiniteSet(DOMAIN t)
  BY <1>1, TreeNodes
<1>3. \A k \in DOMAIN kids :
         /\ k \in Nat /\ DOMAIN kids[k] \subseteq Seq(Nat)
         /\ kids[k] = [r \in DOMAIN kids[k] |-> kids[k][r]]
  BY DEF IsForest, IsValue
<1>4. \A k \in DOMAIN kids : \A r \in DOMAIN kids[k] :
         Under(k, r) # <<>> /\ Head(Under(k, r)) = k /\ Tail(Under(k, r)) = r
  BY <1>3, UnderIs
<1>5. ASSUME NEW k \in Keys(t) PROVE k \in DOMAIN kids
  <2>1. PICK p \in DOMAIN t \ {<<>>} : k = Head(p)
    BY DEF Keys
  <2>2. PICK l \in DOMAIN kids : \E r \in DOMAIN kids[l] : p = Under(l, r)
    BY <1>2, <2>1
  <2> QED BY <1>4, <2>1, <2>2
<1>6. ASSUME NEW k \in Keys(t) PROVE Kid(t, k) = kids[k]
  <2>1. k \in DOMAIN kids /\ k \in Nat
    BY <1>3, <1>5
  <2>2. /\ \A r : r \in DOMAIN Kid(t, k) <=> r \in Seq(Nat) /\ Under(k, r) \in DOMAIN t
        /\ \A r \in DOMAIN Kid(t, k) : Kid(t, k)[r] = t[Under(k, r)]
        /\ Kid(t, k) = [r \in DOMAIN Kid(t, k) |-> Kid(t, k)[r]]
    <3>1. Kid(t, k) = [r \in DOMAIN Kid(t, k) |-> Kid(t, k)[r]]
      BY DEF Kid
    <3>2. DOMAIN t \subseteq Seq(Nat)
      BY <1>2
    <3>3. /\ \A r : r \in DOMAIN Kid(t, k) <=> r \in Seq(Nat) /\ Under(k, r) \in DOMAIN t
          /\ \A r \in DOMAIN Kid(t, k) : Kid(t, k)[r] = t[Under(k, r)]
      BY <2>1, <3>2, KidIs
    <3> QED BY <3>1, <3>3
  <2>3. ASSUME NEW r \in DOMAIN Kid(t, k) PROVE r \in DOMAIN kids[k]
    <3>1. r \in Seq(Nat) /\ Under(k, r) \in DOMAIN t
      BY <2>2
    <3>2. Under(k, r) # <<>> /\ Head(Under(k, r)) = k /\ Tail(Under(k, r)) = r
      BY <2>1, <3>1, UnderIs
    <3>3. PICK l \in DOMAIN kids : \E q \in DOMAIN kids[l] : Under(k, r) = Under(l, q)
      BY <1>2, <3>1, <3>2
    <3>4. PICK q \in DOMAIN kids[l] : Under(k, r) = Under(l, q)
      BY <3>3
    <3> QED BY <1>4, <3>2, <3>4
  <2>4. ASSUME NEW r \in DOMAIN kids[k] PROVE r \in DOMAIN Kid(t, k)
    BY <1>2, <1>3, <2>1, <2>2, <2>4
  <2>5. DOMAIN Kid(t, k) = DOMAIN kids[k]
    BY <2>3, <2>4
  <2>6. \A r \in DOMAIN kids[k] : Kid(t, k)[r] = kids[k][r]
    BY <1>2, <2>1, <2>2, <2>5
  <2> QED BY <1>3, <2>1, <2>2, <2>5, <2>6
<1> QED BY <1>1, <1>5, <1>6

\* A value of one node.  A tree without children is one.
LEMMA LeafIs ==
  ASSUME NEW kind \in Kinds, NEW val \in Nat
  PROVE  /\ IsValue(Leaf(kind, val)) /\ Bounded(Leaf(kind, val)) /\ Keys(Leaf(kind, val)) = {}
         /\ kind # "string" => Encoded(Leaf(kind, val)) <= 5
<1> DEFINE v == Leaf(kind, val)
           f == [p \in DOMAIN v |-> Own(v, p) + Entry(v, p)]
<1>1. DOMAIN v = {<<>>} /\ v[<<>>] = [kind |-> kind, val |-> val]
  BY DEF Leaf
<1>2. IsFiniteSet({<<>>}) /\ Cardinality({<<>>}) = 1
  BY FS_Singleton
<1>3. IsValue(v)
  <2>1. v \in [{<<>>} -> [kind : Kinds, val : Nat]]
    BY DEF Leaf
  <2>2. <<>> \in Seq(Nat)
    OBVIOUS
  <2> HIDE DEF v
  <2> QED BY <1>1, <1>2, <2>1, <2>2 DEF IsValue
<1>4. Bounded(v)
  <2>1. Len(<<>>) = 0
    OBVIOUS
  <2> HIDE DEF v
  <2> QED BY <1>1, <1>2, <2>1, GuestAssumption DEF Bounded
<1>5. Keys(v) = {} /\ Parents(v) = {}
  <2> HIDE DEF v
  <2> QED BY <1>1 DEF Keys, Parents
<1>6. ASSUME kind # "string" PROVE Encoded(v) <= 5
  <2>1. Entry(v, <<>>) = 0
    BY DEF Entry
  <2>2. Own(v, <<>>) \in Nat /\ Own(v, <<>>) <= 5
    <3>1. v[<<>>].kind = kind
      BY <1>1
    <3> HIDE DEF v
    <3> QED BY <1>6, <3>1 DEF Own
  <2>3. DOMAIN f = {<<>>} /\ f[<<>>] = Own(v, <<>>)
    <3> HIDE DEF v
    <3> QED BY <1>1, <2>1, <2>2
  <2> HIDE DEF f, v
  <2>4. SumFunctionOnSet(f, {<<>>}) = f[<<>>] + SumFunctionOnSet(f, {<<>>} \ {<<>>})
    BY <1>2, <2>2, <2>3, SumRemove
  <2>5. SumFunctionOnSet(f, {}) = 0
    BY FS_EmptySet, SumPick
  <2>6. {<<>>} \ {<<>>} = {}
    OBVIOUS
  <2>7. SumFunction(f) = SumFunctionOnSet(f, {<<>>})
    BY <2>3 DEF SumFunction
  <2>8. Encoded(v) = SumFunction(f)
    BY DEF Encoded, f
  <2>9. SumFunctionOnSet(f, {<<>>}) = Own(v, <<>>) + 0
    BY <2>3, <2>4, <2>5, <2>6
  <2> QED BY <2>2, <2>7, <2>8, <2>9
<1> QED BY <1>3, <1>4, <1>5, <1>6

\* h_object and h_array make a value of one node.
LEMMA EmptyTree ==
  ASSUME NEW kind
  PROVE  Tree(kind, <<>>) = Leaf(kind, 0)
<1>1. DOMAIN <<>> = {}
  OBVIOUS
<1> QED BY <1>1 DEF Tree, Leaf

\* What valid_value() accepts is within the limits.
LEMMA ValidIsBounded ==
  ASSUME NEW v, IsValue(v), valid_value(v)
  PROVE  Bounded(v) /\ Encoded(v) <= MAX_VALUE_BYTES
<1>1. IsFiniteSet(DOMAIN v) /\ \A p \in DOMAIN v : Len(p) \in Nat
  <2>1. \A p \in Seq(Nat) : Len(p) \in Nat
    OBVIOUS
  <2> QED BY <2>1 DEF IsValue
<1>2. Walked(DOMAIN v) # TooMuch
  BY <1>1, VisitCounts DEF valid_value
<1> QED BY <1>2 DEF Walked, Bounded, valid_value

\* What a guest may hold: a value within the limits, bytes within theirs, or
\* an event, whose payload is within the limits.
Held(v) ==
  \/ Kind(v) = "bytes" /\ Val(v) \in 0..MAX_VALUE_BYTES
  \/ /\ IsValue(v) /\ Encoded(v) <= MAX_VALUE_BYTES
     /\ Bounded(v) \/ \E p \in Payloads : v = Envelope(p) /\ Bounded(p)

\* What valid_value() accepts may be held.
LEMMA ValidIsHeld ==
  ASSUME NEW v, IsValue(v), valid_value(v)
  PROVE  Held(v)
BY ValidIsBounded DEF Held

\* So may bytes up to the limit.
LEMMA BytesAreHeld ==
  ASSUME NEW n \in Nat, n <= MAX_VALUE_BYTES
  PROVE  Held(BytesOf(n))
<1>1. Kind(BytesOf(n)) = "bytes" /\ Val(BytesOf(n)) = n
  BY DEF BytesOf, Leaf, Kind, Val
<1> QED BY <1>1, GuestAssumption DEF Held

\* So may what h_object, h_array, h_null, h_number and h_boolean make.
LEMMA FreshIsHeld ==
  ASSUME NEW v \in Fresh
  PROVE  Held(v)
<1>1. PICK kind \in Kinds, val \in Nat : v = Leaf(kind, val) /\ kind # "string"
  BY EmptyTree DEF Fresh, Null, Kinds
<1>2. IsValue(v) /\ Bounded(v) /\ Encoded(v) <= 5
  BY <1>1, LeafIs
<1>3. Encoded(v) \in Nat
  BY <1>2, EncodedType
<1>4. Encoded(v) <= MAX_VALUE_BYTES
  BY <1>2, <1>3, GuestAssumption
<1> QED BY <1>2, <1>4 DEF Held

\* An event is a value, and its children are texts and the payload.
LEMMA EnvelopeIs ==
  ASSUME NEW p \in Payloads
  PROVE  /\ IsValue(Envelope(p))
         /\ \A k \in Keys(Envelope(p)) :
              Kid(Envelope(p), k) = p \/ Kid(Envelope(p), k) = Text(0)
<1> DEFINE kids == [k \in {EventId, Topic, Payload} |-> IF k = Payload THEN p ELSE Text(0)]
<1>1. IsValue(p) /\ IsValue(Text(0))
  <2>1. "string" \in Kinds
    BY DEF Kinds
  <2> QED BY <2>1, LeafIs, ValuesAssumption DEF Text
<1>2. IsForest(kids)
  <2>1. {EventId, Topic, Payload} \subseteq Nat
    BY DEF EventId, Topic, Payload
  <2>2. IsFiniteSet({EventId, Topic, Payload})
    <3>1. IsFiniteSet({EventId} \cup ({Topic} \cup {Payload}))
      BY FS_Singleton, FS_Union
    <3>2. {EventId, Topic, Payload} = {EventId} \cup ({Topic} \cup {Payload})
      OBVIOUS
    <3> QED BY <3>1, <3>2
  <2> QED BY <1>1, <2>1, <2>2 DEF IsForest
<1>3. "object" \in Kinds
  BY DEF Kinds
<1>4. \A k \in DOMAIN kids : kids[k] = p \/ kids[k] = Text(0)
  OBVIOUS
<1>5. Envelope(p) = Tree("object", kids)
  BY DEF Envelope
<1> HIDE DEF kids
<1> QED BY <1>2, <1>3, <1>4, <1>5, TreeIsValue, KidOfTree

\* Bytes are no value.
LEMMA ValueHasKind ==
  ASSUME NEW v, IsValue(v)
  PROVE  Kind(v) \in Kinds /\ Kind(v) # "bytes" /\ Val(v) \in Nat
<1>1. v[<<>>] \in [kind : Kinds, val : Nat]
  BY DEF IsValue
<1> QED BY <1>1 DEF Kind, Val, Kinds

\* What h_get and h_at return may be held.
LEMMA KidIsHeld ==
  ASSUME NEW v, Held(v), Kind(v) # "bytes", NEW k \in Keys(v)
  PROVE  Held(Kid(v, k))
<1>1. IsValue(v) /\ Encoded(v) <= MAX_VALUE_BYTES
  BY DEF Held
<1>2. IsValue(Kid(v, k)) /\ Encoded(Kid(v, k)) <= Encoded(v)
  BY <1>1, KidIsValue, KidFits
<1>3. Encoded(Kid(v, k)) <= MAX_VALUE_BYTES
  <2>1. Encoded(Kid(v, k)) \in Nat /\ Encoded(v) \in Nat
    BY <1>1, <1>2, EncodedType
  <2> QED BY <1>1, <1>2, <2>1, GuestAssumption
<1>4. Bounded(Kid(v, k))
  <2>1. CASE Bounded(v)
    BY <1>1, <2>1, KidFits
  <2>2. ASSUME NEW p \in Payloads, v = Envelope(p), Bounded(p)
        PROVE  Bounded(Kid(v, k))
    <3>1. Kid(v, k) = p \/ Kid(v, k) = Text(0)
      BY <2>2, EnvelopeIs
    <3>2. Bounded(Text(0))
      <4>1. "string" \in Kinds
        BY DEF Kinds
      <4> QED BY <4>1, LeafIs DEF Text
    <3> QED BY <2>2, <3>1, <3>2
  <2>3. Kind(v) # "bytes"
    OBVIOUS
  <2> QED BY <2>1, <2>2, <2>3 DEF Held
<1> QED BY <1>2, <1>3, <1>4 DEF Held

\* The keys of a value are finitely many numbers.
LEMMA KeysAre ==
  ASSUME NEW v, IsValue(v)
  PROVE  IsFiniteSet(Keys(v)) /\ Keys(v) \subseteq Nat /\ Cardinality(Keys(v)) \in Nat
<1> DEFINE f == [p \in DOMAIN v \ {<<>>} |-> Head(p)]
<1>1. f \in Surjection(DOMAIN v \ {<<>>}, Keys(v))
  BY DEF Surjection, Keys
<1>2. IsFiniteSet(DOMAIN v \ {<<>>})
  BY FS_Subset DEF IsValue
<1> HIDE DEF f
<1>3. IsFiniteSet(Keys(v))
  BY <1>1, <1>2, FS_Surjection
<1>4. \A k \in Keys(v) : k \in Nat
  BY KidIsValue
<1> QED BY <1>3, <1>4, FS_CardinalityType

-----------------------------------------------------------------------------
(***************************************************************************)
(* The handles of a guest.                                                 *)
(***************************************************************************)

\* Ids are given in order, and there are never too many at a time.
HandlesAreOld ==
  /\ nextHandle \in 1..I64_MAX
  /\ DOMAIN handles \subseteq used
  /\ used \subseteq 1..(nextHandle - 1)
  /\ IsFiniteSet(DOMAIN handles) /\ Cardinality(DOMAIN handles) <= MAX_HANDLES

ValuesAreHeld == \A h \in DOMAIN handles : Held(handles[h])

\* The mailbox of the model has one place; sf.event.deliver has checked what
\* is in it.
MailboxFits ==
  \/ mailbox = <<>>
  \/ \E p \in Payloads : /\ valid_value(p) /\ Encoded(Envelope(p)) <= MAX_VALUE_BYTES
                         /\ mailbox = <<Envelope(p)>>

RegistersFit ==
  /\ pending \in {"none", "timer", "yield", "event", "host_rpc", "ended"}
  /\ r0 \in Int

\* The inductive invariant of a guest.
GuestIndInv == HandlesAreOld /\ ValuesAreHeld /\ MailboxFits /\ RegistersFit

\* What a helper may do to the table: report, insert, drop, or put another
\* value under a handle that is there.
Dropped(h) ==
  /\ handles' = [x \in DOMAIN handles \ {h} |-> handles[x]]
  /\ r0' = 0
  /\ UNCHANGED <<nextHandle, used>>

Replaced(h, v) == handles' = Keep(h, v) /\ r0' = 0 /\ UNCHANGED <<nextHandle, used>>

TableStep ==
  \/ \E r \in Int : Status(r)
  \/ \E v : Held(v) /\ Insert(v)
  \/ \E h : Dropped(h)
  \/ \E h \in DOMAIN handles : \E v : Held(v) /\ Replaced(h, v)

\* What a handle names in these helpers is a value within the limits.
LEMMA JsonIsHeld ==
  ASSUME ValuesAreHeld, NEW h, NEW v \in json(h)
  PROVE  /\ h \in DOMAIN handles /\ v = handles[h] /\ Kind(v) # "bytes"
         /\ Held(v) /\ IsValue(v) /\ Encoded(v) \in Nat /\ Encoded(v) <= MAX_VALUE_BYTES
<1>1. h \in DOMAIN handles /\ v = handles[h] /\ Kind(v) # "bytes"
  BY DEF json
<1>2. Held(v)
  BY <1>1 DEF ValuesAreHeld
<1>3. IsValue(v) /\ Encoded(v) <= MAX_VALUE_BYTES
  BY <1>1, <1>2 DEF Held
<1> QED BY <1>1, <1>2, <1>3, EncodedType

\* So is a child of it.
LEMMA ChildIsHeld ==
  ASSUME ValuesAreHeld, NEW h, NEW k, NEW kind, NEW v \in Child(h, k, kind)
  PROVE  Held(v) /\ IsValue(v)
<1>1. PICK w \in json(h) : k \in Keys(w) /\ v = Kid(w, k)
  BY DEF Child
<1> QED BY <1>1, JsonIsHeld, KidIsHeld, KidIsValue

\* The bytes that h_dump makes may be held.
LEMMA DumpIsHeld ==
  ASSUME ValuesAreHeld, NEW h, NEW b \in {BytesOf(Encoded(v)) : v \in json(h)}
  PROVE  Held(b)
<1>1. PICK v \in json(h) : b = BytesOf(Encoded(v))
  OBVIOUS
<1> QED BY <1>1, JsonIsHeld, BytesAreHeld

\* An insertion of one of several values, and an end of h_set or h_push.
LEMMA InsertOfIsTableStep ==
  ASSUME NEW vs, \A v \in vs : Held(v), InsertOf(vs)
  PROVE  TableStep
<1>1. CASE vs = {}
  BY <1>1 DEF InsertOf, TableStep, INVALID
<1>2. CASE vs # {}
  <2>1. PICK v \in vs : v = CHOOSE w \in vs : TRUE
    BY <1>2
  <2>2. Insert(v)
    BY <1>2, <2>1 DEF InsertOf
  <2> QED BY <2>2 DEF TableStep
<1> QED BY <1>1, <1>2

\* h_set and h_push write to a handle that is there, and keep a value that was
\* checked: the children of the old one and the new child.
LEMMA ChangedIsTableStep ==
  ASSUME ValuesAreHeld, NEW h, NEW kind \in {"array", "object"}, NEW value, NEW k,
         json(h) # {} => k \in Nat, Changed(h, kind, value, k)
  PROVE  TableStep
<1>1. CASE json(value) = {} \/ json(h) = {} \/ Kind(handles[h]) # kind
  BY <1>1 DEF Changed, TableStep, INVALID
<1>2. CASE ~(json(value) = {} \/ json(h) = {} \/ Kind(handles[h]) # kind)
  <2> DEFINE kids == [x \in Keys(handles[h]) \cup {k} |->
                        IF x = k THEN handles[value] ELSE Kid(handles[h], x)]
             target == Tree(kind, kids)
  <2>1. /\ h \in DOMAIN handles /\ IsValue(handles[h]) /\ IsValue(handles[value])
        /\ k \in Nat
    <3>1. (\E v : v \in json(h)) /\ (\E v : v \in json(value))
      BY <1>2
    <3> QED BY <1>2, <3>1, JsonIsHeld
  <2>2. Replace(h, target)
    BY <1>2 DEF Changed
  <2>3. IsForest(kids)
    <3>1. IsFiniteSet(Keys(handles[h])) /\ Keys(handles[h]) \subseteq Nat
      BY <2>1, KeysAre
    <3>2. IsFiniteSet(Keys(handles[h]) \cup {k})
      BY <3>1, FS_Singleton, FS_Union
    <3>3. \A x \in Keys(handles[h]) : IsValue(Kid(handles[h], x))
      BY <2>1, KidIsValue
    <3>4. Keys(handles[h]) \cup {k} \subseteq Nat
      BY <2>1, <3>1
    <3> QED BY <2>1, <3>2, <3>3, <3>4 DEF IsForest
  <2> HIDE DEF kids
  <2>4. IsValue(target)
    BY <2>3, TreeIsValue DEF Kinds
  <2> HIDE DEF target
  <2>5. CASE valid_value(target)
    <3>1. Replaced(h, target) /\ Held(target)
      BY <2>2, <2>4, <2>5, ValidIsHeld DEF Replace, Replaced
    <3> QED BY <2>1, <3>1 DEF TableStep
  <2>6. CASE ~valid_value(target)
    BY <2>2, <2>6 DEF Replace, TableStep, LIMIT
  <2> QED BY <2>5, <2>6
<1> QED BY <1>1, <1>2

\* A helper that looks returns a number.
LEMMA LooksAreNumbers ==
  ASSUME ValuesAreHeld, NEW h, NEW r \in Looks(h)
  PROVE  r \in Int
<1>1. \A v \in json(h) : Kind(v) \in Kinds /\ Val(v) \in Nat
  BY JsonIsHeld, ValueHasKind
<1>3. ASSUME h \in DOMAIN handles
      PROVE  /\ Kind(handles[h]) \in {"bytes", "string"} => Val(handles[h]) \in Nat
             /\ Kind(handles[h]) # "bytes" => Cardinality(Keys(handles[h])) \in Nat
  <2>1. Held(handles[h])
    BY <1>3 DEF ValuesAreHeld
  <2> QED BY <2>1, ValueHasKind, KeysAre, GuestAssumption DEF Held
<1>4. \A kind \in Kinds : KindNumber[kind] \in Int
  BY DEF Kinds, KindNumber
<1>5. INVALID \in Int /\ LIMIT \in Int /\ Lengths \subseteq Int
  BY GuestAssumption DEF INVALID, LIMIT
<1>6. Length(h) \in Int
  BY <1>3, <1>5 DEF Length
<1>7. ASSUME NEW o \in Lengths, NEW n \in Lengths
      PROVE  BytesRead(h, o, n) \in Int
  <2>1. CASE h \notin DOMAIN handles \/ Kind(handles[h]) # "bytes" \/ n > MAX_VALUE_BYTES
    BY <1>5, <2>1 DEF BytesRead
  <2>2. CASE ~(h \notin DOMAIN handles \/ Kind(handles[h]) # "bytes" \/ n > MAX_VALUE_BYTES)
    <3>1. Val(handles[h]) \in Int /\ Val(handles[h]) - o \in Int /\ n \in Int
      BY <1>3, <1>5, <2>2
    <3> QED BY <1>5, <3>1 DEF BytesRead
  <2> QED BY <2>1, <2>2
<1>8. KindRead(h) \in Int
  <2>1. \A v \in json(h) : KindNumber[Kind(v)] \in Int
    BY <1>1, <1>4
  <2> QED BY <1>5, <2>1 DEF KindRead, Or
<1>9. I64Read(h) \in Int
  BY <1>5 DEF I64Read, Or
<1>10. BoolRead(h) \in Int
  BY <1>1, <1>5 DEF BoolRead, Or, OfKind
<1>11. \A n \in Lengths : StringRead(h, n) \in Int
  BY <1>1, <1>5 DEF StringRead, Or, OfKind
<1>12. \A k \in KeyArgs, n \in Lengths : TextEquals(h, k, n) \in Int
  BY <1>5 DEF TextEquals, Or
<1> QED BY <1>6, <1>7, <1>8, <1>9, <1>10, <1>11, <1>12 DEF Looks

\* Every step is one of those, one of another object, or the end; and events
\* come and go in one way each.
LEMMA GuestSteps ==
  ASSUME GuestIndInv, GuestNext
  PROVE  /\ TableStep \/ OtherInserts \/ Ends
         /\ UNCHANGED mailbox \/ EventReceived \/ (\E p \in Payloads : DeliverEvent(p)) \/ Ends
         /\ pending' \in {"none", "timer", "yield", "event", "host_rpc", "ended"}
<1> DEFINE Pendings == {"none", "timer", "yield", "event", "host_rpc", "ended"}
           Goal == /\ TableStep \/ OtherInserts \/ Ends
                   /\ \/ UNCHANGED mailbox \/ EventReceived
                      \/ (\E p \in Payloads : DeliverEvent(p)) \/ Ends
                   /\ pending' \in Pendings
           Same == UNCHANGED mailbox /\ pending' \in Pendings
<1>0. ValuesAreHeld /\ MailboxFits /\ pending \in Pendings /\ r0 \in Int
  BY DEF GuestIndInv, RegistersFit
<1>1. ASSUME NEW r \in Int, Status(r), Same PROVE Goal
  BY <1>1 DEF TableStep
<1>2. ASSUME NEW v, Held(v), Insert(v), Same PROVE Goal
  BY <1>2 DEF TableStep
<1>3. ASSUME NEW vs, \A v \in vs : Held(v), InsertOf(vs), Same PROVE Goal
  BY <1>3, InsertOfIsTableStep
<1>4. ASSUME NEW h, NEW kind \in {"array", "object"}, NEW value, NEW k,
             json(h) # {} => k \in Nat, Changed(h, kind, value, k), Same
      PROVE  Goal
  BY <1>0, <1>4, ChangedIsTableStep
<1>codes. /\ 0 \in Int /\ INVALID \in Int /\ LIMIT \in Int /\ TIMEOUT \in Int
          /\ DENIED \in Int /\ HOST_ERROR \in Int /\ CLOSED \in Int
  BY DEF INVALID, LIMIT, TIMEOUT, DENIED, HOST_ERROR, CLOSED
<1>quiet. ASSUME Quiet PROVE Same
  BY <1>0, <1>quiet DEF Quiet
<1>valid. \A v \in Texts \cup Payloads \cup {Config} : valid_value(v) => Held(v)
  BY ValuesAssumption, ValidIsHeld
<1> HIDE DEF Goal, Same
<1>5. ASSUME h_config \/ h_parse_fails PROVE Goal
  <2>1. Same
    BY <1>5, <1>quiet DEF h_config, h_parse_fails
  <2>2. CASE h_config
    <3>1. Held(Config) /\ Insert(Config)
      BY <1>valid, <2>2, ValuesAssumption DEF h_config
    <3> QED BY <1>2, <2>1, <3>1
  <2>3. CASE h_parse_fails
    <3>1. Status(INVALID)
      BY <2>3 DEF h_parse_fails
    <3> QED BY <1>1, <1>codes, <2>1, <3>1
  <2> QED BY <1>5, <2>2, <2>3
<1>6. ASSUME NEW reason \in Pendings, Wait(reason) PROVE Goal
  <2>1. Same /\ Status(0)
    BY <1>6 DEF Wait, Same
  <2> QED BY <1>1, <1>codes, <2>1
<1>7. ASSUME NEW v \in Texts, h_parse(v) PROVE Goal
  <2>1. Same
    BY <1>7, <1>quiet DEF h_parse
  <2>2. (Held(v) /\ Insert(v)) \/ Status(LIMIT)
    BY <1>7, <1>valid DEF h_parse
  <2> QED BY <1>1, <1>2, <1>codes, <2>1, <2>2
<1>8. ASSUME NEW v \in Fresh, h_new(v) PROVE Goal
  <2>1. Same /\ Held(v) /\ Insert(v)
    BY <1>8, <1>quiet, FreshIsHeld DEF h_new
  <2> QED BY <1>2, <2>1
<1>9. ASSUME NEW n \in Lengths, h_string(n) \/ h_bytes(n) PROVE Goal
  <2>1. Same
    BY <1>9, <1>quiet DEF h_string, h_bytes
  <2>2. CASE h_string(n)
    <3>1. IsValue(Text(n))
      BY LeafIs, GuestAssumption DEF Text, Kinds
    <3>2. (Held(Text(n)) /\ Insert(Text(n))) \/ Status(LIMIT)
      BY <2>2, <3>1, ValidIsHeld DEF h_string
    <3> QED BY <1>1, <1>2, <1>codes, <2>1, <3>2
  <2>3. CASE h_bytes(n)
    <3>1. CASE n > MAX_VALUE_BYTES
      <4>1. Status(LIMIT)
        BY <2>3, <3>1 DEF h_bytes
      <4> QED BY <1>1, <1>codes, <2>1, <4>1
    <3>2. CASE ~(n > MAX_VALUE_BYTES)
      <4>1. Insert(BytesOf(n))
        BY <2>3, <3>2 DEF h_bytes
      <4>2. Held(BytesOf(n))
        BY <3>2, BytesAreHeld, GuestAssumption
      <4> QED BY <1>2, <2>1, <4>1, <4>2
    <3> QED BY <3>1, <3>2
  <2> QED BY <1>9, <2>2, <2>3
<1>10. ASSUME NEW h, h_drop(h) PROVE Goal
  <2>1. Same /\ (Dropped(h) \/ Status(INVALID))
    BY <1>10, <1>quiet DEF h_drop, Dropped
  <2> QED BY <1>codes, <2>1 DEF Goal, Same, TableStep
<1>11. ASSUME NEW h, h_dump(h) PROVE Goal
  <2>1. Same /\ InsertOf({BytesOf(Encoded(v)) : v \in json(h)})
    BY <1>11, <1>quiet DEF h_dump
  <2>2. \A b \in {BytesOf(Encoded(v)) : v \in json(h)} : Held(b)
    BY <1>0, DumpIsHeld
  <2> QED BY <1>3, <2>1, <2>2
<1>12. ASSUME NEW h, Look(h) PROVE Goal
  <2>1. Same
    BY <1>12, <1>quiet DEF Look
  <2>2. PICK r \in Looks(h) : Status(r)
    BY <1>12 DEF Look
  <2>3. r \in Int
    BY <1>0, LooksAreNumbers
  <2> QED BY <1>1, <2>1, <2>2, <2>3
<1>13. ASSUME NEW h, NEW k, h_get(h, k) \/ h_at(h, k) PROVE Goal
  <2>1. Same /\ \E kind : InsertOf(Child(h, k, kind))
    BY <1>13, <1>quiet DEF h_get, h_at
  <2>2. \A kind : \A v \in Child(h, k, kind) : Held(v)
    BY <1>0, ChildIsHeld
  <2> QED BY <1>3, <2>1, <2>2
<1>14. ASSUME NEW h, NEW v, h_push(h, v) PROVE Goal
  <2> DEFINE k == IF json(h) = {} THEN 1 ELSE Cardinality(Keys(handles[h])) + 1
  <2>1. Same /\ Changed(h, "array", v, k)
    BY <1>14, <1>quiet DEF h_push
  <2>2. k \in Nat
    <3>1. CASE json(h) = {}
      BY <3>1
    <3>2. CASE json(h) # {}
      <4>1. PICK w : w \in json(h)
        BY <3>2
      <4>2. IsValue(handles[h])
        BY <1>0, <4>1, JsonIsHeld
      <4>3. Cardinality(Keys(handles[h])) \in Nat
        BY <4>2, KeysAre
      <4> QED BY <3>2, <4>3
    <3> QED BY <3>1, <3>2
  <2> HIDE DEF k
  <2> QED BY <1>4, <2>1, <2>2
<1>15. ASSUME NEW h, NEW v, NEW k \in KeyArgs, h_set(h, k, v) PROVE Goal
  <2>1. Same /\ Changed(h, "object", v, k) /\ k \in Nat
    BY <1>15, <1>quiet DEF h_set, KeyArgs
  <2> QED BY <1>4, <2>1
<1>16. ASSUME NEW name, NEW h, h_call(name, h) PROVE Goal
  <2>1. CASE Wait("host_rpc")
    BY <1>6, <2>1
  <2>2. CASE ~Wait("host_rpc")
    <3>1. Same /\ (Status(INVALID) \/ Status(DENIED))
      BY <1>16, <1>quiet, <2>2 DEF h_call
    <3> QED BY <1>1, <1>codes, <3>1
  <2> QED BY <2>1, <2>2
<1>17. ASSUME Woken \/ EventTimeout PROVE Goal
  <2>1. Same
    BY <1>17 DEF Woken, EventTimeout, Same
  <2>2. Status(0) \/ Status(TIMEOUT)
    BY <1>17, Zenon DEF Woken, EventTimeout
  <2> QED BY <1>1, <1>codes, <2>1, <2>2
<1>18. ASSUME CallReturns PROVE Goal
  <2>1. Same
    BY <1>18 DEF CallReturns, Same
  <2>2. \/ \E v \in Payloads : IF valid_value(v) THEN Insert(v) ELSE Status(LIMIT)
        \/ \E e \in {HOST_ERROR, TIMEOUT, LIMIT, CLOSED} : Status(e)
    BY <1>18, Zenon DEF CallReturns
  <2>3. ASSUME NEW v \in Payloads, IF valid_value(v) THEN Insert(v) ELSE Status(LIMIT)
        PROVE  Goal
    <3>1. (Held(v) /\ Insert(v)) \/ Status(LIMIT)
      BY <1>valid, <2>3
    <3> QED BY <1>1, <1>2, <1>codes, <2>1, <3>1
  <2>4. ASSUME NEW e \in {HOST_ERROR, TIMEOUT, LIMIT, CLOSED}, Status(e) PROVE Goal
    BY <1>1, <1>codes, <2>1, <2>4
  <2> QED BY <2>2, <2>3, <2>4
<1>19. ASSUME EventReceived PROVE Goal
  <2>1. PICK p \in Payloads : /\ valid_value(p) /\ Encoded(Envelope(p)) <= MAX_VALUE_BYTES
                              /\ mailbox = <<Envelope(p)>>
    BY <1>0, <1>19 DEF EventReceived, MailboxFits
  <2>2. Insert(Envelope(p)) /\ pending' \in Pendings
    BY <1>19, <2>1 DEF EventReceived
  <2>3. Held(Envelope(p))
    BY <2>1, EnvelopeIs, ValidIsBounded, ValuesAssumption DEF Held
  <2> QED BY <1>19, <2>2, <2>3 DEF Goal, TableStep
<1>20. ASSUME NEW p \in Payloads, DeliverEvent(p) PROVE Goal
  <2>1. Status(r0) /\ pending' = pending
    BY <1>20 DEF DeliverEvent, Status
  <2> QED BY <1>0, <1>20, <2>1 DEF Goal, TableStep
<1>21. ASSUME OtherInserts \/ Ends PROVE Goal
  BY <1>0, <1>21 DEF Goal, OtherInserts, Ends
<1>22. ASSUME NEW h \in Handles,
              \/ h_drop(h) \/ h_dump(h) \/ Look(h)
              \/ \E k \in KeyArgs : h_get(h, k) \/ h_at(h, k)
              \/ \E v \in Handles : h_push(h, v) \/ \E k \in KeyArgs : h_set(h, k, v)
              \/ h_get(h, Payload)
              \/ \E c \in Capabilities : h_call(c.name, h) \/ h_call("ungranted", h)
       PROVE  Goal
  BY Zenon, <1>10, <1>11, <1>12, <1>13, <1>14, <1>15, <1>16, <1>22
<1>23. ASSUME h_sleep \/ h_yield \/ h_event PROVE Goal
  <2>1. \E reason \in Pendings : Wait(reason)
    BY <1>23 DEF h_sleep, h_yield, h_event
  <2> QED BY <1>6, <2>1
<1>24. Goal
  BY <1>5, <1>7, <1>8, <1>9, <1>17, <1>18, <1>19, <1>20, <1>21, <1>22, <1>23 DEF GuestNext
<1> QED BY <1>24 DEF Goal

\* The id that an insertion gives is new and stays positive in the guest.
LEMMA InsertGives ==
  ASSUME HandlesAreOld, NEW v, Insert(v)
  PROVE  \/ /\ Status(LIMIT)
            /\ Cardinality(DOMAIN handles) = MAX_HANDLES \/ nextHandle = I64_MAX
         \/ /\ nextHandle \in 1..(I64_MAX - 1) /\ nextHandle' = nextHandle + 1
            /\ nextHandle \notin used /\ nextHandle \notin DOMAIN handles
            /\ DOMAIN handles' = DOMAIN handles \cup {nextHandle}
            /\ handles'[nextHandle] = v /\ r0' = nextHandle
            /\ used' = used \cup {nextHandle}
            /\ Cardinality(DOMAIN handles) < MAX_HANDLES
<1>1. /\ nextHandle \in Nat /\ nextHandle >= 1 /\ nextHandle <= I64_MAX
      /\ I64_MAX \in Nat /\ MAX_HANDLES \in Nat
      /\ used \subseteq 1..(nextHandle - 1) /\ DOMAIN handles \subseteq used
      /\ Cardinality(DOMAIN handles) \in Nat /\ Cardinality(DOMAIN handles) <= MAX_HANDLES
  BY GuestAssumption, FS_CardinalityType DEF HandlesAreOld
<1>2. CASE Cardinality(DOMAIN handles) >= MAX_HANDLES \/ nextHandle >= I64_MAX
  <2>1. Status(LIMIT)
    BY <1>2 DEF Insert
  <2>2. Cardinality(DOMAIN handles) = MAX_HANDLES \/ nextHandle = I64_MAX
    BY <1>1, <1>2
  <2> QED BY <2>1, <2>2
<1>3. CASE ~(Cardinality(DOMAIN handles) >= MAX_HANDLES \/ nextHandle >= I64_MAX)
  <2>1. Give(nextHandle, v) /\ nextHandle' = nextHandle + 1
    BY <1>3 DEF Insert
  <2>2. nextHandle \in 1..(I64_MAX - 1) /\ Cardinality(DOMAIN handles) < MAX_HANDLES
    BY <1>1, <1>3
  <2>3. nextHandle \notin used /\ nextHandle \notin DOMAIN handles
    BY <1>1
  <2>4. AsI64(nextHandle) = nextHandle
    BY <1>1 DEF AsI64
  <2>5. /\ handles' = Keep(nextHandle, v) /\ r0' = nextHandle
        /\ used' = used \cup {nextHandle}
    BY <2>1, <2>4 DEF Give
  <2>6. /\ DOMAIN handles' = DOMAIN handles \cup {nextHandle}
        /\ handles'[nextHandle] = v
    BY <2>5 DEF Keep
  <2> QED BY <2>1, <2>2, <2>3, <2>5, <2>6
<1> QED BY <1>2, <1>3

\* The table stays sound.
LEMMA StepHandlesAreOld ==
  ASSUME GuestIndInv, [GuestNext]_gvars
  PROVE  HandlesAreOld'
<1>0. HandlesAreOld
  BY DEF GuestIndInv
<1>1. /\ nextHandle \in Nat /\ nextHandle >= 1 /\ nextHandle <= I64_MAX
      /\ I64_MAX \in Nat /\ MAX_HANDLES \in Nat
      /\ used \subseteq 1..(nextHandle - 1) /\ DOMAIN handles \subseteq used
      /\ IsFiniteSet(DOMAIN handles)
      /\ Cardinality(DOMAIN handles) \in Nat /\ Cardinality(DOMAIN handles) <= MAX_HANDLES
  BY <1>0, GuestAssumption, FS_CardinalityType DEF HandlesAreOld
<1>2. ASSUME UNCHANGED <<nextHandle, used>>, DOMAIN handles' \in SUBSET DOMAIN handles
      PROVE  HandlesAreOld'
  <2>1. /\ IsFiniteSet(DOMAIN handles')
        /\ Cardinality(DOMAIN handles') <= Cardinality(DOMAIN handles)
    BY <1>1, <1>2, FS_Subset
  <2>2. Cardinality(DOMAIN handles') \in Nat
    BY <2>1, FS_CardinalityType
  <2>3. Cardinality(DOMAIN handles') <= MAX_HANDLES
    BY <1>1, <2>1, <2>2
  <2> QED BY <1>0, <1>2, <2>1, <2>3 DEF HandlesAreOld
<1>3. ASSUME nextHandle \in 1..(I64_MAX - 1), nextHandle' = nextHandle + 1,
             used' = used \cup {nextHandle}
      PROVE  nextHandle' \in 1..I64_MAX /\ used' \subseteq 1..(nextHandle' - 1)
  BY <1>1, <1>3
<1>4. ASSUME NEW v, Insert(v) PROVE HandlesAreOld'
  <2>1. CASE Status(LIMIT)
    BY <1>2, <2>1 DEF Status
  <2>2. CASE ~Status(LIMIT)
    <3>1. /\ nextHandle \in 1..(I64_MAX - 1) /\ nextHandle' = nextHandle + 1
          /\ nextHandle \notin DOMAIN handles
          /\ DOMAIN handles' = DOMAIN handles \cup {nextHandle}
          /\ used' = used \cup {nextHandle}
          /\ Cardinality(DOMAIN handles) < MAX_HANDLES
      BY <1>0, <1>4, <2>2, InsertGives
    <3>2. /\ IsFiniteSet(DOMAIN handles')
          /\ Cardinality(DOMAIN handles') = Cardinality(DOMAIN handles) + 1
      BY <1>1, <3>1, FS_AddElement
    <3>3. Cardinality(DOMAIN handles') <= MAX_HANDLES
      BY <1>1, <3>1, <3>2
    <3>4. DOMAIN handles' \subseteq used'
      BY <1>1, <3>1
    <3> QED BY <1>3, <3>1, <3>2, <3>3, <3>4 DEF HandlesAreOld
  <2> QED BY <2>1, <2>2
<1>5. CASE TableStep
  <2>1. ASSUME NEW r, Status(r) PROVE HandlesAreOld'
    BY <1>2, <2>1 DEF Status
  <2>2. ASSUME NEW h, Dropped(h) PROVE HandlesAreOld'
    BY <1>2, <2>2 DEF Dropped
  <2>3. ASSUME NEW h \in DOMAIN handles, NEW v, Replaced(h, v) PROVE HandlesAreOld'
    <3>1. DOMAIN handles' = DOMAIN handles
      BY <2>3 DEF Replaced, Keep
    <3> QED BY <1>2, <2>3, <3>1 DEF Replaced
  <2> QED BY <1>4, <1>5, <2>1, <2>2, <2>3 DEF TableStep
<1>6. CASE OtherInserts
  <2>1. /\ nextHandle \in 1..(I64_MAX - 1) /\ nextHandle' = nextHandle + 1
        /\ used' = used \cup {nextHandle} /\ handles' = handles
    BY <1>1, <1>6 DEF OtherInserts
  <2>2. IsFiniteSet(DOMAIN handles') /\ Cardinality(DOMAIN handles') <= MAX_HANDLES
    BY <1>1, <2>1
  <2>3. DOMAIN handles' \subseteq used'
    BY <1>1, <2>1
  <2> QED BY <1>3, <2>1, <2>2, <2>3 DEF HandlesAreOld
<1>7. CASE Ends
  <2>1. UNCHANGED <<nextHandle, used>> /\ handles' = <<>>
    BY <1>7 DEF Ends
  <2>2. DOMAIN handles' = {}
    BY <2>1
  <2> QED BY <1>2, <2>1, <2>2
<1>8. CASE UNCHANGED gvars
  BY <1>2, <1>8 DEF gvars
<1> QED BY <1>5, <1>6, <1>7, <1>8, GuestSteps

\* A new value is one that may be held, and the others stay.
LEMMA StepValuesAreHeld ==
  ASSUME GuestIndInv, [GuestNext]_gvars
  PROVE  ValuesAreHeld'
<1>1. HandlesAreOld /\ ValuesAreHeld
  BY DEF GuestIndInv
<1>2. ASSUME handles' = handles PROVE ValuesAreHeld'
  BY <1>1, <1>2 DEF ValuesAreHeld
<1>3. ASSUME NEW h, NEW v, Held(v), handles' = Keep(h, v) PROVE ValuesAreHeld'
  BY <1>1, <1>3 DEF ValuesAreHeld, Keep
<1>4. CASE TableStep
  <2>1. ASSUME NEW r, Status(r) PROVE ValuesAreHeld'
    BY <1>2, <2>1 DEF Status
  <2>2. ASSUME NEW v, Held(v), Insert(v) PROVE ValuesAreHeld'
    <3>1. CASE Status(LIMIT)
      BY <2>1, <3>1
    <3>2. CASE ~Status(LIMIT)
      <4>1. handles' = Keep(nextHandle, v)
        BY <2>2, <3>2 DEF Insert, Give
      <4> QED BY <1>3, <2>2, <4>1
    <3> QED BY <3>1, <3>2
  <2>3. ASSUME NEW h, Dropped(h) PROVE ValuesAreHeld'
    BY <1>1, <2>3 DEF Dropped, ValuesAreHeld
  <2>4. ASSUME NEW h, NEW v, Held(v), Replaced(h, v) PROVE ValuesAreHeld'
    BY <1>3, <2>4 DEF Replaced
  <2> QED BY <1>4, <2>1, <2>2, <2>3, <2>4 DEF TableStep
<1>5. CASE OtherInserts \/ UNCHANGED gvars
  BY <1>2, <1>5 DEF OtherInserts, gvars
<1>6. CASE Ends
  BY <1>6 DEF Ends, ValuesAreHeld
<1> QED BY <1>4, <1>5, <1>6, GuestSteps

\* At most one event waits, with a payload that was checked.
LEMMA StepMailboxFits ==
  ASSUME GuestIndInv, [GuestNext]_gvars
  PROVE  MailboxFits'
<1>0. MailboxFits
  BY DEF GuestIndInv
<1>1. CASE UNCHANGED mailbox
  BY <1>0, <1>1 DEF MailboxFits
<1>2. CASE EventReceived
  <2>1. PICK p \in Payloads : mailbox = <<Envelope(p)>>
    BY <1>0, <1>2 DEF EventReceived, MailboxFits
  <2>2. mailbox' = <<>>
    BY <1>2, <2>1 DEF EventReceived
  <2> QED BY <2>2 DEF MailboxFits
<1>3. ASSUME NEW p \in Payloads, DeliverEvent(p) PROVE MailboxFits'
  BY <1>3 DEF DeliverEvent, MailboxFits
<1>4. CASE Ends
  BY <1>4 DEF Ends, MailboxFits
<1>5. CASE UNCHANGED gvars
  BY <1>1, <1>5 DEF gvars
<1> QED BY <1>1, <1>2, <1>3, <1>4, <1>5, GuestSteps

\* What the guest waits for is one of the reasons, and what it gets a number.
LEMMA StepRegistersFit ==
  ASSUME GuestIndInv, [GuestNext]_gvars
  PROVE  RegistersFit'
<1>1. HandlesAreOld /\ RegistersFit
  BY DEF GuestIndInv
<1>2. ASSUME TableStep PROVE r0' \in Int
  <2>1. ASSUME NEW r \in Int, Status(r) PROVE r0' \in Int
    BY <2>1 DEF Status
  <2>2. ASSUME NEW v, Insert(v) PROVE r0' \in Int
    <3>1. CASE Status(LIMIT)
      BY <3>1 DEF Status, LIMIT
    <3>2. CASE ~Status(LIMIT)
      <4>1. nextHandle \in 1..(I64_MAX - 1) /\ r0' = nextHandle
        BY <1>1, <2>2, <3>2, InsertGives
      <4> QED BY <4>1
    <3> QED BY <3>1, <3>2
  <2>3. ASSUME NEW h, NEW v, Dropped(h) \/ Replaced(h, v) PROVE r0' \in Int
    BY <2>3 DEF Dropped, Replaced
  <2> QED BY <1>2, <2>1, <2>2, <2>3 DEF TableStep
<1>3. OtherInserts \/ UNCHANGED gvars => r0' \in Int
  BY <1>1 DEF OtherInserts, gvars, RegistersFit
<1>4. Ends => r0' \in Int
  BY DEF Ends
<1>5. r0' \in Int
  BY <1>2, <1>3, <1>4, GuestSteps
<1>6. pending' \in {"none", "timer", "yield", "event", "host_rpc", "ended"}
  <2>1. CASE GuestNext
    BY <2>1, GuestSteps
  <2>2. CASE UNCHANGED gvars
    BY <1>1, <2>2 DEF gvars, RegistersFit
  <2> QED BY <2>1, <2>2
<1> QED BY <1>5, <1>6 DEF RegistersFit

\* The invariant of a guest holds in every state.
THEOREM GuestInvariant == GuestSpec => []GuestIndInv
<1>1. ASSUME GuestInit PROVE GuestIndInv
  <2>1. /\ nextHandle = 1 /\ used = {} /\ mailbox = <<>> /\ handles = <<>>
        /\ pending = "none" /\ r0 = 0
        /\ I64_MAX \in Nat /\ I64_MAX >= 1 /\ MAX_HANDLES \in Nat
    BY <1>1, GuestAssumption DEF GuestInit
  <2>2. DOMAIN handles = {}
    BY <2>1
  <2>3. IsFiniteSet(DOMAIN handles) /\ Cardinality(DOMAIN handles) <= MAX_HANDLES
    BY <2>1, <2>2, FS_EmptySet
  <2>4. HandlesAreOld
    BY <2>1, <2>2, <2>3 DEF HandlesAreOld
  <2>5. ValuesAreHeld
    BY <2>2 DEF ValuesAreHeld
  <2>6. MailboxFits /\ RegistersFit
    BY <2>1 DEF MailboxFits, RegistersFit
  <2> QED BY <2>4, <2>5, <2>6 DEF GuestIndInv
<1>2. GuestIndInv /\ [GuestNext]_gvars => GuestIndInv'
  BY StepHandlesAreOld, StepValuesAreHeld, StepMailboxFits, StepRegistersFit DEF GuestIndInv
<1> QED BY <1>1, <1>2, PTL DEF GuestSpec

\* Whatever the guest builds, no value it holds is deeper, larger or longer
\* than the limits, but for the envelope of an event, and no dump is longer.
THEOREM ValuesStayBounded == GuestSpec => []ValuesAreBounded
<1>1. GuestIndInv => ValuesAreBounded
  <2> SUFFICES ASSUME GuestIndInv PROVE ValuesAreBounded
    OBVIOUS
  <2>1. HandlesAreOld /\ ValuesAreHeld /\ MailboxFits /\ RegistersFit
    BY DEF GuestIndInv
  <2>2. GuestTypeOK
    <3>1. Len(mailbox) <= 1
      <4>1. mailbox = <<>> \/ \E e : mailbox = <<e>>
        BY <2>1 DEF MailboxFits
      <4>2. Len(<<>>) <= 1
        OBVIOUS
      <4>3. ASSUME NEW e PROVE Len(<<e>>) <= 1
        OBVIOUS
      <4> QED BY <4>1, <4>2, <4>3
    <3>2. used \subseteq Nat
      BY <2>1 DEF HandlesAreOld
    <3> QED BY <2>1, <3>1, <3>2 DEF GuestTypeOK, HandlesAreOld, RegistersFit
  <2>3. ASSUME NEW h \in DOMAIN handles, NEW v, v = handles[h]
        PROVE  IF Kind(v) = "bytes" THEN Val(v) <= MAX_VALUE_BYTES
               ELSE /\ Encoded(v) <= MAX_VALUE_BYTES
                    /\ Bounded(v) \/ \E p \in Payloads : v = Envelope(p) /\ Bounded(p)
    <3>1. Held(v)
      BY <2>1, <2>3 DEF ValuesAreHeld
    <3>2. Val(v) \in 0..MAX_VALUE_BYTES => Val(v) <= MAX_VALUE_BYTES
      OBVIOUS
    <3>3. IsValue(v) => Kind(v) # "bytes"
      BY ValueHasKind
    <3> QED BY Zenon, <3>1, <3>2, <3>3 DEF Held
  <2> QED BY <2>2, <2>3 DEF ValuesAreBounded
<1> QED BY <1>1, GuestInvariant, PTL

\* A handle id is never used twice, by whatever object and however often
\* handles are dropped; it is positive, and the guest is told of it.
THEOREM HandlesAreAlwaysFresh == GuestSpec => HandlesAreFresh
<1>1. ASSUME GuestIndInv, [GuestNext]_gvars, NEW h \in DOMAIN handles' \ DOMAIN handles
      PROVE  h \notin used /\ h > 0 /\ r0' = h
  <2>1. CASE \E v : Insert(v)
    <3>1. HandlesAreOld /\ ~(\E r : Status(r))
      BY <1>1 DEF GuestIndInv, Status
    <3>2. /\ nextHandle \in 1..(I64_MAX - 1) /\ nextHandle \notin used
          /\ DOMAIN handles' = DOMAIN handles \cup {nextHandle} /\ r0' = nextHandle
      BY <2>1, <3>1, InsertGives
    <3> QED BY <1>1, <3>2
  <2>2. CASE ~(\E v : Insert(v))
    <3>1. ASSUME NEW k \in DOMAIN handles, NEW v, Replaced(k, v) PROVE FALSE
      BY <1>1, <3>1 DEF Replaced, Keep
    <3>2. ~(\E r : Status(r)) /\ ~(\E k : Dropped(k)) /\ ~OtherInserts /\ ~UNCHANGED gvars
      BY <1>1 DEF Status, Dropped, OtherInserts, gvars
    <3>3. ~Ends
      <4>1. Ends => DOMAIN handles' = {}
        BY DEF Ends
      <4> QED BY <1>1, <4>1
    <3> QED BY <1>1, <2>2, <3>1, <3>2, <3>3, GuestSteps DEF TableStep
  <2> QED BY <2>1, <2>2
<1>2. GuestIndInv /\ [GuestNext]_gvars =>
        [\A h \in DOMAIN handles' \ DOMAIN handles :
           h \notin used /\ h > 0 /\ r0' = h]_gvars
  BY <1>1
<1> QED BY <1>2, GuestInvariant, PTL DEF GuestSpec, HandlesAreFresh

\* A helper that reports an error has changed no handle.
THEOREM ErrorsAlwaysChangeNothing == GuestSpec => ErrorsChangeNothing
<1>1. ASSUME GuestIndInv, [GuestNext]_gvars, r0' < 0
      PROVE  handles' = handles
  <2>1. ASSUME NEW v, Insert(v) PROVE handles' = handles
    <3>1. HandlesAreOld
      BY <1>1 DEF GuestIndInv
    <3>2. CASE Status(LIMIT)
      BY <3>2 DEF Status
    <3>3. CASE ~Status(LIMIT)
      <4>1. nextHandle \in 1..(I64_MAX - 1) /\ r0' = nextHandle
        BY <2>1, <3>1, <3>3, InsertGives
      <4> QED BY <1>1, <4>1
    <3> QED BY <3>2, <3>3
  <2>2. CASE TableStep
    <3>1. ASSUME NEW r, Status(r) PROVE handles' = handles
      BY <3>1 DEF Status
    <3>2. ASSUME NEW h, NEW v, Dropped(h) \/ Replaced(h, v) PROVE FALSE
      BY <1>1, <3>2 DEF Dropped, Replaced
    <3> QED BY <2>1, <2>2, <3>1, <3>2 DEF TableStep
  <2>3. CASE OtherInserts
    BY <2>3 DEF OtherInserts
  <2>4. CASE Ends
    BY <1>1, <2>4 DEF Ends
  <2>5. CASE UNCHANGED gvars
    BY <2>5 DEF gvars
  <2> QED BY <1>1, <2>2, <2>3, <2>4, <2>5, GuestSteps
<1>2. GuestIndInv /\ [GuestNext]_gvars => [r0' < 0 => handles' = handles]_gvars
  BY <1>1
<1> QED BY <1>2, GuestInvariant, PTL DEF GuestSpec, ErrorsChangeNothing

\* An event that leaves the mailbox of a live object is under the handle that
\* the guest is given, or the guest is told that it had none to give.
THEOREM EventsAreHandedOver == GuestSpec => EventIsHandedOver
<1> DEFINE Given == \/ /\ r0' \in DOMAIN handles' \ DOMAIN handles
                       /\ handles'[r0'] = Head(mailbox)
                    \/ /\ r0' = LIMIT
                       /\ Cardinality(DOMAIN handles) = MAX_HANDLES \/ nextHandle = I64_MAX
<1>1. ASSUME GuestIndInv, [GuestNext]_gvars, mailbox # <<>>, mailbox' = <<>>, pending' # "ended"
      PROVE  Given
  <2>1. EventReceived
    <3>1. ~UNCHANGED mailbox /\ ~UNCHANGED gvars
      BY <1>1 DEF gvars
    <3>2. ~Ends
      BY <1>1 DEF Ends
    <3>3. ASSUME NEW p \in Payloads, DeliverEvent(p) PROVE FALSE
      BY <1>1, <3>3 DEF DeliverEvent
    <3> QED BY <1>1, <3>1, <3>2, <3>3, GuestSteps
  <2>2. PICK v : v = Head(mailbox) /\ Insert(v)
    BY <2>1 DEF EventReceived
  <2>3. HandlesAreOld
    BY <1>1 DEF GuestIndInv
  <2>4. CASE Status(LIMIT) /\ (Cardinality(DOMAIN handles) = MAX_HANDLES \/ nextHandle = I64_MAX)
    BY <2>4 DEF Status
  <2>5. CASE ~(Status(LIMIT) /\ (Cardinality(DOMAIN handles) = MAX_HANDLES \/ nextHandle = I64_MAX))
    <3>1. /\ nextHandle \notin DOMAIN handles
          /\ DOMAIN handles' = DOMAIN handles \cup {nextHandle}
          /\ handles'[nextHandle] = v /\ r0' = nextHandle
      BY <2>2, <2>3, <2>5, InsertGives
    <3> QED BY <2>2, <3>1
  <2> QED BY <2>4, <2>5
<1>2. GuestIndInv /\ [GuestNext]_gvars =>
        [mailbox # <<>> /\ mailbox' = <<>> /\ pending' # "ended" => Given]_gvars
  BY <1>1
<1> QED BY <1>2, GuestInvariant, PTL DEF GuestSpec, EventIsHandedOver
=============================================================================
