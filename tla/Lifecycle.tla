----------------------------- MODULE Lifecycle ------------------------------
(***************************************************************************)
(* The life of objects (src/src/runtime.rs): load, start, the object task, *)
(* deliver as far as states go, stop and unload from several concurrent    *)
(* requests, and the end of the session (src/src/protocol.rs), which       *)
(* aborts the requests and stops every object.                             *)
(*                                                                         *)
(* One action is one poll of one task.  Object::stop waits in one place,   *)
(* on the Notify "done"; the JoinHandle it awaits afterwards belongs to a  *)
(* task that is over (StopIsComplete), so that await does not suspend.     *)
(* The contents of the mailbox are in module Mailbox, the calls and the    *)
(* output of an object in HostCalls; here a mailbox counts its events.     *)
(*                                                                         *)
(* Objects are the serial numbers of their ids.  Definitions named Mut...  *)
(* are faulty variants of the definition after them.                       *)
(***************************************************************************)
EXTENDS Integers, FiniteSets, SequencesExt

CONSTANTS Handlers,      \* requests that can wait in stop() or unload()
          MAX_SERIAL,    \* the largest serial number (u64::MAX)
          MAX_EVENTS     \* events a mailbox holds (32)

ASSUME LifecycleAssumption ==
  /\ MAX_SERIAL \in Nat
  /\ MAX_EVENTS \in Nat
  /\ "main" \notin Handlers

VARIABLES phase,     \* serve_with_config: "serving", "aborting", "stopping", "done"
          next,      \* Runtime::next
          loading,   \* serial numbers of the loads in progress
          listed,    \* ids in Runtime::objects
          state,     \* [Ids -> State], "none" before the object exists
          program,   \* objects that hold their program
          events,    \* [Ids -> number of events in the mailbox]
          cancel,    \* objects whose token is cancelled
          task,      \* [Ids -> "none", "spawned", "running", "over"]
          handle,    \* objects that hold the JoinHandle of their task
          outcome,   \* [Ids -> "none", "exit_code", "PROGRAM_FAULT"]
          stopper,   \* [Handlers and main -> the stop() in progress, or NoStop]
          toStop,    \* objects that Runtime::shutdown has still to stop
          returned   \* history: objects for which a stop() has returned

lvars == <<phase, next, loading, listed, state, program, events, cancel, task,
           handle, outcome, stopper, toStop, returned>>
serial == <<next, loading>>
tasks == <<cancel, task, handle, outcome>>
stops == <<stopper, toStop, returned>>

Ids == 1..MAX_SERIAL
Terminal == {"Stopped", "Exited", "Failed"}
Live == {"Starting", "Running", "Stopping"}
NoStop == [pc |-> "none", id |-> 0, unload |-> FALSE]
Stoppers == Handlers \cup {"main"}

-----------------------------------------------------------------------------
(* Runtime::load.  The serial number is taken before the program is loaded *)
(* by a worker thread, and is not given back when the load fails.          *)

LoadStart ==
  /\ phase = "serving"
  /\ next < MAX_SERIAL
  /\ next' = next + 1
  /\ loading' = loading \cup {next + 1}
  /\ UNCHANGED <<phase, listed, state, program, events, tasks, stops>>

LoadOk(id) ==
  /\ phase = "serving"
  /\ id \in loading
  /\ loading' = loading \ {id}
  /\ listed' = listed \cup {id}
  /\ state' = [state EXCEPT ![id] = "Loaded"]
  /\ program' = program \cup {id}
  /\ UNCHANGED <<phase, next, events, tasks, stops>>

\* Not an object file, no entry section, or the request was aborted.
LoadFail(id) ==
  /\ id \in loading
  /\ loading' = loading \ {id}
  /\ UNCHANGED <<phase, next, listed, state, program, events, tasks, stops>>

-----------------------------------------------------------------------------
(* Runtime::start and Object::deliver, which do not wait.                  *)

MutStart(id) ==                          \* a start is also accepted later
  /\ phase = "serving"
  /\ id \in listed
  /\ state[id] \in {"Loaded", "Stopped"}
  /\ state' = [state EXCEPT ![id] = "Starting"]
  /\ task' = [task EXCEPT ![id] = "spawned"]
  /\ handle' = handle \cup {id}
  /\ UNCHANGED <<phase, serial, listed, program, events, cancel, outcome, stops>>

Start(id) ==
  /\ phase = "serving"
  /\ id \in listed
  /\ state[id] = "Loaded"
  /\ state' = [state EXCEPT ![id] = "Starting"]
  /\ task' = [task EXCEPT ![id] = "spawned"]
  /\ handle' = handle \cup {id}
  /\ UNCHANGED <<phase, serial, listed, program, events, cancel, outcome, stops>>

Deliver(id) ==
  /\ phase = "serving"
  /\ id \in listed
  /\ state[id] \in {"Loaded", "Starting", "Running"}
  /\ events[id] < MAX_EVENTS
  /\ events' = [events EXCEPT ![id] = @ + 1]
  /\ UNCHANGED <<phase, serial, listed, state, program, tasks, stops>>

-----------------------------------------------------------------------------
(* The object task.  Its first poll sets Running, also when a stop came in *)
(* between; the select is biased towards the cancellation.                 *)

DoneWakes(id) ==
  [h \in Stoppers |-> IF stopper[h].id = id /\ stopper[h].pc = "parked"
                      THEN [stopper[h] EXCEPT !.pc = "woken"] ELSE stopper[h]]

MutTaskEnds(id, s, o) ==                 \* done.notify_waiters() forgotten
  /\ task[id] \in {"spawned", "running"}
  /\ state' = [state EXCEPT ![id] = s]
  /\ outcome' = [outcome EXCEPT ![id] = o]
  /\ events' = [events EXCEPT ![id] = 0]
  /\ task' = [task EXCEPT ![id] = "over"]
  /\ UNCHANGED <<phase, serial, listed, program, cancel, handle, stops>>

\* The end of the task, from the result of the select to done.notify_waiters.
TaskEnds(id, s, o) ==
  /\ task[id] \in {"spawned", "running"}
  /\ state' = [state EXCEPT ![id] = s]
  /\ outcome' = [outcome EXCEPT ![id] = o]
  /\ events' = [events EXCEPT ![id] = 0]
  /\ task' = [task EXCEPT ![id] = "over"]
  /\ stopper' = DoneWakes(id)
  /\ UNCHANGED <<phase, serial, listed, program, cancel, handle, toStop, returned>>

TaskCancelled(id) == id \in cancel /\ TaskEnds(id, "Stopped", "none")

TaskExits(id) == id \notin cancel /\ TaskEnds(id, "Exited", "exit_code")

TaskFaults(id) == id \notin cancel /\ TaskEnds(id, "Failed", "PROGRAM_FAULT")

TaskRuns(id) ==
  /\ task[id] = "spawned"
  /\ id \notin cancel
  /\ state' = [state EXCEPT ![id] = "Running"]
  /\ task' = [task EXCEPT ![id] = "running"]
  /\ UNCHANGED <<phase, serial, listed, program, events, cancel, handle, outcome, stops>>

\* A running program takes an event.
TaskReceives(id) ==
  /\ task[id] = "running"
  /\ id \notin cancel
  /\ events[id] > 0
  /\ events' = [events EXCEPT ![id] = @ - 1]
  /\ UNCHANGED <<phase, serial, listed, state, program, tasks, stops>>

-----------------------------------------------------------------------------
(* Object::stop, called by Runtime::stop and Runtime::shutdown.            *)

\* What follows the wait: the JoinHandle, the program and the events go.
StopCompletes(h, id, unload) ==
  /\ handle' = handle \ {id}
  /\ program' = program \ {id}
  /\ events' = [events EXCEPT ![id] = 0]
  /\ listed' = IF unload THEN listed \ {id} ELSE listed
  /\ stopper' = [stopper EXCEPT ![h] = NoStop]
  /\ returned' = returned \cup {id}

MutStopAtOnce(h, id, unload) ==          \* the state does not wait for the task
  /\ state[id] \in Live
  /\ state' = [state EXCEPT ![id] = "Stopped"]
  /\ cancel' = cancel \cup {id}
  /\ stopper' = [stopper EXCEPT ![h] = [pc |-> "parked", id |-> id, unload |-> unload]]
  /\ UNCHANGED <<handle, program, events, listed, returned>>

\* The first poll of stop().
StopBegins(h, id, unload) ==
  \/ /\ state[id] \in Live
     /\ state' = [state EXCEPT ![id] = "Stopping"]
     /\ cancel' = cancel \cup {id}
     /\ stopper' = [stopper EXCEPT ![h] = [pc |-> "parked", id |-> id, unload |-> unload]]
     /\ UNCHANGED <<handle, program, events, listed, returned>>
  \/ /\ state[id] = "Loaded"
     /\ state' = [state EXCEPT ![id] = "Stopped"]
     /\ StopCompletes(h, id, unload)
     /\ UNCHANGED cancel
  \/ /\ state[id] \in Terminal
     /\ StopCompletes(h, id, unload)
     /\ UNCHANGED <<state, cancel>>

StopRequest(h, id, unload) ==
  /\ phase = "serving"
  /\ h \in Handlers
  /\ stopper[h] = NoStop
  /\ id \in listed
  /\ StopBegins(h, id, unload)
  /\ UNCHANGED <<phase, serial, task, outcome, toStop>>

MutStopResumes(h) ==                     \* returns without looking again
  LET id == stopper[h].id
  IN  /\ stopper[h].pc \in {"parked", "woken"}
      /\ h = "main" \/ phase = "serving"
      /\ StopCompletes(h, id, stopper[h].unload)
      /\ UNCHANGED <<phase, serial, state, cancel, task, outcome, toStop>>

\* The loop around "done" looks at the state again.
StopResumes(h) ==
  LET id == stopper[h].id
  IN  /\ stopper[h].pc = "woken"
      /\ h = "main" \/ phase = "serving"
      /\ state[id] # "Stopping"
      /\ StopCompletes(h, id, stopper[h].unload)
      /\ UNCHANGED <<phase, serial, state, cancel, task, outcome, toStop>>

-----------------------------------------------------------------------------
(* The end of the session.                                                 *)

\* The loop of serve_with_config ends for whatever reason; abort_all().
SessionEnds ==
  /\ phase = "serving"
  /\ phase' = "aborting"
  /\ UNCHANGED <<serial, listed, state, program, events, tasks, stops>>

\* The runtime drops an aborted request wherever it waits.
StopAborted(h) ==
  /\ phase = "aborting"
  /\ stopper[h] # NoStop
  /\ stopper' = [stopper EXCEPT ![h] = NoStop]
  /\ UNCHANGED <<phase, serial, listed, state, program, events, tasks, toStop, returned>>

MutShutdownBegins ==                     \* only the running ones are stopped
  /\ phase = "aborting"
  /\ loading = {} /\ \A h \in Handlers : stopper[h] = NoStop
  /\ phase' = "stopping"
  /\ toStop' = {id \in listed : state[id] \in {"Starting", "Running"}}
  /\ cancel' = cancel \cup toStop'
  /\ UNCHANGED <<serial, listed, state, program, events, task, handle, outcome, stopper, returned>>

\* All requests are gone: Runtime::shutdown takes the list of objects and
\* cancels every token, whatever the state of the object.
ShutdownBegins ==
  /\ phase = "aborting"
  /\ loading = {} /\ \A h \in Handlers : stopper[h] = NoStop
  /\ phase' = "stopping"
  /\ toStop' = listed
  /\ cancel' = cancel \cup listed
  /\ UNCHANGED <<serial, listed, state, program, events, task, handle, outcome, stopper, returned>>

\* It stops the objects one after the other; their order is left open.
ShutdownStops(id) ==
  /\ phase = "stopping"
  /\ stopper["main"] = NoStop
  /\ id \in toStop
  /\ toStop' = toStop \ {id}
  /\ StopBegins("main", id, FALSE)
  /\ UNCHANGED <<phase, serial, task, outcome>>

ShutdownDone ==
  /\ phase = "stopping"
  /\ toStop = {} /\ stopper["main"] = NoStop
  /\ phase' = "done"
  /\ listed' = {}
  /\ UNCHANGED <<serial, state, program, events, tasks, stops>>

-----------------------------------------------------------------------------
Init ==
  /\ phase = "serving"
  /\ next = 0
  /\ loading = {} /\ listed = {} /\ program = {} /\ cancel = {} /\ handle = {}
  /\ state = [id \in Ids |-> "none"]
  /\ events = [id \in Ids |-> 0]
  /\ task = [id \in Ids |-> "none"]
  /\ outcome = [id \in Ids |-> "none"]
  /\ stopper = [h \in Stoppers |-> NoStop]
  /\ toStop = {}
  /\ returned = {}

Next ==
  \/ LoadStart
  \/ \E id \in Ids :
       \/ LoadOk(id) \/ LoadFail(id) \/ Start(id) \/ Deliver(id)
       \/ TaskCancelled(id) \/ TaskExits(id) \/ TaskFaults(id) \/ TaskRuns(id)
       \/ TaskReceives(id) \/ ShutdownStops(id)
  \/ \E h \in Handlers, id \in Ids, unload \in BOOLEAN : StopRequest(h, id, unload)
  \/ \E h \in Stoppers : StopResumes(h)
  \/ \E h \in Handlers : StopAborted(h)
  \/ SessionEnds \/ ShutdownBegins \/ ShutdownDone

Spec == Init /\ [][Next]_lvars

\* The scheduler polls every ready task, a preempted program included: it
\* yields after a millisecond, and the select then sees the cancellation.
\* Nothing makes a program exit, a load finish or a session end.
FairSpec ==
  /\ Spec
  /\ \A id \in Ids : WF_lvars(TaskCancelled(id)) /\ WF_lvars(ShutdownStops(id))
  /\ \A id \in Ids : WF_lvars(LoadFail(id) /\ phase = "aborting")
  /\ \A h \in Stoppers : WF_lvars(StopResumes(h))
  /\ \A h \in Handlers : WF_lvars(StopAborted(h))
  /\ WF_lvars(ShutdownBegins) /\ WF_lvars(ShutdownDone)

-----------------------------------------------------------------------------
(* Properties.                                                             *)

TypeOK ==
  /\ phase \in {"serving", "aborting", "stopping", "done"}
  /\ next \in 0..MAX_SERIAL
  /\ loading \subseteq 1..next /\ listed \subseteq 1..next
  /\ program \subseteq Ids /\ cancel \subseteq Ids /\ handle \subseteq Ids
  /\ state \in [Ids -> {"none", "Loaded"} \cup Live \cup Terminal]
  /\ events \in [Ids -> 0..MAX_EVENTS]
  /\ task \in [Ids -> {"none", "spawned", "running", "over"}]
  /\ outcome \in [Ids -> {"none", "exit_code", "PROGRAM_FAULT"}]
  /\ stopper \in [Stoppers -> [pc : {"none", "parked", "woken"}, id : 0..MAX_SERIAL,
                               unload : BOOLEAN]]
  /\ toStop \subseteq Ids /\ returned \subseteq Ids

TaskLives(id) == task[id] \in {"spawned", "running"}

\* The state that others read agrees with the object, whatever order stops and
\* the task's own end came in: Starting, Running and Stopping have a task that
\* will still end, the other states have none.  The program is there as long
\* as it can be started (the expect("loaded program") of start) or runs, and
\* a mailbox that nobody will read again is empty.
StateMatchesTask ==
  /\ TypeOK
  /\ \A id \in Ids :
       /\ state[id] \in Live <=> TaskLives(id)
       /\ state[id] = "Loaded" \/ TaskLives(id) => id \in program
       /\ state[id] \in Terminal => events[id] = 0

\* When stop() has returned, to whichever of several concurrent callers, the
\* object is in a terminal state, its task is over, and the program, the
\* JoinHandle and the events are released for good.
StopIsComplete ==
  \A id \in returned :
    /\ state[id] \in Terminal
    /\ ~TaskLives(id)
    /\ id \notin program /\ id \notin handle
    /\ events[id] = 0

\* After the shutdown no task, no program and no listed object is left, also
\* when the session ended in the middle of a load, a stop or an unload.
ShutdownLeavesNothing ==
  phase = "done" =>
    /\ listed = {} /\ program = {} /\ loading = {}
    /\ \A id \in Ids : ~TaskLives(id)

\* A terminal state is final, and an id that left the list never comes back.
TerminalIsFinal ==
  [][\A id \in Ids :
       /\ state[id] \in Terminal => state'[id] = state[id]
       /\ id \notin listed /\ state[id] # "none" => id \notin listed']_lvars

\* Every stop and unload returns, or is dropped with the session.
EveryStopReturns == \A h \in Stoppers : stopper[h] # NoStop ~> stopper[h] = NoStop

\* A session that ends gets to the end of its cleanup.
ShutdownCompletes == phase = "aborting" ~> phase = "done"
=============================================================================
