------------------------- MODULE OperationController -------------------------
(***************************************************************************)
(* Admission and execution of operations inside one run of the add-on:     *)
(* app/operation.py with the loop of app/main.py that serves it.  MQTT and *)
(* Ingress threads submit commands, the main thread takes them from a      *)
(* queue with one place and executes them, and SIGTERM interrupts the main *)
(* thread between two of its bytecodes.                                    *)
(*                                                                         *)
(* A method of the controller holds its lock from beginning to end and is  *)
(* one step.  The queue has a mutex of its own, which Queue.get holds over *)
(* several steps of the main thread, and which the signal handler needs.   *)
(***************************************************************************)
EXTENDS Sequences

CONSTANTS
  Ops,   \* commands, each with the identifier submit gives it
  NoOp,  \* None: no command, or the token wake puts in the queue
  Free,  \* nobody holds the mutex of the queue
  Main   \* the main thread

ASSUME NoOpAssumption == NoOp \notin Ops
ASSUME MutexAssumption == Free # Main

VARIABLES
  queue,      \* _queue
  mutex,      \* holder of the mutex of _queue
  busy,       \* _busy
  active,     \* _active_identifier
  state,      \* _state
  running,    \* running, cleared by the signal handler
  handler,    \* the signal handler has yet to call wake
  pc,         \* where the main thread is
  op,         \* what next returned to the main thread
  cause,      \* why the main thread left its loop
  submitted,  \* history: commands whose submit was called
  executed    \* history: commands given to the updater

controllerVars == <<busy, active, state>>
signalVars == <<running, handler>>
historyVars == <<submitted, executed>>
vars == <<controllerVars, signalVars, historyVars, queue, mutex, pc, op, cause>>

States == {"idle", "queued", "running", "complete", "failed"}
Pcs == {"loop", "get", "locked", "decide", "chores", "run", "exit", "end"}

-----------------------------------------------------------------------------
(***************************************************************************)
(* The controller.                                                         *)
(***************************************************************************)
\* MUTANT of Release: the identifier of the last command is kept.
ReleaseBusyOnly == busy' = FALSE /\ UNCHANGED active

Release == busy' = FALSE /\ active' = NoOp

Reset == Release /\ state' = "idle"

Reserve(o) == busy' = TRUE /\ active' = o /\ state' = "queued"

\* MUTANT of Admit: the reservation outlives the failed put.
KeepReservation(o) ==
  /\ Reserve(o)
  /\ queue' = IF queue = <<>> THEN <<o>> ELSE queue

\* submit of a controller that is not busy.  The token of wake may fill the
\* queue; the reservation is then undone.
Admit(o) ==
  \/ queue = <<>> /\ Reserve(o) /\ queue' = <<o>>
  \/ queue # <<>> /\ Reset /\ UNCHANGED queue

\* A thread that finds the mutex taken waits for it inside the lock.
Submit(o) ==
  /\ o \notin submitted /\ pc # "end" /\ mutex = Free
  /\ submitted' = submitted \cup {o}
  /\ IF busy THEN UNCHANGED <<controllerVars, queue>> ELSE Admit(o)
  /\ UNCHANGED <<signalVars, mutex, pc, op, cause, executed>>

IsActive(o) == busy /\ active = o

\* complete, fail and cancel say nothing of a command that is not active.
Announce(o, outcome) ==
  IF IsActive(o)
  THEN Release /\ state' = outcome
  ELSE UNCHANGED controllerVars

-----------------------------------------------------------------------------
(***************************************************************************)
(* SIGTERM.                                                                *)
(***************************************************************************)
\* Only the main thread runs signal handlers; they keep it from going on.
\* Supervisor sends one SIGTERM.
Signal ==
  /\ pc # "end" /\ running
  /\ running' = FALSE
  /\ handler' = TRUE
  /\ UNCHANGED <<controllerVars, historyVars, queue, mutex, pc, op, cause>>

\* MUTANT of Woken: the token goes in front of a command.
WokenAnyway == Append(<<NoOp>>, queue)

\* The token is dropped when the queue is full.
Woken == IF queue = <<>> THEN <<NoOp>> ELSE queue

Wake ==
  /\ handler /\ mutex = Free
  /\ queue' = Woken
  /\ handler' = FALSE
  /\ UNCHANGED <<controllerVars, historyVars, running, mutex, pc, op, cause>>

-----------------------------------------------------------------------------
(***************************************************************************)
(* The main thread.                                                        *)
(***************************************************************************)
MainGoes(from, to) == pc = from /\ ~handler /\ pc' = to

LeaveLoop(from, why) == MainGoes(from, "exit") /\ cause' = why

\* while running
Loop ==
  /\ \/ running /\ MainGoes("loop", "get") /\ UNCHANGED cause
     \/ ~running /\ LeaveLoop("loop", "stopped")
  /\ UNCHANGED <<controllerVars, signalVars, historyVars, queue, mutex, op>>

\* Queue.get takes the mutex, at first and again after every wait.
LockQueue ==
  /\ MainGoes("get", "locked")
  /\ mutex = Free /\ mutex' = Main
  /\ UNCHANGED <<controllerVars, signalVars, historyVars, queue, op, cause>>

\* Condition.wait gives the mutex back; it ends when notified or when the
\* time is over.
Wait ==
  /\ MainGoes("locked", "get")
  /\ queue = <<>>
  /\ mutex' = Free
  /\ UNCHANGED <<controllerVars, signalVars, historyVars, queue, op, cause>>

\* The only item, or None when the time is over.
Take ==
  /\ MainGoes("locked", "decide")
  /\ op' = IF queue = <<>> THEN NoOp ELSE Head(queue)
  /\ queue' = <<>>
  /\ mutex' = Free
  /\ UNCHANGED <<controllerVars, signalVars, historyVars, cause>>

TakeNothing ==
  /\ op = NoOp
  /\ \/ running /\ MainGoes("decide", "chores") /\ UNCHANGED cause
     \/ ~running /\ LeaveLoop("decide", "stopped")
  /\ UNCHANGED <<controllerVars, signalVars, historyVars, queue, mutex, op>>

\* A rescan and a refresh; an MqttError of the publication, or an OSError of
\* a save, is caught nowhere in the loop.
Chores ==
  /\ \/ MainGoes("chores", "loop") /\ UNCHANGED cause
     \/ LeaveLoop("chores", "error")
  /\ UNCHANGED <<controllerVars, signalVars, historyVars, queue, mutex, op>>

\* MUTANT of Cancel: the loop is left without a word.
Drop ==
  /\ op # NoOp /\ ~running
  /\ LeaveLoop("decide", "stopped")
  /\ UNCHANGED <<controllerVars, signalVars, historyVars, queue, mutex, op>>

Cancel ==
  /\ op # NoOp /\ ~running
  /\ LeaveLoop("decide", "stopped")
  /\ Announce(op, "failed")
  /\ UNCHANGED <<signalVars, historyVars, queue, mutex, op>>

\* start, and the updater begins; the updater does not look at the outcome
\* of start.
Start ==
  /\ op # NoOp /\ running
  /\ MainGoes("decide", "run")
  /\ IF IsActive(op)
     THEN state' = "running" /\ UNCHANGED <<busy, active>>
     ELSE UNCHANGED controllerVars
  /\ executed' = executed \cup {op}
  /\ UNCHANGED <<signalVars, submitted, queue, mutex, op, cause>>

\* MUTANT of Outcome: the slot of a failed command is not given back.
Stuck(o) ==
  \/ Announce(o, "complete")
  \/ state' = "failed" /\ UNCHANGED <<busy, active>>

Outcome(o) == Announce(o, "complete") \/ Announce(o, "failed")

\* The updater returned or raised; progress reports on the way keep the state
\* "running".
Finish ==
  /\ MainGoes("run", "loop")
  /\ Outcome(op)
  /\ UNCHANGED <<signalVars, historyVars, queue, mutex, op, cause>>

\* The record cannot be saved after a failure: the error escapes before fail.
Break ==
  /\ LeaveLoop("run", "error")
  /\ UNCHANGED <<controllerVars, signalVars, historyVars, queue, mutex, op>>

\* Ingress and MQTT are stopped; the process ends with its threads.
End ==
  /\ MainGoes("exit", "end")
  /\ UNCHANGED <<controllerVars, signalVars, historyVars, queue, mutex, op, cause>>

-----------------------------------------------------------------------------
Init ==
  /\ queue = <<>> /\ mutex = Free
  /\ busy = FALSE /\ active = NoOp /\ state = "idle"
  /\ running = TRUE /\ handler = FALSE
  /\ pc = "loop" /\ op = NoOp /\ cause = "none"
  /\ submitted = {} /\ executed = {}

MainStep ==
  \/ Loop \/ LockQueue \/ Wait \/ Take \/ TakeNothing \/ Chores
  \/ Cancel \/ Start \/ Finish \/ Break \/ End

Next == (\E o \in Ops : Submit(o)) \/ Signal \/ Wake \/ MainStep

\* The main thread and its signal handler run whenever they can; every
\* operation and every chore ends.  Nobody has to submit or to signal.
Fairness == WF_vars(MainStep) /\ WF_vars(Wake)

Spec == Init /\ [][Next]_vars /\ Fairness

-----------------------------------------------------------------------------
(***************************************************************************)
(* Properties.                                                             *)
(***************************************************************************)
\* Every variable stays in its range; the queue has one place.
TypeOK ==
  /\ queue \in {<<>>} \cup {<<o>> : o \in Ops \cup {NoOp}}
  /\ mutex \in {Free, Main}
  /\ busy \in BOOLEAN /\ active \in Ops \cup {NoOp} /\ state \in States
  /\ running \in BOOLEAN /\ handler \in BOOLEAN
  /\ pc \in Pcs /\ op \in Ops \cup {NoOp}
  /\ cause \in {"none", "stopped", "error"}
  /\ submitted \subseteq Ops /\ executed \subseteq Ops

\* The command is where the worker will find it, or has it in its hands.
Served(o) == (queue = <<o>>) \/ (op = o /\ pc \in {"decide", "run"})

\* The controller is busy exactly with the command that is in the queue or in
\* the hands of the main thread: it neither stays busy with a command nobody
\* will execute nor is free while one is on its way.
BusyIsServed ==
  pc \notin {"exit", "end"} =>
    /\ busy => Served(active)
    /\ \A o \in Ops : Served(o) => IsActive(o)

\* operation.py:184-187 with main.py:321-324: a command that the main thread
\* has taken is announced before the loop is left for a signal.
TakenIsAnnounced ==
  [][pc = "decide" /\ pc' = "exit" /\ op # NoOp => ~busy']_vars

\* Until the run is asked to stop, what was accepted is executed and its
\* outcome announced, or the run fails.
AcceptedIsSettled ==
  \A o \in Ops : IsActive(o) ~> ~IsActive(o) \/ ~running \/ cause = "error"

\* The controller implements the single slot it promises.
Slot == INSTANCE OperationSlot WITH slot <- active, phase <- state
ImplementsSlot == Slot!Spec

(***************************************************************************)
(* Promises of the repository that the code does not keep.                 *)
(***************************************************************************)
\* main.py:243, "Received signal %s; stopping after the current operation":
\* a run that was asked to stop ends.
SignalEndsRun == ~running ~> pc = "end"

=============================================================================
