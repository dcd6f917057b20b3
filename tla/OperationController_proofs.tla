---------------------- MODULE OperationController_proofs ----------------------
(***************************************************************************)
(* Theorems about OperationController, for every set of commands: what the *)
(* controller says and what the worker does never come apart, and the      *)
(* controller implements OperationSlot.                                    *)
(***************************************************************************)
EXTENDS OperationController, TLAPS

-----------------------------------------------------------------------------
(***************************************************************************)
(* The inductive invariant.  A command is in the queue or in the hands of  *)
(* the main thread, never both, and then it is the active one; what waits  *)
(* was not executed yet.  Once the loop is left the active command may     *)
(* have no one left to execute it.                                         *)
(***************************************************************************)
InHands(o) == o \in Ops /\ op = o /\ pc \in {"decide", "run"}

InQueue(o) == o \in Ops /\ queue = <<o>>

SlotOK ==
  /\ busy => active \in submitted /\ state \in {"queued", "running"}
  /\ ~busy => active = NoOp
  /\ executed \subseteq submitted

QueueOK ==
  \A o \in Ops : InQueue(o) =>
    /\ IsActive(o) /\ state = "queued" /\ o \notin executed
    /\ ~InHands(op)

HandsOK ==
  /\ pc = "decide" /\ op \in Ops => IsActive(op) /\ state = "queued" /\ op \notin executed
  /\ pc = "run" => op \in Ops /\ IsActive(op) /\ state = "running"

ServedOK == pc \notin {"exit", "end"} /\ busy => InQueue(active) \/ InHands(active)

IInv == TypeOK /\ SlotOK /\ QueueOK /\ HandsOK /\ ServedOK

\* The invariant holds initially.
LEMMA IInvInit == Init => IInv
  <1> SUFFICES ASSUME Init PROVE IInv
    OBVIOUS
  <1>1. TypeOK
    BY DEF Init, TypeOK, States, Pcs
  <1>2. \A o \in Ops : ~InQueue(o)
    BY DEF Init, InQueue
  <1>3. SlotOK /\ HandsOK /\ ServedOK
    BY DEF Init, SlotOK, HandsOK, ServedOK
  <1> QED
    BY <1>1, <1>2, <1>3 DEF IInv, QueueOK

\* Submission keeps the invariant: only a free controller takes a command.
LEMMA SubmitKeeps ==
  ASSUME IInv, NEW o \in Ops, Submit(o)
  PROVE IInv'
  <1> USE DEF Submit, IInv, signalVars
  <1>1. CASE busy
    BY <1>1 DEF TypeOK, SlotOK, QueueOK, HandsOK, ServedOK, InHands, InQueue,
       IsActive, controllerVars
  <1>2. CASE ~busy /\ queue = <<>> /\ Reserve(o) /\ queue' = <<o>>
    <2>1. ~InHands(op)
      BY <1>2 DEF InHands, HandsOK, IsActive
    <2>2. TypeOK'
      BY <1>2 DEF TypeOK, Reserve, States
    <2>3. SlotOK' /\ QueueOK' /\ HandsOK' /\ ServedOK'
      BY <1>2, <2>1, <2>2 DEF TypeOK, SlotOK, QueueOK, HandsOK, ServedOK, InHands,
         InQueue, IsActive, Reserve
    <2> QED
      BY <2>2, <2>3
  <1>3. CASE ~busy /\ queue # <<>> /\ Reset /\ UNCHANGED queue
    <2>1. \A q \in Ops : ~InQueue(q) /\ ~InHands(q)
      BY <1>3 DEF QueueOK, HandsOK, IsActive, InHands
    <2>2. TypeOK'
      BY <1>3 DEF TypeOK, Reset, Release, States
    <2>3. SlotOK' /\ QueueOK' /\ HandsOK' /\ ServedOK'
      BY <1>3, <2>1 DEF TypeOK, SlotOK, QueueOK, HandsOK, ServedOK, InHands, InQueue,
         IsActive, Reset, Release
    <2> QED
      BY <2>2, <2>3
  <1> QED
    BY <1>1, <1>2, <1>3 DEF Admit

\* A signal and the token it puts in the queue keep the invariant.
LEMMA SignalKeeps ==
  ASSUME IInv, Signal \/ Wake
  PROVE IInv'
  <1> USE DEF IInv, controllerVars, historyVars
  <1>1. CASE Signal
    BY <1>1 DEF Signal, TypeOK, SlotOK, QueueOK, HandsOK, ServedOK, InHands, InQueue,
       IsActive
  <1>2. CASE Wake
    <2>1. \A o \in Ops : InQueue(o)' <=> InQueue(o)
      BY <1>2, NoOpAssumption DEF Wake, Woken, InQueue, TypeOK
    <2>2. TypeOK'
      BY <1>2 DEF Wake, Woken, TypeOK
    <2>3. SlotOK' /\ HandsOK'
      BY <1>2 DEF Wake, SlotOK, HandsOK, IsActive
    <2>4. \A o : InHands(o)' <=> InHands(o)
      BY <1>2 DEF Wake, InHands
    <2>5. UNCHANGED <<busy, active, state, executed, op, pc>>
      BY <1>2 DEF Wake
    <2>6. QueueOK'
      BY <2>1, <2>4, <2>5 DEF QueueOK, IsActive
    <2>7. ServedOK'
      BY <2>1, <2>4, <2>5 DEF ServedOK, InQueue, InHands
    <2> QED
      BY <2>2, <2>3, <2>6, <2>7
  <1> QED
    BY <1>1, <1>2

\* A step of the main thread that announces the end of its command keeps the
\* invariant: no other command is on its way.
LEMMA AnnounceKeeps ==
  ASSUME IInv, NEW outcome \in {"complete", "failed"}, NEW to \in {"loop", "exit"},
         InHands(op), Announce(op, outcome), pc' = to,
         cause' \in {"none", "stopped", "error"},
         UNCHANGED <<signalVars, historyVars, queue, mutex, op>>
  PROVE IInv'
  <1> USE DEF IInv, signalVars, historyVars
  <1>1. IsActive(op) /\ \A o \in Ops : ~InQueue(o)
    <2>1. IsActive(op)
      BY DEF HandsOK, InHands
    <2>2. \A o \in Ops : ~InQueue(o)
      BY DEF QueueOK
    <2> QED
      BY <2>1, <2>2
  <1>2. busy' = FALSE /\ active' = NoOp /\ state' = outcome
    BY <1>1 DEF Announce, Release
  <1>3. TypeOK'
    BY <1>2 DEF TypeOK, States, Pcs
  <1>4. SlotOK' /\ QueueOK' /\ HandsOK' /\ ServedOK'
    BY <1>1, <1>2 DEF SlotOK, QueueOK, HandsOK, ServedOK, InHands, InQueue
  <1> QED
    BY <1>3, <1>4

\* Every step of the main thread keeps the invariant.
LEMMA MainKeeps ==
  ASSUME IInv, MainStep
  PROVE IInv'
  <1> USE DEF IInv, controllerVars, signalVars, historyVars, MainGoes, LeaveLoop
  <1>1. CASE Loop \/ LockQueue \/ Wait \/ TakeNothing \/ Chores \/ End
    <2>1. TypeOK'
      BY <1>1 DEF Loop, LockQueue, Wait, TakeNothing, Chores, End, TypeOK, Pcs
    <2>2. UNCHANGED <<busy, active, state, submitted, executed, queue, op>>
      BY <1>1 DEF Loop, LockQueue, Wait, TakeNothing, Chores, End
    <2>3. \A o \in Ops : ~InHands(o) /\ ~InHands(o)'
      BY <1>1, NoOpAssumption DEF Loop, LockQueue, Wait, TakeNothing, Chores, End, InHands
    <2>4. pc' \notin {"decide", "run"} /\ (pc \in {"exit", "end"} => pc' \in {"exit", "end"})
      BY <1>1 DEF Loop, LockQueue, Wait, TakeNothing, Chores, End
    <2>5. SlotOK' /\ HandsOK'
      BY <2>2, <2>4 DEF SlotOK, HandsOK, IsActive
    <2>6. QueueOK'
      BY <2>2, <2>3 DEF QueueOK, InQueue, InHands, IsActive
    <2>7. ServedOK'
      BY <2>2, <2>3, <2>4 DEF ServedOK, InQueue, InHands
    <2> QED
      BY <2>1, <2>5, <2>6, <2>7
  <1>2. CASE Take
    <2>1. queue = <<>> \/ \E o \in Ops \cup {NoOp} : queue = <<o>>
      BY DEF TypeOK
    <2>2. /\ queue = <<>> => op' = NoOp
          /\ \A o \in Ops \cup {NoOp} : queue = <<o>> => op' = o
      BY <1>2 DEF Take
    <2>3. TypeOK'
      BY <1>2, <2>1, <2>2 DEF Take, TypeOK, Pcs
    <2>4. SlotOK' /\ QueueOK'
      BY <1>2 DEF Take, SlotOK, QueueOK, InQueue
    <2>5. op' \in Ops => InQueue(op')
      BY <2>1, <2>2, NoOpAssumption DEF InQueue
    <2>6. HandsOK'
      BY <1>2, <2>5 DEF Take, HandsOK, QueueOK, IsActive
    <2>7. busy => InQueue(active)
      BY <1>2 DEF Take, ServedOK, InHands
    <2>8. ServedOK'
      BY <1>2, <2>2, <2>7 DEF Take, ServedOK, InQueue, InHands
    <2> QED
      BY <2>3, <2>4, <2>6, <2>8
  <1>3. CASE Cancel
    <2>1. InHands(op)
      BY <1>3 DEF Cancel, TypeOK, InHands
    <2> QED
      BY <1>3, <2>1, AnnounceKeeps DEF Cancel
  <1>4. CASE Start
    <2>1. op \in Ops /\ InHands(op) /\ IsActive(op)
      BY <1>4 DEF Start, TypeOK, InHands, HandsOK
    <2>2. \A o \in Ops : ~InQueue(o)
      BY <2>1 DEF QueueOK
    <2>3. /\ UNCHANGED <<busy, active, queue, op, submitted>>
          /\ state' = "running" /\ pc' = "run" /\ executed' = executed \cup {op}
      BY <1>4, <2>1 DEF Start
    <2>4. TypeOK'
      BY <1>4, <2>1, <2>3 DEF Start, TypeOK, States, Pcs
    <2>5. SlotOK'
      BY <2>1, <2>3 DEF SlotOK, IsActive
    <2>6. QueueOK' /\ HandsOK' /\ ServedOK'
      BY <2>1, <2>2, <2>3 DEF QueueOK, HandsOK, ServedOK, InQueue, InHands, IsActive
    <2> QED
      BY <2>4, <2>5, <2>6
  <1>5. CASE Finish
    <2>1. InHands(op)
      BY <1>5 DEF Finish, InHands, HandsOK
    <2> QED
      BY <1>5, <2>1, AnnounceKeeps DEF Finish, Outcome, TypeOK
  <1>6. CASE Break
    <2>1. TypeOK'
      BY <1>6 DEF Break, TypeOK, Pcs
    <2>2. UNCHANGED <<busy, active, state, submitted, executed, queue, op>> /\ pc' = "exit"
      BY <1>6 DEF Break
    <2>3. SlotOK' /\ HandsOK' /\ ServedOK'
      BY <2>2 DEF SlotOK, HandsOK, ServedOK
    <2>4. QueueOK'
      BY <2>2 DEF QueueOK, InQueue, InHands, IsActive
    <2> QED
      BY <2>1, <2>3, <2>4
  <1> QED
    BY <1>1, <1>2, <1>3, <1>4, <1>5, <1>6 DEF MainStep

\* The invariant is inductive.
LEMMA IInvNext == IInv /\ [Next]_vars => IInv'
  <1> SUFFICES ASSUME IInv, [Next]_vars PROVE IInv'
    OBVIOUS
  <1>1. CASE UNCHANGED vars
    BY <1>1 DEF vars, controllerVars, signalVars, historyVars, IInv, TypeOK, SlotOK,
       QueueOK, HandsOK, ServedOK, InQueue, InHands, IsActive
  <1> QED
    BY <1>1, SubmitKeeps, SignalKeeps, MainKeeps DEF Next

\* The invariant holds in every reachable state.
LEMMA IInvAlways == Spec => []IInv
  BY IInvInit, IInvNext, PTL DEF Spec

-----------------------------------------------------------------------------
(***************************************************************************)
(* The theorems.                                                           *)
(***************************************************************************)
\* Every variable stays in its range; the queue never holds two items.
THEOREM ControllerTyped == Spec => []TypeOK
  <1>1. IInv => TypeOK
    BY DEF IInv
  <1> QED
    BY <1>1, IInvAlways, PTL

\* While the loop runs the controller is busy exactly with the command that
\* is queued or in the hands of the worker.
THEOREM BusyAndQueueInSync == Spec => []BusyIsServed
  <1>1. IInv => BusyIsServed
    BY DEF IInv, ServedOK, QueueOK, HandsOK, BusyIsServed, Served, InQueue, InHands, TypeOK
  <1> QED
    BY <1>1, IInvAlways, PTL

\* A command the main thread has taken is announced before it stops.
THEOREM NoSilentStop == Spec => TakenIsAnnounced
  <1>1. ASSUME IInv, Next, pc = "decide", pc' = "exit", op # NoOp
        PROVE ~busy'
    <2>1. IsActive(op)
      BY <1>1 DEF IInv, HandsOK, TypeOK
    <2>2. Cancel
      BY <1>1 DEF Next, Submit, Signal, Wake, MainStep, Loop, LockQueue, Wait, Take,
         TakeNothing, Chores, Start, Finish, Break, End, MainGoes, LeaveLoop
    <2> QED
      BY <2>1, <2>2 DEF Cancel, Announce, Release
  <1>2. IInv /\ [Next]_vars =>
          [pc = "decide" /\ pc' = "exit" /\ op # NoOp => ~busy']_vars
    BY <1>1
  <1> QED
    BY <1>2, IInvAlways, PTL DEF Spec, TakenIsAnnounced

\* A step of the controller is a step of the slot, or leaves it alone.
LEMMA StepImplements ==
  ASSUME IInv, [Next]_vars
  PROVE [Slot!Next]_<<active, state, executed>>
  <1> USE DEF IInv, Slot!Next
  <1>1. CASE UNCHANGED <<active, state, executed>>
    BY <1>1
  <1>2. ASSUME NEW o \in Ops, Submit(o) PROVE [Slot!Next]_<<active, state, executed>>
    <2>1. CASE busy
      BY <1>2, <2>1 DEF Submit, controllerVars
    <2>2. CASE ~busy /\ Reserve(o)
      <3>1. Slot!Accept(o)
        BY <1>2, <2>2 DEF Submit, Reserve, Slot!Accept, SlotOK
      <3> QED
        BY <3>1
    <2>3. CASE ~busy /\ Reset
      <3>1. Slot!Forget
        BY <1>2, <2>3 DEF Submit, Reset, Release, Slot!Forget, SlotOK
      <3> QED
        BY <3>1
    <2> QED
      BY <1>2, <2>1, <2>2, <2>3 DEF Submit, Admit
  <1>3. CASE Start
    <2>1. op \in Ops /\ IsActive(op) /\ state = "queued"
      BY <1>3 DEF Start, MainGoes, TypeOK, HandsOK
    <2>2. Slot!Execute
      BY <1>3, <2>1, NoOpAssumption DEF Start, Slot!Execute, IsActive
    <2> QED
      BY <2>2
  <1>4. CASE Cancel \/ Finish
    <2>1. op \in Ops /\ IsActive(op) /\ (Finish => state = "running")
      BY <1>4 DEF Cancel, Finish, MainGoes, LeaveLoop, TypeOK, HandsOK
    <2>2. Slot!Fail \/ Slot!Succeed
      BY <1>4, <2>1, NoOpAssumption DEF Cancel, Finish, Outcome, Announce, Release,
         historyVars, IsActive, Slot!Fail, Slot!Succeed
    <2> QED
      BY <2>2
  <1>5. CASE Signal \/ Wake \/ Loop \/ LockQueue \/ Wait \/ Take \/ TakeNothing
             \/ Chores \/ Break \/ End
    BY <1>5 DEF Signal, Wake, Loop, LockQueue, Wait, Take, TakeNothing, Chores, Break,
       End, controllerVars, historyVars
  <1>6. CASE UNCHANGED vars
    BY <1>6 DEF vars, controllerVars, historyVars
  <1> QED
    BY <1>2, <1>3, <1>4, <1>5, <1>6 DEF Next, MainStep

\* The controller, its queue, the worker and the signal handler together are
\* one slot: nothing but the accepted command is executed, no command twice,
\* and a command leaves the slot only by being announced.
THEOREM ControllerIsOneSlot == Spec => ImplementsSlot
  <1>1. Init => Slot!Init
    BY DEF Init, Slot!Init
  <1>2. IInv /\ [Next]_vars => [Slot!Next]_<<active, state, executed>>
    BY StepImplements
  <1> QED
    BY <1>1, <1>2, IInvAlways, PTL DEF Spec, ImplementsSlot, Slot!Spec

=============================================================================
