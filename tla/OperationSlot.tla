---------------------------- MODULE OperationSlot ----------------------------
(***************************************************************************)
(* What app/operation.py promises its users: one slot for an operation.    *)
(* A command is accepted only into an empty slot, the hardware executes    *)
(* only the command in the slot and no command twice, and the slot is      *)
(* emptied by announcing how that command ended.                           *)
(***************************************************************************)
CONSTANTS
  Ops,    \* commands, each with the identifier submit gave it
  NoOp    \* no command

VARIABLES
  slot,      \* the command that is pending or active
  phase,     \* the state shown to the user
  executed   \* commands the hardware worker has begun

Init == slot = NoOp /\ phase = "idle" /\ executed = {}

Accept(o) ==
  /\ slot = NoOp /\ o \notin executed
  /\ slot' = o /\ phase' = "queued"
  /\ UNCHANGED executed

Execute ==
  /\ slot # NoOp /\ phase = "queued"
  /\ phase' = "running" /\ executed' = executed \cup {slot}
  /\ UNCHANGED slot

Succeed ==
  /\ slot # NoOp /\ phase = "running"
  /\ slot' = NoOp /\ phase' = "complete"
  /\ UNCHANGED executed

\* Of a command that was executed or is cancelled.
Fail ==
  /\ slot # NoOp
  /\ slot' = NoOp /\ phase' = "failed"
  /\ UNCHANGED executed

\* A command refused in the last moments clears what was shown.
Forget ==
  /\ slot = NoOp
  /\ phase' = "idle"
  /\ UNCHANGED <<slot, executed>>

Next == (\E o \in Ops : Accept(o)) \/ Execute \/ Succeed \/ Fail \/ Forget

Spec == Init /\ [][Next]_<<slot, phase, executed>>

=============================================================================
