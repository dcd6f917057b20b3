------------------------- MODULE FirmwareTransaction -------------------------
(***************************************************************************)
(* What the transaction of app/updater.py promises, without OTBR, Spinel,  *)
(* nrfdfu and every way they fail.  One run at a time holds the            *)
(* transaction.  It opens it, borrows the radio, gives the radio back and  *)
(* writes the record, in this order, and may end at each of these stages.  *)
(* The image in the dongle changes only while the radio is borrowed, and   *)
(* never after it was read; only what was read gets into the record, and   *)
(* only after the radio was given back.                                    *)
(***************************************************************************)
CONSTANTS
  Procs,    \* runs of the add-on
  Images,   \* what the dongle may hold
  Free,     \* nobody holds the transaction
  Unknown,  \* nothing is recorded, nothing was read
  Garbled   \* a record that cannot be read

VARIABLES
  holder,   \* who is inside the transaction
  stage,    \* how far the holder is
  image,    \* what the dongle holds
  record,   \* what is recorded
  seen      \* what each run has read since it last began or ended something

vars == <<holder, stage, image, record, seen>>

Init ==
  /\ holder = Free /\ stage = "none"
  /\ image \in Images
  /\ record \in {image, Unknown, Garbled}
  /\ seen = [p \in Procs |-> Unknown]

In(p, s) == holder = p /\ stage = s

Begin(p) ==
  /\ holder = Free /\ seen[p] = Unknown
  /\ holder' = p /\ stage' = "open"
  /\ UNCHANGED <<image, record, seen>>

Borrow(p) ==
  /\ In(p, "open") /\ stage' = "borrowed"
  /\ UNCHANGED <<holder, image, record, seen>>

Write(p) ==
  /\ In(p, "borrowed") /\ seen[p] = Unknown
  /\ image' \in Images
  /\ UNCHANGED <<holder, stage, record, seen>>

Read(p) ==
  /\ In(p, "borrowed") /\ seen[p] = Unknown
  /\ seen' = [seen EXCEPT ![p] = image]
  /\ UNCHANGED <<holder, stage, image, record>>

GiveBack(p) ==
  /\ In(p, "borrowed") /\ seen[p] # Unknown
  /\ stage' = "returned"
  /\ UNCHANGED <<holder, image, record, seen>>

Record(p) ==
  /\ In(p, "returned")
  /\ record' = seen[p] /\ stage' = "recorded"
  /\ UNCHANGED <<holder, image, seen>>

\* Written, and reported as not written.
RecordInDoubt(p) ==
  /\ In(p, "returned")
  /\ record' = seen[p] /\ holder' = Free /\ stage' = "none"
  /\ UNCHANGED <<image, seen>>

\* At any stage: done, failed or killed.
End(p) ==
  /\ holder = p
  /\ holder' = Free /\ stage' = "none"
  /\ seen' \in {seen, [seen EXCEPT ![p] = Unknown]}
  /\ UNCHANGED <<image, record>>

\* Outside the transaction a run may note what it has read, or that nothing
\* is known any more.
Note(p) ==
  /\ holder # p
  /\ record' \in {record, seen[p], Unknown}
  /\ seen' = [seen EXCEPT ![p] = Unknown]
  /\ UNCHANGED <<holder, stage, image>>

Next ==
  \E p \in Procs :
    \/ Begin(p) \/ Borrow(p) \/ Write(p) \/ Read(p) \/ GiveBack(p)
    \/ Record(p) \/ RecordInDoubt(p) \/ End(p) \/ Note(p)

Spec == Init /\ [][Next]_vars

=============================================================================
