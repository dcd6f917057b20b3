-------------------------- MODULE RcpUpdater_proofs --------------------------
(***************************************************************************)
(* Theorems about RcpUpdater, for every set of runs, of versions and of    *)
(* options.  Each invariant is proved on top of the ones before it:        *)
(* TypeOK, then LockInv (who is inside the transaction), then ClaimOK,     *)
(* OwesOK and ResultOK, which need to know that the others are outside.    *)
(***************************************************************************)
EXTENDS RcpUpdater, TLAPS

-----------------------------------------------------------------------------
(***************************************************************************)
(* Types of the control state and of the locals.                           *)
(***************************************************************************)
ControlOK == pc \in [Procs -> Pcs] /\ tx \in [Procs -> TxType]

\* The conjuncts of TypeOK that are not about pc and tx.
SharedOK ==
  /\ otbr \in OtbrStates
  /\ RadioOK
  /\ lock \in Procs \cup {Free}
  /\ disk \in Versions \cup {NoVersion, Garbled}
  /\ settings \in [Procs -> Configs]
  /\ mem \in [Procs -> Versions \cup {NoVersion}]
  /\ due \in [Procs -> BOOLEAN]
  /\ debt \in {"none", "owed", "handshake", "restore", "crash"}
  /\ claim \in {"none", "held", "transitional", "lost"}

Errors == {"none", "fault", "unreadable"}

\* TypeOK is the conjunction of its two halves.
LEMMA TypeSplit == TypeOK <=> ControlOK /\ SharedOK
  BY DEF TypeOK, ControlOK, SharedOK

\* The names of the places where a step goes are program counters.
LEMMA PcNames ==
  /\ {"down", "idle", "validate", "lock", "failed", "rescanned", "complete"} \subseteq Pcs
  /\ {"missing", "prepare", "quiet", "handover", "stop", "stopwait", "check"} \subseteq Pcs
  /\ RadioPcs \subseteq Pcs /\ RestorePcs \subseteq Pcs
  /\ {"read", "recover", "select", "reset", "flash", "verify", "reboot"} \subseteq Pcs
  /\ {"restore", "start", "startwait", "health", "commit", "release"} \subseteq Pcs
  BY DEF Pcs, MainPcs, LockedPcs, BorrowingPcs, HandshakePcs, RadioPcs, RestorePcs

\* An exception is received by one of two handlers.
LEMMA HandlerTyped == \A p \in Procs : Handler(p) \in {"rescanned", "failed"}
  BY DEF Handler

\* The locals of a run that executes nothing are typed.
LEMMA NoTxTyped == NoTx \in TxType
  BY DEF NoTx, TxType, Kinds

\* Storing an error keeps the locals typed.
LEMMA ErrTyped ==
  ASSUME ControlOK, NEW p \in Procs, NEW e \in Errors
  PROVE [tx EXCEPT ![p].err = e] \in [Procs -> TxType]
  BY DEF ControlOK, TxType, Errors

\* Setting a flag keeps the locals typed.
LEMMA FlagTyped ==
  ASSUME ControlOK, NEW p \in Procs
  PROVE /\ [tx EXCEPT ![p].recovery = TRUE] \in [Procs -> TxType]
        /\ [tx EXCEPT ![p].otbrWas = TRUE] \in [Procs -> TxType]
        /\ [tx EXCEPT ![p].retry = TRUE] \in [Procs -> TxType]
        /\ [tx EXCEPT ![p].retry = FALSE] \in [Procs -> TxType]
        /\ [tx EXCEPT ![p].was = Running] \in [Procs -> TxType]
  <1>1. [tx EXCEPT ![p].recovery = TRUE] \in [Procs -> TxType]
    BY DEF ControlOK, TxType
  <1>2. [tx EXCEPT ![p].otbrWas = TRUE] \in [Procs -> TxType]
    BY DEF ControlOK, TxType
  <1>3. [tx EXCEPT ![p].retry = TRUE] \in [Procs -> TxType]
    BY DEF ControlOK, TxType
  <1>4. [tx EXCEPT ![p].retry = FALSE] \in [Procs -> TxType]
    BY DEF ControlOK, TxType
  <1>5. [tx EXCEPT ![p].was = Running] \in [Procs -> TxType]
    <2>1. [tx[p] EXCEPT !.was = Running] \in TxType
      BY DEF ControlOK, TxType, Running
    <2> QED
      BY <2>1 DEF ControlOK
  <1> QED
    BY <1>1, <1>2, <1>3, <1>4, <1>5

\* What a running application reports is an identity, and may be stored.
LEMMA ResultTyped ==
  ASSUME ControlOK, RadioOK, DevicePresent, NEW p \in Procs
  PROVE [tx EXCEPT ![p].result = fw] \in [Procs -> TxType]
  <1>1. fw \in Identities
    BY DEF RadioOK, DevicePresent, Images
  <1> QED
    BY <1>1 DEF ControlOK, TxType

\* The stored error is one of the three.
LEMMA ErrorTyped == ASSUME ControlOK, NEW p \in Procs PROVE tx[p].err \in Errors
  BY DEF ControlOK, TxType, Errors

-----------------------------------------------------------------------------
(***************************************************************************)
(* The control operators keep the types.                                   *)
(***************************************************************************)
\* A jump to a program counter keeps the program counters typed.
LEMMA GotoTyped ==
  ASSUME ControlOK, NEW p \in Procs, NEW from, NEW to \in Pcs, Goto(p, from, to)
  PROVE pc' \in [Procs -> Pcs]
  BY DEF Goto, ControlOK

\* An exception inside the with-block keeps the control state typed.
LEMMA UnwindTyped ==
  ASSUME ControlOK, NEW p \in Procs, NEW from, NEW e \in Errors, Unwind(p, from, e)
  PROVE ControlOK'
  <1>1. tx' \in [Procs -> TxType]
    BY ErrTyped DEF Unwind
  <1> QED
    BY <1>1, PcNames, GotoTyped DEF ControlOK, Unwind

\* An exception outside the with-block keeps the control state typed, and
\* gives the lock and the claim back.
LEMMA AbortTyped ==
  ASSUME ControlOK, NEW p \in Procs, NEW from, Abort(p, from)
  PROVE ControlOK' /\ lock' = Free /\ claim' = "none"
  <1>1. tx' \in [Procs -> TxType]
    BY ErrTyped DEF Abort, Errors
  <1>2. Handler(p) \in Pcs
    BY HandlerTyped, PcNames
  <1> QED
    BY <1>1, <1>2, GotoTyped DEF ControlOK, Abort

\* The end of the with-block keeps the control state typed, and gives the
\* claim back.
LEMMA LeaveTyped ==
  ASSUME ControlOK, NEW p \in Procs, NEW e \in Errors, Leave(p, e)
  PROVE ControlOK' /\ lock' \in {lock, Free} /\ claim' = "none"
  <1>1. tx' \in [Procs -> TxType]
    BY ErrTyped DEF Leave
  <1>2. Handler(p) \in Pcs
    BY HandlerTyped, PcNames
  <1> QED
    BY <1>1, <1>2, PcNames DEF ControlOK, Leave

\* A failed attempt to restore OTBR keeps the control state typed.
LEMMA AttemptTyped ==
  ASSUME ControlOK, NEW p \in Procs, AttemptFails(p)
  PROVE ControlOK' /\ lock' \in {lock, Free} /\ claim' \in {claim, "none"}
  <1>1. CASE AttemptsLeft(p)
    <2>1. tx[p].attempts \in 0..2 /\ tx[p].attempts < 2
      BY <1>1 DEF AttemptsLeft, ControlOK, TxType
    <2>2. tx[p].attempts + 1 \in 0..2
      BY <2>1
    <2>3. tx' \in [Procs -> TxType]
      BY <1>1, <2>2 DEF AttemptFails, ControlOK, TxType
    <2> QED
      BY <1>1, <2>3, PcNames DEF AttemptFails, ControlOK
  <1>2. CASE ~AttemptsLeft(p)
    <2>1. PICK e \in Errors : Leave(p, e)
      BY <1>2, ErrorTyped DEF AttemptFails, Errors
    <2> QED
      BY <2>1, LeaveTyped
  <1> QED
    BY <1>1, <1>2

\* Every step of a run keeps the control state typed.
LEMMA ControlStep ==
  ASSUME TypeOK, NEW p \in Procs, Process(p)
  PROVE ControlOK'
  <1>0. ControlOK /\ RadioOK
    BY TypeSplit DEF SharedOK

  <1>1. CASE Boot(p)
    BY <1>0, <1>1, GotoTyped, PcNames DEF Boot, ControlOK
  <1>2. CASE BeginInstall(p)
    <2>1. pc' \in [Procs -> Pcs]
      BY <1>0, <1>2, GotoTyped, PcNames DEF BeginInstall
    <2>2. PICK kind \in {"latest", "prepared"}, v \in Versions :
             tx' = [tx EXCEPT ![p] = [NoTx EXCEPT !.kind = kind, !.target = v,
                      !.selected = kind = "prepared" \/ PolicyTargetIsDowngrade(v)]]
      BY <1>2 DEF BeginInstall
    <2>3. [NoTx EXCEPT !.kind = kind, !.target = v,
             !.selected = kind = "prepared" \/ PolicyTargetIsDowngrade(v)] \in TxType
      BY NoTxTyped DEF TxType, Kinds
    <2> QED
      BY <1>0, <2>1, <2>2, <2>3 DEF ControlOK
  <1>3. CASE BeginRescan(p)
    BY <1>0, <1>3, GotoTyped, PcNames DEF BeginRescan, ControlOK
  <1>4. CASE Refresh(p)
    BY <1>0, <1>4 DEF Refresh, ControlOK
  <1>5. CASE Validate(p)
    BY <1>0, <1>5, GotoTyped, PcNames, ErrTyped DEF Validate, ControlOK, Errors
  <1>6. CASE AcquireLock(p)
    BY <1>0, <1>6, HandlerTyped, GotoTyped, PcNames, ErrTyped DEF AcquireLock, ControlOK, Errors
  <1>7. CASE CheckMissing(p)
    <2>1. CASE Goto(p, "missing", "prepare") /\ tx' = [tx EXCEPT ![p].recovery = TRUE]
      BY <1>0, <2>1, GotoTyped, PcNames, FlagTyped DEF ControlOK
    <2>2. CASE Abort(p, "missing")
      BY <1>0, <2>2, AbortTyped
    <2>3. CASE Goto(p, "missing", "prepare") /\ UNCHANGED tx
      BY <1>0, <2>3, GotoTyped, PcNames DEF ControlOK
    <2> QED
      BY <1>7, <2>1, <2>2, <2>3 DEF CheckMissing
  <1>8. CASE PrepareSafeUpdate(p)
    BY <1>0, <1>8, GotoTyped, PcNames, AbortTyped DEF PrepareSafeUpdate, ControlOK
  <1>9. CASE QuietWindow(p)
    <2>1. CASE Goto(p, "quiet", "handover") /\ tx' = [tx EXCEPT ![p].otbrWas = TRUE]
      BY <1>0, <2>1, GotoTyped, PcNames, FlagTyped DEF ControlOK
    <2>2. CASE Abort(p, "quiet")
      BY <1>0, <2>2, AbortTyped
    <2> QED
      BY <1>9, <2>1, <2>2 DEF QuietWindow
  <1>10. CASE Handover(p)
    BY <1>0, <1>10, GotoTyped, PcNames, FlagTyped, AbortTyped DEF Handover, ControlOK
  <1>11. CASE StopOtbr(p)
    BY <1>0, <1>11, GotoTyped, PcNames, AbortTyped DEF StopOtbr, ControlOK
  <1>12. CASE AwaitStopped(p)
    BY <1>0, <1>12, GotoTyped, PcNames, AbortTyped DEF AwaitStopped, ControlOK
  <1>13. CASE CheckUnchanged(p)
    BY <1>0, <1>13, GotoTyped, PcNames, UnwindTyped DEF CheckUnchanged, ControlOK, Errors
  <1>14. CASE ReadVersion(p)
    BY <1>0, <1>14, GotoTyped, PcNames, UnwindTyped, ResultTyped DEF ReadVersion, ControlOK, Errors
  <1>15. CASE RecoverBootloader(p)
    <2>1. CASE Goto(p, "recover", "flash") /\ tx' = [tx EXCEPT ![p].recovery = TRUE]
      BY <1>0, <2>1, GotoTyped, PcNames, FlagTyped DEF ControlOK
    <2>2. CASE Unwind(p, "recover", "fault")
      BY <1>0, <2>2, UnwindTyped DEF Errors
    <2> QED
      BY <1>15, <2>1, <2>2 DEF RecoverBootloader
  <1>16. CASE SelectTarget(p)
    BY <1>0, <1>16, GotoTyped, PcNames, UnwindTyped DEF SelectTarget, ControlOK, Errors
  <1>17. CASE ResetBootloader(p)
    BY <1>0, <1>17, GotoTyped, PcNames, UnwindTyped DEF ResetBootloader, ControlOK, Errors
  <1>18. CASE Flash(p)
    <2>1. CASE Goto(p, "flash", "verify") /\ tx' = [tx EXCEPT ![p].retry = TRUE]
      BY <1>0, <2>1, GotoTyped, PcNames, FlagTyped DEF ControlOK
    <2>2. CASE Unwind(p, "flash", "fault")
      BY <1>0, <2>2, UnwindTyped DEF Errors
    <2> QED
      BY <1>18, <2>1, <2>2 DEF Flash
  <1>19. CASE VerifyRelease(p)
    BY <1>0, <1>19, GotoTyped, PcNames, ResultTyped, UnwindTyped DEF VerifyRelease, ControlOK, Errors
  <1>20. CASE RebootApplication(p)
    BY <1>0, <1>20, GotoTyped, PcNames, FlagTyped, UnwindTyped DEF RebootApplication, ControlOK, Errors
  <1>21. CASE RestoreOtbr(p)
    BY <1>0, <1>21, PcNames, ErrorTyped, LeaveTyped, AttemptTyped DEF RestoreOtbr, ControlOK
  <1>22. CASE StartOtbr(p)
    BY <1>0, <1>22, PcNames, ErrorTyped, LeaveTyped, AttemptTyped DEF StartOtbr, ControlOK
  <1>23. CASE AwaitStarted(p)
    BY <1>0, <1>23, PcNames, ErrorTyped, LeaveTyped, AttemptTyped DEF AwaitStarted, ControlOK
  <1>24. CASE RequireOtbrHealthy(p)
    BY <1>0, <1>24, GotoTyped, PcNames, AbortTyped DEF RequireOtbrHealthy, ControlOK
  <1>25. CASE Commit(p)
    BY <1>0, <1>25, GotoTyped, PcNames, AbortTyped DEF Commit, ControlOK
  <1>26. CASE ReleaseLock(p)
    BY <1>0, <1>26, GotoTyped, PcNames DEF ReleaseLock, ControlOK
  <1>27. CASE Failed(p)
    BY <1>0, <1>27, GotoTyped, PcNames, NoTxTyped DEF Failed, ControlOK
  <1>28. CASE Rescanned(p)
    BY <1>0, <1>28, GotoTyped, PcNames, NoTxTyped DEF Rescanned, ControlOK
  <1>29. CASE Complete(p)
    BY <1>0, <1>29, GotoTyped, PcNames, NoTxTyped DEF Complete, ControlOK
  <1>30. CASE Crash(p)
    BY <1>0, <1>30, PcNames, NoTxTyped DEF Crash, ControlOK
  <1> QED
    BY <1>1, <1>2, <1>3, <1>4, <1>5, <1>6, <1>7, <1>8, <1>9, <1>10, <1>11,
       <1>12, <1>13, <1>14, <1>15, <1>16, <1>17, <1>18, <1>19, <1>20, <1>21,
       <1>22, <1>23, <1>24, <1>25, <1>26, <1>27, <1>28, <1>29, <1>30 DEF
       Process, Step

-----------------------------------------------------------------------------
(***************************************************************************)
(* The plan of an operation: what its locals say at each place.  An        *)
(* install has a target from the start; one that leaves the with-block     *)
(* without an error has seen the dongle report that target.                *)
(***************************************************************************)
PlanOK(p) ==
  /\ pc[p] \in {"idle", "down"} => tx[p].kind = "rescan"
  /\ pc[p] \notin {"idle", "down"} /\ tx[p].kind # "rescan" => tx[p].target \in Versions
  /\ pc[p] \in HandshakePcs => tx[p].was
  /\ tx[p].recovery => tx[p].kind # "rescan"
  /\ pc[p] \in {"missing", "recover", "select", "reset", "flash", "verify", "reboot"} =>
       tx[p].kind # "rescan"
  /\ pc[p] \in RestorePcs /\ tx[p].kind # "rescan" /\ tx[p].err = "none" =>
       tx[p].result = tx[p].target
  /\ pc[p] \in {"health", "commit"} =>
       tx[p].kind # "rescan" /\ tx[p].err = "none" /\ tx[p].result = tx[p].target

PlanInv == \A p \in Procs : PlanOK(p)

\* A step of one run leaves the control state and the memory of the others
\* alone.
LEMMA FrameStep ==
  ASSUME TypeOK, NEW p \in Procs, Process(p), NEW q \in Procs, q # p
  PROVE /\ pc'[q] = pc[q] /\ tx'[q] = tx[q]
        /\ settings'[q] = settings[q] /\ mem'[q] = mem[q] /\ due'[q] = due[q]
  <1>0. /\ pc \in [Procs -> Pcs] /\ tx \in [Procs -> TxType] /\ settings \in [Procs -> Configs]
        /\ mem \in [Procs -> Versions \cup {NoVersion}] /\ due \in [Procs -> BOOLEAN]
    BY DEF TypeOK
  <1> USE <1>0 DEF mainVars
  <1>1. CASE Boot(p)
    BY <1>1 DEF Boot, Goto
  <1>2. CASE BeginInstall(p)
    BY <1>2 DEF BeginInstall, Goto
  <1>3. CASE BeginRescan(p)
    BY <1>3 DEF BeginRescan, Goto
  <1>4. CASE Refresh(p)
    BY <1>4 DEF Refresh
  <1>5. CASE Validate(p)
    BY <1>5 DEF Validate, Goto
  <1>6. CASE AcquireLock(p)
    BY <1>6 DEF AcquireLock, Goto, Handler
  <1>7. CASE CheckMissing(p)
    BY <1>7 DEF CheckMissing, Goto, Abort, Handler
  <1>8. CASE PrepareSafeUpdate(p)
    BY <1>8 DEF PrepareSafeUpdate, Goto, Abort, Handler
  <1>9. CASE QuietWindow(p)
    BY <1>9 DEF QuietWindow, Goto, Abort, Handler
  <1>10. CASE Handover(p)
    BY <1>10 DEF Handover, Goto, Abort, Handler
  <1>11. CASE StopOtbr(p)
    BY <1>11 DEF StopOtbr, Goto, Abort, Handler
  <1>12. CASE AwaitStopped(p)
    BY <1>12 DEF AwaitStopped, Goto, Abort, Handler
  <1>13. CASE CheckUnchanged(p)
    BY <1>13 DEF CheckUnchanged, Goto, Unwind
  <1>14. CASE ReadVersion(p)
    BY <1>14 DEF ReadVersion, Goto, Unwind
  <1>15. CASE RecoverBootloader(p)
    BY <1>15 DEF RecoverBootloader, Goto, Unwind
  <1>16. CASE SelectTarget(p)
    BY <1>16 DEF SelectTarget, Goto, Unwind
  <1>17. CASE ResetBootloader(p)
    BY <1>17 DEF ResetBootloader, Goto, Unwind
  <1>18. CASE Flash(p)
    BY <1>18 DEF Flash, Goto, Unwind
  <1>19. CASE VerifyRelease(p)
    BY <1>19 DEF VerifyRelease, Goto, Unwind
  <1>20. CASE RebootApplication(p)
    BY <1>20 DEF RebootApplication, Goto, Unwind
  <1>21. CASE RestoreOtbr(p)
    BY <1>21 DEF RestoreOtbr, Leave, Handler, AttemptFails, AttemptsLeft
  <1>22. CASE StartOtbr(p)
    BY <1>22 DEF StartOtbr, Leave, Handler, AttemptFails, AttemptsLeft
  <1>23. CASE AwaitStarted(p)
    BY <1>23 DEF AwaitStarted, Leave, Handler, AttemptFails, AttemptsLeft
  <1>24. CASE RequireOtbrHealthy(p)
    BY <1>24 DEF RequireOtbrHealthy, Goto, Abort, Handler
  <1>25. CASE Commit(p)
    BY <1>25 DEF Commit, Goto, Abort, Handler
  <1>26. CASE ReleaseLock(p)
    BY <1>26 DEF ReleaseLock, Goto
  <1>27. CASE Failed(p)
    BY <1>27 DEF Failed, Goto
  <1>28. CASE Rescanned(p)
    BY <1>28 DEF Rescanned, Goto
  <1>29. CASE Complete(p)
    BY <1>29 DEF Complete, Goto
  <1>30. CASE Crash(p)
    BY <1>30 DEF Crash
  <1> QED
    BY <1>1, <1>2, <1>3, <1>4, <1>5, <1>6, <1>7, <1>8, <1>9, <1>10, <1>11,
       <1>12, <1>13, <1>14, <1>15, <1>16, <1>17, <1>18, <1>19, <1>20, <1>21,
       <1>22, <1>23, <1>24, <1>25, <1>26, <1>27, <1>28, <1>29, <1>30 DEF
       Process, Step

\* Storing an error changes nothing else in the locals of the run.
LEMMA ErrEffect ==
  ASSUME ControlOK, NEW p \in Procs, NEW e, tx' = [tx EXCEPT ![p].err = e]
  PROVE /\ tx'[p].err = e /\ tx'[p].kind = tx[p].kind /\ tx'[p].target = tx[p].target
        /\ tx'[p].result = tx[p].result /\ tx'[p].was = tx[p].was
  BY DEF ControlOK, TxType

\* Every step of a run keeps its locals in order with where it is.
LEMMA PlanStep ==
  ASSUME TypeOK, NEW p \in Procs, PlanOK(p), Process(p)
  PROVE PlanOK(p)'
  <1>0. ControlOK
    BY TypeSplit
  <1> USE <1>0 DEF PlanOK, RestorePcs, HandshakePcs
  <1>1. CASE Boot(p)
    BY <1>1 DEF Boot, Goto, ControlOK, TxType
  <1>2. CASE BeginInstall(p)
    BY <1>2 DEF BeginInstall, Goto, NoTx, ControlOK, TxType
  <1>3. CASE BeginRescan(p)
    BY <1>3 DEF BeginRescan, Goto, ControlOK, TxType
  <1>4. CASE Refresh(p)
    BY <1>4 DEF Refresh, ControlOK, TxType
  <1>5. CASE Validate(p)
    BY <1>5 DEF Validate, Goto, ControlOK, TxType
  <1>6. CASE AcquireLock(p)
    BY <1>6 DEF AcquireLock, Goto, Handler, ControlOK, TxType
  <1>7. CASE CheckMissing(p)
    BY <1>7 DEF CheckMissing, Goto, Abort, Handler, ControlOK, TxType
  <1>8. CASE PrepareSafeUpdate(p)
    BY <1>8 DEF PrepareSafeUpdate, Goto, Abort, Handler, ControlOK, TxType
  <1>9. CASE QuietWindow(p)
    BY <1>9 DEF QuietWindow, Goto, Abort, Handler, ControlOK, TxType
  <1>10. CASE Handover(p)
    BY <1>10 DEF Handover, Goto, Abort, Handler, ControlOK, TxType
  <1>11. CASE StopOtbr(p)
    BY <1>11 DEF StopOtbr, Goto, Abort, Handler, ControlOK, TxType
  <1>12. CASE AwaitStopped(p)
    BY <1>12 DEF AwaitStopped, Goto, Abort, Handler, ControlOK, TxType
  <1>13. CASE CheckUnchanged(p)
    <2>1. CASE Unwind(p, "check", "fault")
      BY <2>1, ErrEffect DEF Unwind, Goto, ControlOK
    <2>2. CASE Goto(p, "check", IF tx[p].recovery THEN "flash" ELSE "read") /\ UNCHANGED tx
      BY <2>2 DEF Goto, ControlOK
    <2> QED
      BY <1>13, <2>1, <2>2 DEF CheckUnchanged
  <1>14. CASE ReadVersion(p)
    BY <1>14 DEF ReadVersion, Goto, Unwind, ControlOK, TxType
  <1>15. CASE RecoverBootloader(p)
    BY <1>15 DEF RecoverBootloader, Goto, Unwind, ControlOK, TxType
  <1>16. CASE SelectTarget(p)
    BY <1>16 DEF SelectTarget, Goto, Unwind, ControlOK, TxType
  <1>17. CASE ResetBootloader(p)
    BY <1>17 DEF ResetBootloader, Goto, Unwind, ControlOK, TxType
  <1>18. CASE Flash(p)
    BY <1>18 DEF Flash, Goto, Unwind, ControlOK, TxType
  <1>19. CASE VerifyRelease(p)
    BY <1>19 DEF VerifyRelease, Goto, Unwind, ControlOK, TxType
  <1>20. CASE RebootApplication(p)
    BY <1>20 DEF RebootApplication, Goto, Unwind, ControlOK, TxType
  <1>21. CASE RestoreOtbr(p)
    BY <1>21 DEF RestoreOtbr, Leave, Handler, AttemptFails, AttemptsLeft, ControlOK, TxType
  <1>22. CASE StartOtbr(p)
    BY <1>22 DEF StartOtbr, Leave, Handler, AttemptFails, AttemptsLeft, ControlOK, TxType
  <1>23. CASE AwaitStarted(p)
    BY <1>23 DEF AwaitStarted, Leave, Handler, AttemptFails, AttemptsLeft, ControlOK, TxType
  <1>24. CASE RequireOtbrHealthy(p)
    BY <1>24 DEF RequireOtbrHealthy, Goto, Abort, Handler, ControlOK, TxType
  <1>25. CASE Commit(p)
    BY <1>25 DEF Commit, Goto, Abort, Handler, ControlOK, TxType
  <1>26. CASE ReleaseLock(p)
    BY <1>26 DEF ReleaseLock, Goto, ControlOK, TxType
  <1>27. CASE Failed(p)
    BY <1>27 DEF Failed, Goto, NoTx, ControlOK, TxType
  <1>28. CASE Rescanned(p)
    BY <1>28 DEF Rescanned, Goto, NoTx, ControlOK, TxType
  <1>29. CASE Complete(p)
    BY <1>29 DEF Complete, Goto, NoTx, ControlOK, TxType
  <1>30. CASE Crash(p)
    BY <1>30 DEF Crash, NoTx, ControlOK, TxType
  <1> QED
    BY <1>1, <1>2, <1>3, <1>4, <1>5, <1>6, <1>7, <1>8, <1>9, <1>10, <1>11,
       <1>12, <1>13, <1>14, <1>15, <1>16, <1>17, <1>18, <1>19, <1>20, <1>21,
       <1>22, <1>23, <1>24, <1>25, <1>26, <1>27, <1>28, <1>29, <1>30 DEF
       Process, Step

-----------------------------------------------------------------------------
(***************************************************************************)
(* Types of the shared state.                                              *)
(***************************************************************************)
\* Whatever the dongle does, it shows a personality its image allows.
LEMMA RadioTyped ==
  ASSUME RadioOK, Reenumerates \/ \E v \in Versions : Transfer(v)
  PROVE RadioOK'
  BY VersionsAssumption DEF RadioOK, Reenumerates, Transfer, Personality, Modes, Images, Identities

\* What is loaded from the record is an identity or nothing.
LEMMA LoadedTyped ==
  ASSUME SharedOK
  PROVE Loaded \in Versions \cup {NoVersion}
  BY DEF SharedOK, Loaded

\* A start or a stop leads to one of the states of the add-on.
LEMMA OtbrTyped ==
  ASSUME StopTakesEffect \/ StartTakesEffect \/ OtbrSettles
  PROVE otbr' \in OtbrStates
  BY DEF StopTakesEffect, StartTakesEffect, OtbrSettles, OtbrStates

\* A step of a run keeps the shared state in its ranges.
LEMMA SharedStep ==
  ASSUME TypeOK, NEW p \in Procs, PlanOK(p), Process(p)
  PROVE SharedOK'
  <1>0. ControlOK /\ SharedOK
    BY TypeSplit
  <1> USE <1>0, ProcsAssumption DEF SharedOK, otbrVars, radioVars, mainVars
  <1>1. CASE Boot(p)
    BY <1>1, LoadedTyped DEF Boot, RadioOK
  <1>2. CASE BeginInstall(p)
    BY <1>2, LoadedTyped DEF BeginInstall, RadioOK
  <1>3. CASE BeginRescan(p)
    BY <1>3 DEF BeginRescan, RadioOK
  <1>4. CASE Refresh(p)
    BY <1>4, LoadedTyped DEF Refresh, RadioOK
  <1>5. CASE Validate(p)
    BY <1>5 DEF Validate, RadioOK
  <1>6. CASE AcquireLock(p)
    BY <1>6 DEF AcquireLock, RadioOK
  <1>7. CASE CheckMissing(p)
    BY <1>7, AbortTyped DEF CheckMissing, RadioOK
  <1>8. CASE PrepareSafeUpdate(p)
    BY <1>8, AbortTyped DEF PrepareSafeUpdate, RadioOK
  <1>9. CASE QuietWindow(p)
    BY <1>9, AbortTyped DEF QuietWindow, RadioOK
  <1>10. CASE Handover(p)
    BY <1>10, AbortTyped DEF Handover, RadioOK
  <1>11. CASE StopOtbr(p)
    BY <1>11, AbortTyped, OtbrTyped DEF StopOtbr, RadioOK
  <1>12. CASE AwaitStopped(p)
    BY <1>12, AbortTyped DEF AwaitStopped, RadioOK
  <1>13. CASE CheckUnchanged(p)
    BY <1>13 DEF CheckUnchanged, RadioOK
  <1>14. CASE ReadVersion(p)
    BY <1>14 DEF ReadVersion, RadioOK
  <1>15. CASE RecoverBootloader(p)
    BY <1>15 DEF RecoverBootloader, RadioOK
  <1>16. CASE SelectTarget(p)
    BY <1>16 DEF SelectTarget, RadioOK
  <1>17. CASE ResetBootloader(p)
    BY <1>17, RadioTyped DEF ResetBootloader, RadioOK, Unwind
  <1>18. CASE Flash(p)
    <2>1. tx[p].target \in Versions
      BY <1>18 DEF Flash, Goto, Unwind, PlanOK
    <2>2. RadioOK'
      BY <1>18, <2>1, RadioTyped DEF Flash, RadioOK
    <2> QED
      BY <1>18, <2>2 DEF Flash
  <1>19. CASE VerifyRelease(p)
    BY <1>19 DEF VerifyRelease, RadioOK
  <1>20. CASE RebootApplication(p)
    BY <1>20, RadioTyped DEF RebootApplication
  <1>21. CASE RestoreOtbr(p)
    BY <1>21, LeaveTyped, AttemptTyped, ErrorTyped DEF RestoreOtbr, RadioOK, Defaulted
  <1>22. CASE StartOtbr(p)
    BY <1>22, AttemptTyped, OtbrTyped DEF StartOtbr, RadioOK, Defaulted, Settled
  <1>23. CASE AwaitStarted(p)
    BY <1>23, LeaveTyped, AttemptTyped, ErrorTyped DEF AwaitStarted, RadioOK, Defaulted
  <1>24. CASE RequireOtbrHealthy(p)
    BY <1>24, AbortTyped DEF RequireOtbrHealthy, RadioOK
  <1>25. CASE Commit(p)
    <2>1. pc[p] = "commit"
      BY <1>25 DEF Commit, Goto, Abort
    <2>2. tx[p].result \in Versions
      BY <2>1 DEF PlanOK
    <2> QED
      BY <1>25, <2>2, AbortTyped DEF Commit, RadioOK
  <1>26. CASE ReleaseLock(p)
    BY <1>26 DEF ReleaseLock, RadioOK
  <1>27. CASE Failed(p)
    BY <1>27 DEF Failed, RadioOK, Forgotten
  <1>28. CASE Rescanned(p)
    BY <1>28 DEF Rescanned, RadioOK, Forgotten
  <1>29. CASE Complete(p)
    BY <1>29, LoadedTyped DEF Complete, RadioOK
  <1>30. CASE Crash(p)
    BY <1>30 DEF Crash, RadioOK
  <1> QED
    BY <1>1, <1>2, <1>3, <1>4, <1>5, <1>6, <1>7, <1>8, <1>9, <1>10, <1>11,
       <1>12, <1>13, <1>14, <1>15, <1>16, <1>17, <1>18, <1>19, <1>20, <1>21,
       <1>22, <1>23, <1>24, <1>25, <1>26, <1>27, <1>28, <1>29, <1>30 DEF
       Process, Step

\* Supervisor, an administrator and the dongle leave the runs alone.
LEMMA EnvironmentStep ==
  ASSUME TypeOK, Environment
  PROVE TypeOK' /\ UNCHANGED <<pc, tx, lock, disk>>
  <1> USE DEF TypeOK, otbrVars, radioVars, mainVars
  <1>1. CASE SupervisorSettles
    BY <1>1, OtbrTyped DEF SupervisorSettles, RadioOK, Settled
  <1>2. CASE AdministratorActs
    BY <1>2, OtbrTyped DEF AdministratorActs, RadioOK, Settled
  <1>3. CASE DongleReenumerates
    BY <1>3, RadioTyped DEF DongleReenumerates
  <1> QED
    BY <1>1, <1>2, <1>3 DEF Environment

TypeInv == TypeOK /\ PlanInv

\* The type invariant and its strengthening hold initially.
LEMMA TypeInit == Init => TypeInv
  <1> SUFFICES ASSUME Init PROVE TypeInv
    OBVIOUS
  <1>1. ControlOK
    BY NoTxTyped, PcNames DEF Init, ControlOK
  <1>2. SharedOK
    BY DEF Init, SharedOK, OtbrStates
  <1>3. PlanInv
    BY DEF Init, PlanInv, PlanOK, NoTx, RestorePcs, HandshakePcs
  <1> QED
    BY <1>1, <1>2, <1>3, TypeSplit DEF TypeInv

\* The type invariant and its strengthening are inductive.
LEMMA TypeNext == TypeInv /\ [Next]_vars => TypeInv'
  <1> SUFFICES ASSUME TypeInv, [Next]_vars PROVE TypeInv'
    OBVIOUS
  <1>1. CASE Environment
    BY <1>1, EnvironmentStep DEF TypeInv, PlanInv, PlanOK
  <1>2. ASSUME NEW p \in Procs, Process(p) PROVE TypeInv'
    <2>0. ControlOK' /\ SharedOK'
      BY <1>2, ControlStep, SharedStep DEF TypeInv, PlanInv
    <2>1. TypeOK'
      BY <2>0 DEF TypeOK, ControlOK, SharedOK
    <2>2. ASSUME NEW q \in Procs PROVE PlanOK(q)'
      <3>1. CASE q = p
        BY <1>2, <3>1, PlanStep DEF TypeInv, PlanInv
      <3>2. CASE q # p
        BY <1>2, <3>2, FrameStep DEF TypeInv, PlanInv, PlanOK
      <3> QED
        BY <3>1, <3>2
    <2> QED
      BY <2>1, <2>2 DEF TypeInv, PlanInv
  <1>3. CASE UNCHANGED vars
    BY <1>3 DEF vars, otbrVars, radioVars, mainVars, TypeInv, TypeOK, RadioOK, PlanInv, PlanOK
  <1> QED
    BY <1>1, <1>2, <1>3 DEF Next

\* Every variable stays in its range, for any number of runs of the add-on.
THEOREM TypeCorrect == Spec => []TypeOK
  <1>1. TypeInv => TypeOK
    BY DEF TypeInv
  <1> QED
    BY <1>1, TypeInit, TypeNext, PTL DEF Spec

-----------------------------------------------------------------------------
(***************************************************************************)
(* Who is inside the transaction.                                          *)
(***************************************************************************)
LockOK(p) == pc[p] \in LockedPcs <=> lock = p

LockInv == \A p \in Procs : LockOK(p)

\* A step of p takes a free lock, gives its own back or leaves it alone.
LEMMA LockStep ==
  ASSUME TypeOK, NEW p \in Procs, LockOK(p), Process(p)
  PROVE /\ LockOK(p)'
        /\ \/ lock' = lock
           \/ lock = Free /\ lock' = p
           \/ lock = p /\ lock' = Free
  <1>0. ControlOK /\ p # Free
    BY TypeSplit, ProcsAssumption
  <1> USE <1>0 DEF ControlOK, LockOK, LockedPcs, BorrowingPcs, HandshakePcs, RadioPcs, RestorePcs
  <1>1. CASE Boot(p)
    BY <1>1 DEF Boot, Goto
  <1>2. CASE BeginInstall(p)
    BY <1>2 DEF BeginInstall, Goto
  <1>3. CASE BeginRescan(p)
    BY <1>3 DEF BeginRescan, Goto
  <1>4. CASE Refresh(p)
    BY <1>4 DEF Refresh
  <1>5. CASE Validate(p)
    BY <1>5 DEF Validate, Goto
  <1>6. CASE AcquireLock(p)
    BY <1>6 DEF AcquireLock, Goto, Handler, LockIsFree
  <1>7. CASE CheckMissing(p)
    BY <1>7 DEF CheckMissing, Goto, Abort, Handler
  <1>8. CASE PrepareSafeUpdate(p)
    BY <1>8 DEF PrepareSafeUpdate, Goto, Abort, Handler
  <1>9. CASE QuietWindow(p)
    BY <1>9 DEF QuietWindow, Goto, Abort, Handler
  <1>10. CASE Handover(p)
    BY <1>10 DEF Handover, Goto, Abort, Handler
  <1>11. CASE StopOtbr(p)
    BY <1>11 DEF StopOtbr, Goto, Abort, Handler
  <1>12. CASE AwaitStopped(p)
    BY <1>12 DEF AwaitStopped, Goto, Abort, Handler
  <1>13. CASE CheckUnchanged(p)
    BY <1>13 DEF CheckUnchanged, Goto, Unwind
  <1>14. CASE ReadVersion(p)
    BY <1>14 DEF ReadVersion, Goto, Unwind
  <1>15. CASE RecoverBootloader(p)
    BY <1>15 DEF RecoverBootloader, Goto, Unwind
  <1>16. CASE SelectTarget(p)
    BY <1>16 DEF SelectTarget, Goto, Unwind
  <1>17. CASE ResetBootloader(p)
    BY <1>17 DEF ResetBootloader, Goto, Unwind
  <1>18. CASE Flash(p)
    BY <1>18 DEF Flash, Goto, Unwind
  <1>19. CASE VerifyRelease(p)
    BY <1>19 DEF VerifyRelease, Goto, Unwind
  <1>20. CASE RebootApplication(p)
    BY <1>20 DEF RebootApplication, Goto, Unwind
  <1>21. CASE RestoreOtbr(p)
    BY <1>21 DEF RestoreOtbr, Leave, Handler, AttemptFails, AttemptsLeft
  <1>22. CASE StartOtbr(p)
    BY <1>22 DEF StartOtbr, Leave, Handler, AttemptFails, AttemptsLeft
  <1>23. CASE AwaitStarted(p)
    BY <1>23 DEF AwaitStarted, Leave, Handler, AttemptFails, AttemptsLeft
  <1>24. CASE RequireOtbrHealthy(p)
    BY <1>24 DEF RequireOtbrHealthy, Goto, Abort, Handler
  <1>25. CASE Commit(p)
    BY <1>25 DEF Commit, Goto, Abort, Handler
  <1>26. CASE ReleaseLock(p)
    BY <1>26 DEF ReleaseLock, Goto
  <1>27. CASE Failed(p)
    BY <1>27 DEF Failed, Goto
  <1>28. CASE Rescanned(p)
    BY <1>28 DEF Rescanned, Goto
  <1>29. CASE Complete(p)
    BY <1>29 DEF Complete, Goto
  <1>30. CASE Crash(p)
    BY <1>30 DEF Crash
  <1> QED
    BY <1>1, <1>2, <1>3, <1>4, <1>5, <1>6, <1>7, <1>8, <1>9, <1>10, <1>11,
       <1>12, <1>13, <1>14, <1>15, <1>16, <1>17, <1>18, <1>19, <1>20, <1>21,
       <1>22, <1>23, <1>24, <1>25, <1>26, <1>27, <1>28, <1>29, <1>30 DEF
       Process, Step

\* A run outside the transaction touches neither OTBR nor the dongle.
LEMMA OutsideStep ==
  ASSUME TypeOK, NEW p \in Procs, LockOK(p), Process(p), pc[p] \notin LockedPcs
  PROVE UNCHANGED <<otbr, debt, claim, mode, fw>>
  <1> USE DEF LockOK, LockedPcs, BorrowingPcs, HandshakePcs, RadioPcs, RestorePcs, otbrVars, radioVars
  <1>1. CASE Boot(p)
    BY <1>1 DEF Boot, Goto
  <1>2. CASE BeginInstall(p)
    BY <1>2 DEF BeginInstall, Goto
  <1>3. CASE BeginRescan(p)
    BY <1>3 DEF BeginRescan, Goto
  <1>4. CASE Refresh(p)
    BY <1>4 DEF Refresh
  <1>5. CASE Validate(p)
    BY <1>5 DEF Validate, Goto
  <1>6. CASE AcquireLock(p)
    BY <1>6 DEF AcquireLock, Goto
  <1>7. CASE CheckMissing(p)
    BY <1>7 DEF CheckMissing, Goto, Abort
  <1>8. CASE PrepareSafeUpdate(p)
    BY <1>8 DEF PrepareSafeUpdate, Goto, Abort
  <1>9. CASE QuietWindow(p)
    BY <1>9 DEF QuietWindow, Goto, Abort
  <1>10. CASE Handover(p)
    BY <1>10 DEF Handover, Goto, Abort
  <1>11. CASE StopOtbr(p)
    BY <1>11 DEF StopOtbr, Goto, Abort
  <1>12. CASE AwaitStopped(p)
    BY <1>12 DEF AwaitStopped, Goto, Abort
  <1>13. CASE CheckUnchanged(p)
    BY <1>13 DEF CheckUnchanged, Goto, Unwind
  <1>14. CASE ReadVersion(p)
    BY <1>14 DEF ReadVersion, Goto, Unwind
  <1>15. CASE RecoverBootloader(p)
    BY <1>15 DEF RecoverBootloader, Goto, Unwind
  <1>16. CASE SelectTarget(p)
    BY <1>16 DEF SelectTarget, Goto, Unwind
  <1>17. CASE ResetBootloader(p)
    BY <1>17 DEF ResetBootloader, Goto, Unwind
  <1>18. CASE Flash(p)
    BY <1>18 DEF Flash, Goto, Unwind
  <1>19. CASE VerifyRelease(p)
    BY <1>19 DEF VerifyRelease, Goto, Unwind
  <1>20. CASE RebootApplication(p)
    BY <1>20 DEF RebootApplication, Goto, Unwind
  <1>21. CASE RestoreOtbr(p)
    BY <1>21 DEF RestoreOtbr
  <1>22. CASE StartOtbr(p)
    BY <1>22 DEF StartOtbr
  <1>23. CASE AwaitStarted(p)
    BY <1>23 DEF AwaitStarted
  <1>24. CASE RequireOtbrHealthy(p)
    BY <1>24 DEF RequireOtbrHealthy, Goto, Abort
  <1>25. CASE Commit(p)
    BY <1>25 DEF Commit, Goto, Abort
  <1>26. CASE ReleaseLock(p)
    BY <1>26 DEF ReleaseLock, Goto
  <1>27. CASE Failed(p)
    BY <1>27 DEF Failed, Goto
  <1>28. CASE Rescanned(p)
    BY <1>28 DEF Rescanned, Goto
  <1>29. CASE Complete(p)
    BY <1>29 DEF Complete, Goto
  <1>30. CASE Crash(p)
    BY <1>30 DEF Crash
  <1> QED
    BY <1>1, <1>2, <1>3, <1>4, <1>5, <1>6, <1>7, <1>8, <1>9, <1>10, <1>11,
       <1>12, <1>13, <1>14, <1>15, <1>16, <1>17, <1>18, <1>19, <1>20, <1>21,
       <1>22, <1>23, <1>24, <1>25, <1>26, <1>27, <1>28, <1>29, <1>30 DEF
       Process, Step

-----------------------------------------------------------------------------
(***************************************************************************)
(* What the holder knows of the radio, owes OTBR and has seen verified.    *)
(***************************************************************************)
ClaimOK(p) ==
  pc[p] \in RadioPcs \cup {"check"} => claim # "none" /\ (claim = "held" => Stopped)

ResultOK(p) ==
  pc[p] \in RestorePcs \cup {"health", "commit"} /\ tx[p].kind # "rescan"
    /\ tx[p].err = "none" => tx[p].result = fw

\* The holder of the lock is the one who can still give back what is owed.
OwesOK(p) ==
  debt = "owed" => pc[p] \in BorrowingPcs \ {"stop"} /\ tx[p].was

RunningPaid == Running => debt = "none"

\* The holder reaches the dongle only with a claim, and nobody starts OTBR
\* behind a claim that is held.
LEMMA ClaimStep ==
  ASSUME TypeOK, NEW p \in Procs, LockOK(p), ClaimOK(p), Process(p)
  PROVE ClaimOK(p)'
  <1>0. ControlOK
    BY TypeSplit
  <1> USE <1>0 DEF ControlOK, ClaimOK, LockOK, Running, Stopped, LockedPcs, BorrowingPcs, HandshakePcs, RadioPcs, RestorePcs, otbrVars, radioVars
  <1>1. CASE Boot(p)
    BY <1>1 DEF Boot, Goto
  <1>2. CASE BeginInstall(p)
    BY <1>2 DEF BeginInstall, Goto
  <1>3. CASE BeginRescan(p)
    BY <1>3 DEF BeginRescan, Goto
  <1>4. CASE Refresh(p)
    BY <1>4 DEF Refresh
  <1>5. CASE Validate(p)
    BY <1>5 DEF Validate, Goto
  <1>6. CASE AcquireLock(p)
    BY <1>6 DEF AcquireLock, Goto, Handler, LockIsFree
  <1>7. CASE CheckMissing(p)
    BY <1>7 DEF CheckMissing, Goto, Abort, Handler
  <1>8. CASE PrepareSafeUpdate(p)
    BY <1>8 DEF PrepareSafeUpdate, Goto, Abort, Handler
  <1>9. CASE QuietWindow(p)
    BY <1>9 DEF QuietWindow, Goto, Abort, Handler
  <1>10. CASE Handover(p)
    BY <1>10 DEF Handover, Goto, Abort, Handler
  <1>11. CASE StopOtbr(p)
    BY <1>11 DEF StopOtbr, Goto, Abort, Handler, StopTakesEffect
  <1>12. CASE AwaitStopped(p)
    BY <1>12 DEF AwaitStopped, Goto, Abort, Handler, StopConfirmed
  <1>13. CASE CheckUnchanged(p)
    BY <1>13 DEF CheckUnchanged, Goto, Unwind
  <1>14. CASE ReadVersion(p)
    BY <1>14 DEF ReadVersion, Goto, Unwind
  <1>15. CASE RecoverBootloader(p)
    BY <1>15 DEF RecoverBootloader, Goto, Unwind
  <1>16. CASE SelectTarget(p)
    BY <1>16 DEF SelectTarget, Goto, Unwind
  <1>17. CASE ResetBootloader(p)
    BY <1>17 DEF ResetBootloader, Goto, Unwind
  <1>18. CASE Flash(p)
    BY <1>18 DEF Flash, Goto, Unwind
  <1>19. CASE VerifyRelease(p)
    BY <1>19 DEF VerifyRelease, Goto, Unwind
  <1>20. CASE RebootApplication(p)
    BY <1>20 DEF RebootApplication, Goto, Unwind
  <1>21. CASE RestoreOtbr(p)
    BY <1>21 DEF RestoreOtbr, Leave, Handler, AttemptFails, MustRestore
  <1>22. CASE StartOtbr(p)
    BY <1>22 DEF StartOtbr, Leave, Handler, AttemptFails
  <1>23. CASE AwaitStarted(p)
    BY <1>23 DEF AwaitStarted, Leave, Handler, AttemptFails
  <1>24. CASE RequireOtbrHealthy(p)
    BY <1>24 DEF RequireOtbrHealthy, Goto, Abort, Handler
  <1>25. CASE Commit(p)
    BY <1>25 DEF Commit, Goto, Abort, Handler
  <1>26. CASE ReleaseLock(p)
    BY <1>26 DEF ReleaseLock, Goto
  <1>27. CASE Failed(p)
    BY <1>27 DEF Failed, Goto
  <1>28. CASE Rescanned(p)
    BY <1>28 DEF Rescanned, Goto
  <1>29. CASE Complete(p)
    BY <1>29 DEF Complete, Goto
  <1>30. CASE Crash(p)
    BY <1>30 DEF Crash
  <1> QED
    BY <1>1, <1>2, <1>3, <1>4, <1>5, <1>6, <1>7, <1>8, <1>9, <1>10, <1>11,
       <1>12, <1>13, <1>14, <1>15, <1>16, <1>17, <1>18, <1>19, <1>20, <1>21,
       <1>22, <1>23, <1>24, <1>25, <1>26, <1>27, <1>28, <1>29, <1>30 DEF
       Process, Step

\* What an install is about to record is what the dongle holds.
LEMMA ResultStep ==
  ASSUME TypeOK, NEW p \in Procs, PlanOK(p), LockOK(p), ResultOK(p), Process(p)
  PROVE ResultOK(p)'
  <1>0. ControlOK
    BY TypeSplit
  <1> USE <1>0 DEF ControlOK, TxType, ResultOK, LockOK, RestorePcs, otbrVars, radioVars
  <1>1. CASE Boot(p)
    BY <1>1 DEF Boot, Goto
  <1>2. CASE BeginInstall(p)
    BY <1>2 DEF BeginInstall, Goto, NoTx
  <1>3. CASE BeginRescan(p)
    BY <1>3 DEF BeginRescan, Goto
  <1>4. CASE Refresh(p)
    BY <1>4 DEF Refresh
  <1>5. CASE Validate(p)
    BY <1>5 DEF Validate, Goto
  <1>6. CASE AcquireLock(p)
    BY <1>6 DEF AcquireLock, Goto, Handler, LockIsFree
  <1>7. CASE CheckMissing(p)
    BY <1>7 DEF CheckMissing, Goto, Abort, Handler
  <1>8. CASE PrepareSafeUpdate(p)
    BY <1>8 DEF PrepareSafeUpdate, Goto, Abort, Handler
  <1>9. CASE QuietWindow(p)
    BY <1>9 DEF QuietWindow, Goto, Abort, Handler
  <1>10. CASE Handover(p)
    BY <1>10 DEF Handover, Goto, Abort, Handler
  <1>11. CASE StopOtbr(p)
    BY <1>11 DEF StopOtbr, Goto, Abort, Handler
  <1>12. CASE AwaitStopped(p)
    BY <1>12 DEF AwaitStopped, Goto, Abort, Handler
  <1>13. CASE CheckUnchanged(p)
    BY <1>13 DEF CheckUnchanged, Goto, Unwind
  <1>14. CASE ReadVersion(p)
    BY <1>14 DEF ReadVersion, Goto, Unwind
  <1>15. CASE RecoverBootloader(p)
    BY <1>15 DEF RecoverBootloader, Goto, Unwind
  <1>16. CASE SelectTarget(p)
    BY <1>16 DEF SelectTarget, Goto, Unwind
  <1>17. CASE ResetBootloader(p)
    BY <1>17 DEF ResetBootloader, Goto, Unwind
  <1>18. CASE Flash(p)
    BY <1>18 DEF Flash, Goto, Unwind
  <1>19. CASE VerifyRelease(p)
    BY <1>19 DEF VerifyRelease, Goto, Unwind
  <1>20. CASE RebootApplication(p)
    BY <1>20 DEF RebootApplication, Goto, Unwind
  <1>21. CASE RestoreOtbr(p)
    BY <1>21 DEF RestoreOtbr, Leave, Handler, AttemptFails
  <1>22. CASE StartOtbr(p)
    BY <1>22 DEF StartOtbr, Leave, Handler, AttemptFails
  <1>23. CASE AwaitStarted(p)
    BY <1>23 DEF AwaitStarted, Leave, Handler, AttemptFails
  <1>24. CASE RequireOtbrHealthy(p)
    BY <1>24 DEF RequireOtbrHealthy, Goto, Abort, Handler
  <1>25. CASE Commit(p)
    BY <1>25 DEF Commit, Goto, Abort, Handler
  <1>26. CASE ReleaseLock(p)
    BY <1>26 DEF ReleaseLock, Goto
  <1>27. CASE Failed(p)
    BY <1>27 DEF Failed, Goto, NoTx
  <1>28. CASE Rescanned(p)
    BY <1>28 DEF Rescanned, Goto, NoTx
  <1>29. CASE Complete(p)
    BY <1>29 DEF Complete, Goto, NoTx
  <1>30. CASE Crash(p)
    BY <1>30 DEF Crash, NoTx
  <1> QED
    BY <1>1, <1>2, <1>3, <1>4, <1>5, <1>6, <1>7, <1>8, <1>9, <1>10, <1>11,
       <1>12, <1>13, <1>14, <1>15, <1>16, <1>17, <1>18, <1>19, <1>20, <1>21,
       <1>22, <1>23, <1>24, <1>25, <1>26, <1>27, <1>28, <1>29, <1>30 DEF
       Process, Step

\* The holder of the lock pays or accounts for what it owes before it leaves.
LEMMA DebtStep ==
  ASSUME TypeOK, NEW p \in Procs, PlanOK(p), LockOK(p), lock = p, OwesOK(p), RunningPaid, Process(p)
  PROVE (lock' = p => OwesOK(p)') /\ (lock' # p => debt' # "owed") /\ RunningPaid'
  <1>0. ControlOK
    BY TypeSplit
  <1> USE <1>0 DEF ControlOK, TxType, PlanOK, OwesOK, RunningPaid, LockOK, Running, LockedPcs, BorrowingPcs, HandshakePcs, RadioPcs, RestorePcs, otbrVars, radioVars
  <1>1. CASE Boot(p)
    BY <1>1 DEF Boot, Goto
  <1>2. CASE BeginInstall(p)
    BY <1>2 DEF BeginInstall, Goto, NoTx
  <1>3. CASE BeginRescan(p)
    BY <1>3 DEF BeginRescan, Goto
  <1>4. CASE Refresh(p)
    BY <1>4 DEF Refresh
  <1>5. CASE Validate(p)
    BY <1>5 DEF Validate, Goto
  <1>6. CASE AcquireLock(p)
    BY <1>6 DEF AcquireLock, Goto, Handler, LockIsFree
  <1>7. CASE CheckMissing(p)
    BY <1>7 DEF CheckMissing, Goto, Abort, Handler
  <1>8. CASE PrepareSafeUpdate(p)
    BY <1>8 DEF PrepareSafeUpdate, Goto, Abort, Handler
  <1>9. CASE QuietWindow(p)
    BY <1>9 DEF QuietWindow, Goto, Abort, Handler
  <1>10. CASE Handover(p)
    BY <1>10 DEF Handover, Goto, Abort, Handler
  <1>11. CASE StopOtbr(p)
    BY <1>11 DEF StopOtbr, Goto, Abort, Handler, StopTakesEffect
  <1>12. CASE AwaitStopped(p)
    BY <1>12 DEF AwaitStopped, Goto, Abort, Handler, StopConfirmed
  <1>13. CASE CheckUnchanged(p)
    BY <1>13 DEF CheckUnchanged, Goto, Unwind
  <1>14. CASE ReadVersion(p)
    BY <1>14 DEF ReadVersion, Goto, Unwind
  <1>15. CASE RecoverBootloader(p)
    BY <1>15 DEF RecoverBootloader, Goto, Unwind
  <1>16. CASE SelectTarget(p)
    BY <1>16 DEF SelectTarget, Goto, Unwind
  <1>17. CASE ResetBootloader(p)
    BY <1>17 DEF ResetBootloader, Goto, Unwind
  <1>18. CASE Flash(p)
    BY <1>18 DEF Flash, Goto, Unwind
  <1>19. CASE VerifyRelease(p)
    BY <1>19 DEF VerifyRelease, Goto, Unwind
  <1>20. CASE RebootApplication(p)
    BY <1>20 DEF RebootApplication, Goto, Unwind
  <1>21. CASE RestoreOtbr(p)
    BY <1>21 DEF RestoreOtbr, Leave, Handler, AttemptFails, AttemptsLeft, MustRestore, Defaulted
  <1>22. CASE StartOtbr(p)
    BY <1>22 DEF StartOtbr, StartTakesEffect, Leave, Handler, AttemptFails, AttemptsLeft, Defaulted, Settled
  <1>23. CASE AwaitStarted(p)
    BY <1>23 DEF AwaitStarted, Leave, Handler, AttemptFails, AttemptsLeft, Defaulted
  <1>24. CASE RequireOtbrHealthy(p)
    BY <1>24 DEF RequireOtbrHealthy, Goto, Abort, Handler
  <1>25. CASE Commit(p)
    BY <1>25 DEF Commit, Goto, Abort, Handler
  <1>26. CASE ReleaseLock(p)
    BY <1>26 DEF ReleaseLock, Goto
  <1>27. CASE Failed(p)
    BY <1>27 DEF Failed, Goto, NoTx
  <1>28. CASE Rescanned(p)
    BY <1>28 DEF Rescanned, Goto, NoTx
  <1>29. CASE Complete(p)
    BY <1>29 DEF Complete, Goto, NoTx
  <1>30. CASE Crash(p)
    BY <1>30 DEF Crash, NoTx
  <1> QED
    BY <1>1, <1>2, <1>3, <1>4, <1>5, <1>6, <1>7, <1>8, <1>9, <1>10, <1>11,
       <1>12, <1>13, <1>14, <1>15, <1>16, <1>17, <1>18, <1>19, <1>20, <1>21,
       <1>22, <1>23, <1>24, <1>25, <1>26, <1>27, <1>28, <1>29, <1>30 DEF
       Process, Step

-----------------------------------------------------------------------------
(***************************************************************************)
(* The inductive invariant.                                                *)
(***************************************************************************)
SafeInv ==
  /\ TypeInv
  /\ LockInv
  /\ \A p \in Procs : ClaimOK(p) /\ ResultOK(p)
  /\ RunningPaid
  /\ debt = "owed" => \E p \in Procs : lock = p /\ OwesOK(p)

\* The inductive invariant holds initially.
LEMMA SafeInit == Init => SafeInv
  <1> SUFFICES ASSUME Init PROVE SafeInv
    OBVIOUS
  <1>1. \A p \in Procs : LockOK(p) /\ ClaimOK(p) /\ ResultOK(p)
    BY ProcsAssumption DEF Init, LockOK, ClaimOK, ResultOK, LockedPcs, BorrowingPcs,
         HandshakePcs, RadioPcs, RestorePcs
  <1>2. RunningPaid /\ debt # "owed"
    BY DEF Init, RunningPaid
  <1> QED
    BY <1>1, <1>2, TypeInit DEF SafeInv, LockInv

\* A step of p leaves what holds of another run q as it is: either p is
\* outside and touches nothing q knows of, or p is inside and q knows nothing.
LEMMA OthersKeep ==
  ASSUME SafeInv, NEW p \in Procs, Process(p), NEW q \in Procs, q # p
  PROVE LockOK(q)' /\ ClaimOK(q)' /\ ResultOK(q)'
  <1>1. pc'[q] = pc[q] /\ tx'[q] = tx[q]
    BY FrameStep DEF SafeInv, TypeInv
  <1>2. LockOK(q) /\ ClaimOK(q) /\ ResultOK(q) /\ LockOK(p)
    BY DEF SafeInv, LockInv
  <1>3. LockOK(q)'
    <2>1. lock' = lock \/ (lock = Free /\ lock' = p) \/ (lock = p /\ lock' = Free)
      BY <1>2, LockStep DEF SafeInv, TypeInv
    <2> QED
      BY <2>1, <1>1, <1>2, ProcsAssumption DEF LockOK
  <1>4. CASE pc[q] \notin LockedPcs
    BY <1>1, <1>3, <1>4 DEF ClaimOK, ResultOK, LockedPcs, BorrowingPcs
  <1>5. CASE pc[q] \in LockedPcs
    <2>1. pc[p] \notin LockedPcs
      BY <1>2, <1>5 DEF LockOK
    <2>2. UNCHANGED <<otbr, debt, claim, mode, fw>>
      BY <1>2, <2>1, OutsideStep DEF SafeInv, TypeInv
    <2> QED
      BY <1>1, <1>2, <1>3, <2>2 DEF ClaimOK, ResultOK, Stopped
  <1> QED
    BY <1>4, <1>5

\* A step of a run keeps a debt with the holder of the lock.
LEMMA ProcessKeepsDebt ==
  ASSUME SafeInv, NEW p \in Procs, Process(p)
  PROVE RunningPaid' /\ (debt' = "owed" => \E q \in Procs : lock' = q /\ OwesOK(q)')
  <1>0. LockOK(p) /\ TypeOK /\ PlanOK(p) /\ RunningPaid
    BY DEF SafeInv, LockInv, TypeInv, PlanInv
  <1>1. CASE pc[p] \in LockedPcs
    <2>1. lock = p
      BY <1>0, <1>1 DEF LockOK
    <2>2. OwesOK(p)
      BY <2>1 DEF SafeInv, OwesOK
    <2>3. (lock' = p => OwesOK(p)') /\ (lock' # p => debt' # "owed") /\ RunningPaid'
      BY <1>0, <2>1, <2>2, DebtStep
    <2> QED
      BY <2>3
  <1>2. CASE pc[p] \notin LockedPcs
    <2>1. UNCHANGED <<otbr, debt, claim, mode, fw>>
      BY <1>0, <1>2, OutsideStep
    <2>2. RunningPaid'
      BY <1>0, <2>1 DEF RunningPaid, Running
    <2>3. ASSUME debt' = "owed" PROVE \E q \in Procs : lock' = q /\ OwesOK(q)'
      <3>1. PICK q \in Procs : lock = q /\ OwesOK(q)
        BY <2>1, <2>3 DEF SafeInv
      <3>2. q # p
        BY <3>1, <1>0, <1>2 DEF LockOK
      <3>3. pc'[q] = pc[q] /\ tx'[q] = tx[q]
        BY <3>2, FrameStep, <1>0
      <3>4. lock' = lock
        BY <3>1, <3>2, <1>0, LockStep, ProcsAssumption
      <3> QED
        BY <3>1, <3>3, <3>4, <2>1 DEF OwesOK
    <2> QED
      BY <2>2, <2>3
  <1> QED
    BY <1>1, <1>2

\* Supervisor, an administrator and the dongle keep the inductive invariant.
LEMMA EnvironmentKeeps ==
  ASSUME SafeInv, Environment
  PROVE SafeInv'
  <1>0. TypeOK /\ TypeOK' /\ UNCHANGED <<pc, tx, lock, disk>>
    BY EnvironmentStep DEF SafeInv, TypeInv
  <1>1. TypeInv' /\ LockInv'
    BY <1>0 DEF SafeInv, TypeInv, PlanInv, PlanOK, LockInv, LockOK
  <1>2. CASE SupervisorSettles
    <2>1. \A p \in Procs : ClaimOK(p)' /\ ResultOK(p)'
      BY <1>0, <1>2 DEF SafeInv, SupervisorSettles, OtbrSettles, ClaimOK, ResultOK, Stopped,
           radioVars
    <2>2. RunningPaid' /\ (debt' = "owed" => debt = "owed")
      BY <1>2 DEF SafeInv, SupervisorSettles, RunningPaid, Running, Settled
    <2> QED
      BY <1>0, <1>1, <2>1, <2>2 DEF SafeInv, OwesOK
  <1>3. CASE AdministratorActs
    <2>1. \A p \in Procs : ClaimOK(p)' /\ ResultOK(p)'
      BY <1>0, <1>3 DEF SafeInv, AdministratorActs, StartTakesEffect, StopTakesEffect,
           ClaimOK, ResultOK, Stopped, radioVars
    <2>2. RunningPaid' /\ (debt' = "owed" => debt = "owed")
      BY <1>3 DEF SafeInv, AdministratorActs, StopTakesEffect, RunningPaid, Running, Settled
    <2> QED
      BY <1>0, <1>1, <2>1, <2>2 DEF SafeInv, OwesOK
  <1>4. CASE DongleReenumerates
    BY <1>0, <1>1, <1>4 DEF SafeInv, DongleReenumerates, Reenumerates, ClaimOK, ResultOK,
         Stopped, OwesOK, RunningPaid, Running, otbrVars
  <1> QED
    BY <1>2, <1>3, <1>4 DEF Environment

\* Every step keeps the inductive invariant.
LEMMA SafeNext == SafeInv /\ [Next]_vars => SafeInv'
  <1> SUFFICES ASSUME SafeInv, [Next]_vars PROVE SafeInv'
    OBVIOUS
  <1>1. CASE Environment
    BY <1>1, EnvironmentKeeps
  <1>2. ASSUME NEW p \in Procs, Process(p) PROVE SafeInv'
    <2>1. TypeInv'
      BY <1>2, TypeNext DEF SafeInv, Next
    <2>2. LockOK(p)' /\ ClaimOK(p)' /\ ResultOK(p)'
      BY <1>2, LockStep, ClaimStep, ResultStep DEF SafeInv, TypeInv, PlanInv, LockInv
    <2>3. \A q \in Procs : LockOK(q)' /\ ClaimOK(q)' /\ ResultOK(q)'
      BY <1>2, <2>2, OthersKeep
    <2>4. RunningPaid' /\ (debt' = "owed" => \E q \in Procs : lock' = q /\ OwesOK(q)')
      BY <1>2, ProcessKeepsDebt
    <2> QED
      BY <2>1, <2>3, <2>4 DEF SafeInv, LockInv
  <1>3. CASE UNCHANGED vars
    <2>1. TypeInv'
      BY <1>3, TypeNext DEF SafeInv
    <2> QED
      BY <1>3, <2>1 DEF vars, otbrVars, radioVars, mainVars, SafeInv, LockInv, LockOK, ClaimOK,
           ResultOK, RunningPaid, Running, Stopped, OwesOK
  <1> QED
    BY <1>1, <1>2, <1>3 DEF Next

\* The inductive invariant holds in every reachable state.
LEMMA SafeAlways == Spec => []SafeInv
  BY SafeInit, SafeNext, PTL DEF Spec

\* Only Commit leads from "commit" to "release".
LEMMA CommitOnly ==
  ASSUME TypeOK, NEW p \in Procs, Process(p), pc[p] = "commit", pc'[p] = "release"
  PROVE disk' = tx[p].result
  <1>0. ControlOK
    BY TypeSplit
  <1> USE <1>0 DEF ControlOK, Handler
  <1>1. CASE Boot(p)
    BY <1>1 DEF Boot, Goto
  <1>2. CASE BeginInstall(p)
    BY <1>2 DEF BeginInstall, Goto
  <1>3. CASE BeginRescan(p)
    BY <1>3 DEF BeginRescan, Goto
  <1>4. CASE Refresh(p)
    BY <1>4 DEF Refresh
  <1>5. CASE Validate(p)
    BY <1>5 DEF Validate, Goto
  <1>6. CASE AcquireLock(p)
    BY <1>6 DEF AcquireLock, Goto
  <1>7. CASE CheckMissing(p)
    BY <1>7 DEF CheckMissing, Goto, Abort
  <1>8. CASE PrepareSafeUpdate(p)
    BY <1>8 DEF PrepareSafeUpdate, Goto, Abort
  <1>9. CASE QuietWindow(p)
    BY <1>9 DEF QuietWindow, Goto, Abort
  <1>10. CASE Handover(p)
    BY <1>10 DEF Handover, Goto, Abort
  <1>11. CASE StopOtbr(p)
    BY <1>11 DEF StopOtbr, Goto, Abort
  <1>12. CASE AwaitStopped(p)
    BY <1>12 DEF AwaitStopped, Goto, Abort
  <1>13. CASE CheckUnchanged(p)
    BY <1>13 DEF CheckUnchanged, Goto, Unwind
  <1>14. CASE ReadVersion(p)
    BY <1>14 DEF ReadVersion, Goto, Unwind
  <1>15. CASE RecoverBootloader(p)
    BY <1>15 DEF RecoverBootloader, Goto, Unwind
  <1>16. CASE SelectTarget(p)
    BY <1>16 DEF SelectTarget, Goto, Unwind
  <1>17. CASE ResetBootloader(p)
    BY <1>17 DEF ResetBootloader, Goto, Unwind
  <1>18. CASE Flash(p)
    BY <1>18 DEF Flash, Goto, Unwind
  <1>19. CASE VerifyRelease(p)
    BY <1>19 DEF VerifyRelease, Goto, Unwind
  <1>20. CASE RebootApplication(p)
    BY <1>20 DEF RebootApplication, Goto, Unwind
  <1>21. CASE RestoreOtbr(p)
    BY <1>21 DEF RestoreOtbr
  <1>22. CASE StartOtbr(p)
    BY <1>22 DEF StartOtbr
  <1>23. CASE AwaitStarted(p)
    BY <1>23 DEF AwaitStarted
  <1>24. CASE RequireOtbrHealthy(p)
    BY <1>24 DEF RequireOtbrHealthy, Goto, Abort
  <1>25. CASE Commit(p)
    BY <1>25 DEF Commit, Goto, Abort
  <1>26. CASE ReleaseLock(p)
    BY <1>26 DEF ReleaseLock, Goto
  <1>27. CASE Failed(p)
    BY <1>27 DEF Failed, Goto
  <1>28. CASE Rescanned(p)
    BY <1>28 DEF Rescanned, Goto
  <1>29. CASE Complete(p)
    BY <1>29 DEF Complete, Goto
  <1>30. CASE Crash(p)
    BY <1>30 DEF Crash
  <1> QED
    BY <1>1, <1>2, <1>3, <1>4, <1>5, <1>6, <1>7, <1>8, <1>9, <1>10, <1>11,
       <1>12, <1>13, <1>14, <1>15, <1>16, <1>17, <1>18, <1>19, <1>20, <1>21,
       <1>22, <1>23, <1>24, <1>25, <1>26, <1>27, <1>28, <1>29, <1>30 DEF
       Process, Step

-----------------------------------------------------------------------------
(***************************************************************************)
(* The theorems.                                                           *)
(***************************************************************************)
\* However many runs of the add-on overlap, crash and restart, at most one of
\* them is between taking update.lock and giving it back.
THEOREM MutualExclusion == Spec => []OneTransaction
  <1>1. SafeInv => OneTransaction
    BY DEF SafeInv, LockInv, LockOK, OneTransaction
  <1> QED
    BY <1>1, SafeAlways, PTL

\* The updater reaches the dongle only behind a claim, and as long as nobody
\* outside starts it, an OTBR that was seen stopped stays stopped meanwhile.
THEOREM RadioIsOwned == Spec => []RadioOwnership
  <1>1. SafeInv => RadioOwnership
    BY DEF SafeInv, ClaimOK, RadioOwnership
  <1> QED
    BY <1>1, SafeAlways, PTL

\* temporarily_stop never loses an OTBR it stopped without a trace: it is
\* still borrowed, running again, or one of the three named failures occurred.
THEOREM OutageIsAccountedFor == Spec => []NoForgottenOutage
  <1>1. SafeInv => NoForgottenOutage
    BY DEF SafeInv, OwesOK, NoForgottenOutage
  <1> QED
    BY <1>1, SafeAlways, PTL

\* Whatever an install writes to the record, the dongle holds at that moment,
\* and OTBR was given back before.
THEOREM RecordIsVerified == Spec => RecordedIsVerified
  <1>1. ASSUME SafeInv, Next, NEW p \in Procs, pc[p] = "commit", pc'[p] = "release"
        PROVE disk' = fw /\ debt # "owed"
    <2>1. PICK q \in Procs : Process(q)
      <3>1. ~Environment
        BY <1>1, EnvironmentStep DEF SafeInv, TypeInv
      <3> QED
        BY <3>1, <1>1 DEF Next
    <2>2. q = p
      BY <2>1, <1>1, FrameStep DEF SafeInv, TypeInv
    <2>3. disk' = tx[p].result
      BY <2>1, <2>2, CommitOnly, <1>1 DEF SafeInv, TypeInv
    <2>4. tx[p].result = fw
      BY <1>1 DEF SafeInv, TypeInv, PlanInv, PlanOK, ResultOK
    <2>5. debt # "owed"
      <3>1. lock = p
        BY <1>1 DEF SafeInv, LockInv, LockOK, LockedPcs
      <3> QED
        BY <3>1, <1>1 DEF SafeInv, OwesOK, BorrowingPcs, HandshakePcs, RadioPcs, RestorePcs
    <2> QED
      BY <2>3, <2>4, <2>5
  <1>2. SafeInv /\ [Next]_vars =>
          [\A p \in Procs : pc[p] = "commit" /\ pc'[p] = "release" => disk' = fw /\ debt # "owed"]_vars
    BY <1>1
  <1> QED
    BY <1>2, SafeAlways, PTL DEF Spec, RecordedIsVerified

=============================================================================
