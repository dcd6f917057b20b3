---------------------- MODULE RcpUpdater_record_proofs ----------------------
(***************************************************************************)
(* Theorems about what RcpUpdater writes to the dongle and to its record:  *)
(* which downgrades are authorised and that the whole implements           *)
(* FirmwareTransaction, both for any number of runs of the add-on; and     *)
(* that the record of a single run follows the dongle.  They stand on      *)
(* SafeInv of RcpUpdater_proofs, that the others are outside.              *)
(***************************************************************************)
EXTENDS RcpUpdater_proofs

-----------------------------------------------------------------------------
(***************************************************************************)
(* Downgrades.  What authorises one is decided when the operation begins   *)
(* (the policy and the record), when a bootloader is recovered and when    *)
(* the dongle is read, and is used at the transfer.                        *)
(***************************************************************************)
AuthOK(p) ==
  /\ pc[p] \notin {"idle", "down"} /\ tx[p].kind = "latest" /\ tx[p].selected =>
       mem[p] \in Versions /\ tx[p].target < mem[p]
  /\ tx[p].recovery => RecoveryAllowed(p)
  /\ pc[p] \in {"select", "reset", "flash"} => tx[p].recovery \/ ~Rejected(p, fw)

AuthInv == \A p \in Procs : AuthOK(p)

\* What authorised the operation of p still does after each of its steps.
LEMMA AuthStep ==
  ASSUME TypeOK, NEW p \in Procs, PlanOK(p), AuthOK(p), Process(p)
  PROVE AuthOK(p)'
  <1>0. /\ pc \in [Procs -> Pcs] /\ tx \in [Procs -> TxType] /\ settings \in [Procs -> Configs]
        /\ mem \in [Procs -> Versions \cup {NoVersion}]
    BY DEF TypeOK
  <1> USE <1>0 DEF TxType, PlanOK, AuthOK, RecoveryAllowed, Rejected, mainVars, radioVars
  <1>1. CASE Boot(p)
    BY <1>1 DEF Boot, Goto
  <1>2. CASE BeginInstall(p)
    BY <1>2 DEF BeginInstall, Goto, NoTx, PolicyTargetIsDowngrade
  <1>3. CASE BeginRescan(p)
    BY <1>3 DEF BeginRescan, Goto
  <1>4. CASE Refresh(p)
    BY <1>4 DEF Refresh
  <1>5. CASE Validate(p)
    BY <1>5 DEF Validate, Goto
  <1>6. CASE AcquireLock(p)
    BY <1>6 DEF AcquireLock, Goto, Handler
  <1>7. CASE CheckMissing(p)
    BY <1>7 DEF CheckMissing, Goto, Abort, Handler
  <1>8. CASE PrepareSafeUpdate(p)
    BY <1>8 DEF PrepareSafeUpdate, Goto, Abort, Handler
  <1>9. CASE QuietWindow(p)
    BY <1>9 DEF QuietWindow, Goto, Abort, Handler
  <1>10. CASE Handover(p)
    BY <1>10 DEF Handover, Goto, Abort, Handler
  <1>11. CASE StopOtbr(p)
    BY <1>11 DEF StopOtbr, Goto, Abort, Handler
  <1>12. CASE AwaitStopped(p)
    BY <1>12 DEF AwaitStopped, Goto, Abort, Handler
  <1>13. CASE CheckUnchanged(p)
    BY <1>13 DEF CheckUnchanged, Goto, Unwind
  <1>14. CASE ReadVersion(p)
    BY <1>14 DEF ReadVersion, Goto, Unwind
  <1>15. CASE RecoverBootloader(p)
    BY <1>15 DEF RecoverBootloader, Goto, Unwind
  <1>16. CASE SelectTarget(p)
    BY <1>16 DEF SelectTarget, Goto, Unwind
  <1>17. CASE ResetBootloader(p)
    BY <1>17 DEF ResetBootloader, Goto, Unwind, Reenumerates
  <1>18. CASE Flash(p)
    BY <1>18 DEF Flash, Goto, Unwind
  <1>19. CASE VerifyRelease(p)
    BY <1>19 DEF VerifyRelease, Goto, Unwind
  <1>20. CASE RebootApplication(p)
    BY <1>20 DEF RebootApplication, Goto, Unwind, Reenumerates
  <1>21. CASE RestoreOtbr(p)
    BY <1>21 DEF RestoreOtbr, Leave, Handler, AttemptFails, AttemptsLeft
  <1>22. CASE StartOtbr(p)
    BY <1>22 DEF StartOtbr, Leave, Handler, AttemptFails, AttemptsLeft
  <1>23. CASE AwaitStarted(p)
    BY <1>23 DEF AwaitStarted, Leave, Handler, AttemptFails, AttemptsLeft
  <1>24. CASE RequireOtbrHealthy(p)
    BY <1>24 DEF RequireOtbrHealthy, Goto, Abort, Handler
  <1>25. CASE Commit(p)
    BY <1>25 DEF Commit, Goto, Abort, Handler
  <1>26. CASE ReleaseLock(p)
    BY <1>26 DEF ReleaseLock, Goto
  <1>27. CASE Failed(p)
    BY <1>27 DEF Failed, Goto, NoTx
  <1>28. CASE Rescanned(p)
    BY <1>28 DEF Rescanned, Goto, NoTx
  <1>29. CASE Complete(p)
    BY <1>29 DEF Complete, Goto, NoTx
  <1>30. CASE Crash(p)
    BY <1>30 DEF Crash, NoTx
  <1> QED
    BY <1>1, <1>2, <1>3, <1>4, <1>5, <1>6, <1>7, <1>8, <1>9, <1>10, <1>11,
       <1>12, <1>13, <1>14, <1>15, <1>16, <1>17, <1>18, <1>19, <1>20, <1>21,
       <1>22, <1>23, <1>24, <1>25, <1>26, <1>27, <1>28, <1>29, <1>30 DEF
       Process, Step

\* The steps of the others, and of everything around, touch nothing of it: a
\* run that may be at the transfer holds the lock, so nobody else writes.
LEMMA AuthKept ==
  ASSUME SafeInv, AuthInv, Next
  PROVE AuthInv'
  <1>0. TypeOK /\ PlanInv /\ LockInv
    BY DEF SafeInv, TypeInv
  <1>1. CASE Environment
    BY <1>0, <1>1, EnvironmentStep DEF Environment, SupervisorSettles, AdministratorActs,
         DongleReenumerates, Reenumerates, AuthInv, AuthOK, RecoveryAllowed, Rejected,
         mainVars, radioVars
  <1>2. ASSUME NEW p \in Procs, Process(p), NEW q \in Procs PROVE AuthOK(q)'
    <2>1. CASE q = p
      BY <1>0, <1>2, <2>1, AuthStep DEF AuthInv, PlanInv
    <2>2. CASE q # p
      <3>1. /\ pc'[q] = pc[q] /\ tx'[q] = tx[q]
            /\ settings'[q] = settings[q] /\ mem'[q] = mem[q]
        BY <1>0, <1>2, <2>2, FrameStep
      <3>2. pc[q] \in {"select", "reset", "flash"} => fw' = fw
        <4> SUFFICES ASSUME pc[q] \in {"select", "reset", "flash"} PROVE fw' = fw
          OBVIOUS
        <4>1. pc[q] \in LockedPcs
          BY DEF LockedPcs, BorrowingPcs, RadioPcs
        <4>2. pc[p] \notin LockedPcs
          BY <1>0, <2>2, <4>1 DEF LockInv, LockOK
        <4> QED
          BY <1>0, <1>2, <4>2, OutsideStep DEF LockInv
      <3> QED
        BY <3>1, <3>2 DEF AuthInv, AuthOK, RecoveryAllowed, Rejected
    <2> QED
      BY <2>1, <2>2
  <1> QED
    BY <1>1, <1>2 DEF Next, AuthInv

\* Only a transfer, which the run at "flash" takes, changes what a dongle
\* holds while that run is there.
LEMMA FlashWrites ==
  ASSUME TypeOK, NEW p \in Procs, Process(p), pc[p] = "flash"
  PROVE fw' \in {fw, Broken, tx[p].target}
  <1>0. ControlOK
    BY TypeSplit
  <1> USE <1>0 DEF ControlOK, Handler, radioVars
  <1>1. CASE Boot(p)
    BY <1>1 DEF Boot, Goto
  <1>2. CASE BeginInstall(p)
    BY <1>2 DEF BeginInstall, Goto, NoTx
  <1>3. CASE BeginRescan(p)
    BY <1>3 DEF BeginRescan, Goto
  <1>4. CASE Refresh(p)
    BY <1>4 DEF Refresh
  <1>5. CASE Validate(p)
    BY <1>5 DEF Validate, Goto
  <1>6. CASE AcquireLock(p)
    BY <1>6 DEF AcquireLock, Goto, Handler
  <1>7. CASE CheckMissing(p)
    BY <1>7 DEF CheckMissing, Goto, Abort, Handler
  <1>8. CASE PrepareSafeUpdate(p)
    BY <1>8 DEF PrepareSafeUpdate, Goto, Abort, Handler
  <1>9. CASE QuietWindow(p)
    BY <1>9 DEF QuietWindow, Goto, Abort, Handler
  <1>10. CASE Handover(p)
    BY <1>10 DEF Handover, Goto, Abort, Handler
  <1>11. CASE StopOtbr(p)
    BY <1>11 DEF StopOtbr, Goto, Abort, Handler
  <1>12. CASE AwaitStopped(p)
    BY <1>12 DEF AwaitStopped, Goto, Abort, Handler
  <1>13. CASE CheckUnchanged(p)
    BY <1>13 DEF CheckUnchanged, Goto, Unwind
  <1>14. CASE ReadVersion(p)
    BY <1>14 DEF ReadVersion, Goto, Unwind
  <1>15. CASE RecoverBootloader(p)
    BY <1>15 DEF RecoverBootloader, Goto, Unwind
  <1>16. CASE SelectTarget(p)
    BY <1>16 DEF SelectTarget, Goto, Unwind
  <1>17. CASE ResetBootloader(p)
    BY <1>17 DEF ResetBootloader, Goto, Unwind
  <1>18. CASE Flash(p)
    BY <1>18 DEF Flash, Goto, Unwind, Transfer
  <1>19. CASE VerifyRelease(p)
    BY <1>19 DEF VerifyRelease, Goto, Unwind
  <1>20. CASE RebootApplication(p)
    BY <1>20 DEF RebootApplication, Goto, Unwind
  <1>21. CASE RestoreOtbr(p)
    BY <1>21 DEF RestoreOtbr, Leave, Handler, AttemptFails, AttemptsLeft
  <1>22. CASE StartOtbr(p)
    BY <1>22 DEF StartOtbr, Leave, Handler, AttemptFails, AttemptsLeft
  <1>23. CASE AwaitStarted(p)
    BY <1>23 DEF AwaitStarted, Leave, Handler, AttemptFails, AttemptsLeft
  <1>24. CASE RequireOtbrHealthy(p)
    BY <1>24 DEF RequireOtbrHealthy, Goto, Abort, Handler
  <1>25. CASE Commit(p)
    BY <1>25 DEF Commit, Goto, Abort, Handler
  <1>26. CASE ReleaseLock(p)
    BY <1>26 DEF ReleaseLock, Goto
  <1>27. CASE Failed(p)
    BY <1>27 DEF Failed, Goto, NoTx
  <1>28. CASE Rescanned(p)
    BY <1>28 DEF Rescanned, Goto, NoTx
  <1>29. CASE Complete(p)
    BY <1>29 DEF Complete, Goto, NoTx
  <1>30. CASE Crash(p)
    BY <1>30 DEF Crash, NoTx
  <1> QED
    BY <1>1, <1>2, <1>3, <1>4, <1>5, <1>6, <1>7, <1>8, <1>9, <1>10, <1>11,
       <1>12, <1>13, <1>14, <1>15, <1>16, <1>17, <1>18, <1>19, <1>20, <1>21,
       <1>22, <1>23, <1>24, <1>25, <1>26, <1>27, <1>28, <1>29, <1>30 DEF
       Process, Step

\* The native update entity lowers the version in the dongle only where the
\* operation began below the record, or where legacy recovery is enabled and
\* the dongle was found in its bootloader: for any number of runs.
THEOREM DowngradesAreAuthorised == Spec => NativeDowngradeNeedsRecord
  <1>1. Init => SafeInv /\ AuthInv
    BY SafeInit DEF Init, AuthInv, AuthOK, NoTx
  <1>2. SafeInv /\ AuthInv /\ [Next]_vars => SafeInv' /\ AuthInv'
    <2> SUFFICES ASSUME SafeInv, AuthInv, [Next]_vars PROVE SafeInv' /\ AuthInv'
      OBVIOUS
    <2>1. SafeInv'
      BY SafeNext
    <2>2. CASE UNCHANGED vars
      BY <2>1, <2>2 DEF vars, mainVars, radioVars, AuthInv, AuthOK, RecoveryAllowed, Rejected
    <2> QED
      BY <2>1, <2>2, AuthKept
  <1>3. ASSUME SafeInv, AuthInv, Next, NEW p \in Procs,
               pc[p] = "flash", {fw, fw'} \subseteq Versions, fw' < fw
        PROVE Authorized(p)
    <2>0. TypeOK /\ PlanOK(p) /\ LockInv /\ AuthOK(p)
      BY <1>3 DEF SafeInv, TypeInv, PlanInv, AuthInv
    <2>9. fw' # fw /\ fw' # Broken
      <3>1. fw \in Nat /\ fw' < fw
        BY <1>3, VersionsAssumption
      <3> QED
        BY <1>3, <3>1, VersionsAssumption
    <2>1. PICK q \in Procs : Process(q)
      <3>1. ~Environment
        BY <2>9 DEF Environment, SupervisorSettles, AdministratorActs,
             DongleReenumerates, Reenumerates, radioVars
      <3> QED
        BY <3>1, <1>3 DEF Next
    <2>2. q = p
      <3> SUFFICES ASSUME q # p PROVE fw' = fw
        BY <2>9
      <3>1. pc[q] \notin LockedPcs
        BY <1>3, <2>0 DEF LockInv, LockOK, LockedPcs, BorrowingPcs, RadioPcs
      <3> QED
        BY <2>0, <2>1, <3>1, OutsideStep DEF LockInv
    <2>3. fw' = tx[p].target
      BY <1>3, <2>0, <2>9, <2>1, <2>2, FlashWrites
    <2>4. tx[p].kind \in {"latest", "prepared"}
      BY <1>3, <2>0 DEF PlanOK, TypeOK, TxType, Kinds
    <2> QED
      BY <1>3, <2>0, <2>3, <2>4 DEF AuthOK, RecoveryAllowed, Rejected, Authorized
  <1>4. SafeInv /\ AuthInv /\ [Next]_vars =>
          [\A p \in Procs :
             pc[p] = "flash" /\ {fw, fw'} \subseteq Versions /\ fw' < fw => Authorized(p)]_vars
    BY <1>3
  <1> QED
    BY <1>1, <1>2, <1>4, PTL DEF Spec, NativeDowngradeNeedsRecord

-----------------------------------------------------------------------------
(***************************************************************************)
(* The record of a single run.  What it knows of the record, what a rescan *)
(* has read and the deadline of the next rescan are related at each place. *)
(***************************************************************************)
RecordOK(p) ==
  /\ disk \in Versions /\ disk # fw =>
       \/ pc[p] \in {"down", "verify", "reboot", "health", "commit", "failed"} \cup RestorePcs
       \/ due[p]
  /\ pc[p] \in {"release", "complete"} => disk = fw
  /\ pc[p] \notin {"down", "release", "complete"} =>
       \/ mem[p] = Loaded
       \/ disk = fw /\ (pc[p] \in {"idle", "failed"} \/ tx[p].kind = "rescan")
  /\ pc[p] \notin {"idle", "down"} /\ tx[p].kind = "rescan" => due[p]
  /\ pc[p] = "rescanned" => tx[p].kind = "rescan"
  /\ tx[p].kind = "rescan" /\ tx[p].err = "none" /\ pc[p] \in RestorePcs \cup {"rescanned"} =>
       tx[p].result = fw

\* Each step of the run keeps its memory and its deadline in order with the
\* record and the dongle.
LEMMA RecordStep ==
  ASSUME TypeOK, NEW p \in Procs, PlanOK(p), ResultOK(p), RecordOK(p), Process(p)
  PROVE RecordOK(p)'
  <1>0. /\ pc \in [Procs -> Pcs] /\ tx \in [Procs -> TxType] /\ due \in [Procs -> BOOLEAN]
        /\ mem \in [Procs -> Versions \cup {NoVersion}] /\ disk \in Versions \cup {NoVersion, Garbled}
    BY DEF TypeOK
  <1> USE <1>0, ProcsAssumption DEF TxType, PlanOK, ResultOK, RecordOK, Loaded, RestorePcs, mainVars, radioVars
  <1>1. CASE Boot(p)
    BY <1>1 DEF Boot, Goto
  <1>2. CASE BeginInstall(p)
    BY <1>2 DEF BeginInstall, Goto, NoTx
  <1>3. CASE BeginRescan(p)
    BY <1>3 DEF BeginRescan, Goto
  <1>4. CASE Refresh(p)
    BY <1>4 DEF Refresh
  <1>5. CASE Validate(p)
    BY <1>5 DEF Validate, Goto
  <1>6. CASE AcquireLock(p)
    BY <1>6 DEF AcquireLock, Goto, Handler
  <1>7. CASE CheckMissing(p)
    BY <1>7 DEF CheckMissing, Goto, Abort, Handler
  <1>8. CASE PrepareSafeUpdate(p)
    BY <1>8 DEF PrepareSafeUpdate, Goto, Abort, Handler
  <1>9. CASE QuietWindow(p)
    BY <1>9 DEF QuietWindow, Goto, Abort, Handler
  <1>10. CASE Handover(p)
    BY <1>10 DEF Handover, Goto, Abort, Handler
  <1>11. CASE StopOtbr(p)
    BY <1>11 DEF StopOtbr, Goto, Abort, Handler
  <1>12. CASE AwaitStopped(p)
    BY <1>12 DEF AwaitStopped, Goto, Abort, Handler
  <1>13. CASE CheckUnchanged(p)
    BY <1>13 DEF CheckUnchanged, Goto, Unwind
  <1>14. CASE ReadVersion(p)
    BY <1>14 DEF ReadVersion, Goto, Unwind
  <1>15. CASE RecoverBootloader(p)
    BY <1>15 DEF RecoverBootloader, Goto, Unwind
  <1>16. CASE SelectTarget(p)
    BY <1>16 DEF SelectTarget, Goto, Unwind
  <1>17. CASE ResetBootloader(p)
    BY <1>17 DEF ResetBootloader, Goto, Unwind, Reenumerates
  <1>18. CASE Flash(p)
    BY <1>18 DEF Flash, Goto, Unwind
  <1>19. CASE VerifyRelease(p)
    BY <1>19 DEF VerifyRelease, Goto, Unwind
  <1>20. CASE RebootApplication(p)
    BY <1>20 DEF RebootApplication, Goto, Unwind, Reenumerates
  <1>21. CASE RestoreOtbr(p)
    BY <1>21 DEF RestoreOtbr, Leave, Handler, AttemptFails, AttemptsLeft
  <1>22. CASE StartOtbr(p)
    BY <1>22 DEF StartOtbr, Leave, Handler, AttemptFails, AttemptsLeft
  <1>23. CASE AwaitStarted(p)
    BY <1>23 DEF AwaitStarted, Leave, Handler, AttemptFails, AttemptsLeft
  <1>24. CASE RequireOtbrHealthy(p)
    BY <1>24 DEF RequireOtbrHealthy, Goto, Abort, Handler
  <1>25. CASE Commit(p)
    BY <1>25 DEF Commit, Goto, Abort, Handler
  <1>26. CASE ReleaseLock(p)
    BY <1>26 DEF ReleaseLock, Goto
  <1>27. CASE Failed(p)
    BY <1>27 DEF Failed, Goto, NoTx, Forgotten
  <1>28. CASE Rescanned(p)
    <2>1. pc'[p] = "idle" /\ tx'[p] = NoTx /\ UNCHANGED fw
      BY <1>28 DEF Rescanned, Goto
    <2>2. due'[p] = (tx[p].err = "fault")
      BY <1>28 DEF Rescanned
    <2>3. mem'[p] = Loaded'
      BY <1>28 DEF Rescanned
    <2>4. disk' = Forgotten(p) => disk' \notin Versions \/ disk' = fw
      BY <1>28 DEF Rescanned, Goto, Forgotten, Identities
    <2>5. tx[p].err # "fault" => disk' \in {tx[p].result, Forgotten(p)}
      BY <1>28 DEF Rescanned
    <2>6. tx[p].err # "none" /\ tx[p].err # "fault" => disk' = Forgotten(p)
      BY <1>28 DEF Rescanned
    <2>7. tx[p].err = "none" => tx[p].result = fw
      BY <1>28 DEF Rescanned, Goto
    <2>8. disk' \in Versions /\ disk' # fw => tx[p].err = "fault"
      BY <2>4, <2>5, <2>6, <2>7
    <2>9. disk' \in Versions /\ disk' # fw' => due'[p]
      BY <2>1, <2>2, <2>8
    <2> QED
      BY <2>1, <2>3, <2>9 DEF NoTx
  <1>29. CASE Complete(p)
    BY <1>29 DEF Complete, Goto, NoTx
  <1>30. CASE Crash(p)
    BY <1>30 DEF Crash, NoTx
  <1> QED
    BY <1>1, <1>2, <1>3, <1>4, <1>5, <1>6, <1>7, <1>8, <1>9, <1>10, <1>11,
       <1>12, <1>13, <1>14, <1>15, <1>16, <1>17, <1>18, <1>19, <1>20, <1>21,
       <1>22, <1>23, <1>24, <1>25, <1>26, <1>27, <1>28, <1>29, <1>30 DEF
       Process, Step

\* Supervisor, an administrator and the dongle leave both images as they are.
LEMMA RecordUndisturbed ==
  ASSUME TypeOK, Environment, NEW p \in Procs, RecordOK(p)
  PROVE RecordOK(p)'
  BY EnvironmentStep DEF Environment, SupervisorSettles, AdministratorActs,
       DongleReenumerates, Reenumerates, RecordOK, Loaded, mainVars, radioVars

\* As long as runs of the add-on do not overlap, a recorded version that is
\* not in the dongle is on its way out, through every failure and crash.
THEOREM RecordFollowsDongle ==
  ASSUME NEW CONSTANT p, Procs = {p}
  PROVE Spec => []RecordCurrent
  <1>1. Init => SafeInv /\ RecordOK(p)
    BY SafeInit, ProcsAssumption, VersionsAssumption DEF Init, RecordOK, RestorePcs, NoTx
  <1>2. SafeInv /\ RecordOK(p) /\ [Next]_vars => SafeInv' /\ RecordOK(p)'
    <2> SUFFICES ASSUME SafeInv, RecordOK(p), [Next]_vars PROVE SafeInv' /\ RecordOK(p)'
      OBVIOUS
    <2>0. TypeOK /\ PlanOK(p) /\ ResultOK(p)
      BY DEF SafeInv, TypeInv, PlanInv
    <2>1. SafeInv'
      BY SafeNext
    <2>2. CASE Environment
      BY <2>0, <2>1, <2>2, RecordUndisturbed
    <2>3. CASE Process(p)
      BY <2>0, <2>1, <2>3, RecordStep
    <2>4. CASE UNCHANGED vars
      BY <2>1, <2>4 DEF vars, mainVars, radioVars, RecordOK, Loaded
    <2> QED
      BY <2>2, <2>3, <2>4 DEF Next
  <1>3. RecordOK(p) => RecordCurrent
    BY DEF RecordOK, RecordCurrent
  <1> QED
    BY <1>1, <1>2, <1>3, PTL DEF Spec

-----------------------------------------------------------------------------
(***************************************************************************)
(* RcpUpdater implements FirmwareTransaction.  Nothing is written once it  *)
(* was read, so that what is read is still true when it is recorded.       *)
(***************************************************************************)
SeenOK(p) ==
  tx[p].result # NoVersion =>
    pc[p] \in RestorePcs \cup {"health", "commit", "release", "failed", "rescanned", "complete"}

\* A run has a result only from where it has read one.
LEMMA SeenStep ==
  ASSUME TypeOK, NEW p \in Procs, SeenOK(p), Process(p)
  PROVE SeenOK(p)'
  <1>0. ControlOK
    BY TypeSplit
  <1> USE <1>0 DEF ControlOK, TxType, SeenOK, RestorePcs
  <1>1. CASE Boot(p)
    BY <1>1 DEF Boot, Goto
  <1>2. CASE BeginInstall(p)
    BY <1>2 DEF BeginInstall, Goto, NoTx
  <1>3. CASE BeginRescan(p)
    BY <1>3 DEF BeginRescan, Goto
  <1>4. CASE Refresh(p)
    BY <1>4 DEF Refresh
  <1>5. CASE Validate(p)
    BY <1>5 DEF Validate, Goto
  <1>6. CASE AcquireLock(p)
    BY <1>6 DEF AcquireLock, Goto, Handler
  <1>7. CASE CheckMissing(p)
    BY <1>7 DEF CheckMissing, Goto, Abort, Handler
  <1>8. CASE PrepareSafeUpdate(p)
    BY <1>8 DEF PrepareSafeUpdate, Goto, Abort, Handler
  <1>9. CASE QuietWindow(p)
    BY <1>9 DEF QuietWindow, Goto, Abort, Handler
  <1>10. CASE Handover(p)
    BY <1>10 DEF Handover, Goto, Abort, Handler
  <1>11. CASE StopOtbr(p)
    BY <1>11 DEF StopOtbr, Goto, Abort, Handler
  <1>12. CASE AwaitStopped(p)
    BY <1>12 DEF AwaitStopped, Goto, Abort, Handler
  <1>13. CASE CheckUnchanged(p)
    BY <1>13 DEF CheckUnchanged, Goto, Unwind
  <1>14. CASE ReadVersion(p)
    BY <1>14 DEF ReadVersion, Goto, Unwind
  <1>15. CASE RecoverBootloader(p)
    BY <1>15 DEF RecoverBootloader, Goto, Unwind
  <1>16. CASE SelectTarget(p)
    BY <1>16 DEF SelectTarget, Goto, Unwind
  <1>17. CASE ResetBootloader(p)
    BY <1>17 DEF ResetBootloader, Goto, Unwind
  <1>18. CASE Flash(p)
    BY <1>18 DEF Flash, Goto, Unwind
  <1>19. CASE VerifyRelease(p)
    BY <1>19 DEF VerifyRelease, Goto, Unwind
  <1>20. CASE RebootApplication(p)
    BY <1>20 DEF RebootApplication, Goto, Unwind
  <1>21. CASE RestoreOtbr(p)
    BY <1>21 DEF RestoreOtbr, Leave, Handler, AttemptFails, AttemptsLeft
  <1>22. CASE StartOtbr(p)
    BY <1>22 DEF StartOtbr, Leave, Handler, AttemptFails, AttemptsLeft
  <1>23. CASE AwaitStarted(p)
    BY <1>23 DEF AwaitStarted, Leave, Handler, AttemptFails, AttemptsLeft
  <1>24. CASE RequireOtbrHealthy(p)
    BY <1>24 DEF RequireOtbrHealthy, Goto, Abort, Handler
  <1>25. CASE Commit(p)
    BY <1>25 DEF Commit, Goto, Abort, Handler
  <1>26. CASE ReleaseLock(p)
    BY <1>26 DEF ReleaseLock, Goto
  <1>27. CASE Failed(p)
    BY <1>27 DEF Failed, Goto, NoTx
  <1>28. CASE Rescanned(p)
    BY <1>28 DEF Rescanned, Goto, NoTx
  <1>29. CASE Complete(p)
    BY <1>29 DEF Complete, Goto, NoTx
  <1>30. CASE Crash(p)
    BY <1>30 DEF Crash, NoTx
  <1> QED
    BY <1>1, <1>2, <1>3, <1>4, <1>5, <1>6, <1>7, <1>8, <1>9, <1>10, <1>11,
       <1>12, <1>13, <1>14, <1>15, <1>16, <1>17, <1>18, <1>19, <1>20, <1>21,
       <1>22, <1>23, <1>24, <1>25, <1>26, <1>27, <1>28, <1>29, <1>30 DEF
       Process, Step

\* What a step of p does to the transaction, in the terms of
\* FirmwareTransaction.
Effect(p) ==
  \/ /\ lock # p /\ lock' = lock /\ fw' = fw
     /\ \/ tx'[p].result = tx[p].result /\ disk' = disk
        \/ tx'[p].result = NoVersion /\ disk' \in {disk, tx[p].result, NoVersion}
  \/ /\ lock = Free /\ lock' = p /\ Place(p)' = "open"
     /\ tx[p].result = NoVersion /\ tx'[p].result = NoVersion /\ fw' = fw /\ disk' = disk
  \/ /\ lock = p /\ lock' = p /\ tx'[p].result = tx[p].result /\ disk' = disk
     /\ \/ fw' = fw /\ Place(p)' = Place(p)
        \/ fw' = fw /\ Place(p) = "open" /\ Place(p)' = "borrowed"
        \/ /\ fw' \in Images /\ Place(p) = "borrowed" /\ Place(p)' = "borrowed"
           /\ tx[p].result = NoVersion
        \/ fw' = fw /\ Place(p) = "borrowed" /\ Place(p)' = "returned" /\ tx[p].result # NoVersion
  \/ /\ lock = p /\ lock' = p /\ Place(p) = "borrowed" /\ Place(p)' = "borrowed"
     /\ tx[p].result = NoVersion /\ tx'[p].result = fw /\ fw' = fw /\ disk' = disk
  \/ /\ lock = p /\ lock' = p /\ Place(p) = "returned" /\ Place(p)' = "recorded"
     /\ tx'[p].result = tx[p].result /\ disk' = tx[p].result /\ fw' = fw
  \/ /\ lock = p /\ lock' = Free /\ Place(p) = "returned"
     /\ tx'[p].result = tx[p].result /\ disk' = tx[p].result /\ fw' = fw
  \/ /\ lock = p /\ lock' = Free /\ tx'[p].result \in {tx[p].result, NoVersion}
     /\ fw' = fw /\ disk' = disk

\* Every step of a run has one of these effects.
LEMMA EffectStep ==
  ASSUME TypeOK, NEW p \in Procs, PlanOK(p), LockOK(p), SeenOK(p), Process(p)
  PROVE Effect(p)
  <1>0. ControlOK /\ p # Free /\ NoVersion \notin Versions
    BY TypeSplit, ProcsAssumption DEF Identities
  <1> USE <1>0 DEF ControlOK, TxType, PlanOK, LockOK, SeenOK, Effect, Place, LockedPcs,
        BorrowingPcs, HandshakePcs, RadioPcs, RestorePcs, mainVars, radioVars
  <1>1. CASE Boot(p)
    BY <1>1 DEF Boot, Goto
  <1>2. CASE BeginInstall(p)
    BY <1>2 DEF BeginInstall, Goto, NoTx
  <1>3. CASE BeginRescan(p)
    BY <1>3 DEF BeginRescan, Goto
  <1>4. CASE Refresh(p)
    BY <1>4 DEF Refresh
  <1>5. CASE Validate(p)
    BY <1>5 DEF Validate, Goto
  <1>6. CASE AcquireLock(p)
    BY <1>6 DEF AcquireLock, Goto, Handler, LockIsFree
  <1>7. CASE CheckMissing(p)
    BY <1>7 DEF CheckMissing, Goto, Abort, Handler
  <1>8. CASE PrepareSafeUpdate(p)
    BY <1>8 DEF PrepareSafeUpdate, Goto, Abort, Handler
  <1>9. CASE QuietWindow(p)
    BY <1>9 DEF QuietWindow, Goto, Abort, Handler
  <1>10. CASE Handover(p)
    BY <1>10 DEF Handover, Goto, Abort, Handler
  <1>11. CASE StopOtbr(p)
    BY <1>11 DEF StopOtbr, Goto, Abort, Handler
  <1>12. CASE AwaitStopped(p)
    BY <1>12 DEF AwaitStopped, Goto, Abort, Handler
  <1>13. CASE CheckUnchanged(p)
    BY <1>13 DEF CheckUnchanged, Goto, Unwind
  <1>14. CASE ReadVersion(p)
    BY <1>14 DEF ReadVersion, Goto, Unwind
  <1>15. CASE RecoverBootloader(p)
    BY <1>15 DEF RecoverBootloader, Goto, Unwind
  <1>16. CASE SelectTarget(p)
    BY <1>16 DEF SelectTarget, Goto, Unwind
  <1>17. CASE ResetBootloader(p)
    BY <1>17 DEF ResetBootloader, Goto, Unwind, Reenumerates
  <1>18. CASE Flash(p)
    BY <1>18 DEF Flash, Goto, Unwind, Transfer, RadioOK, Images, Identities, TypeOK
  <1>19. CASE VerifyRelease(p)
    BY <1>19 DEF VerifyRelease, Goto, Unwind
  <1>20. CASE RebootApplication(p)
    BY <1>20 DEF RebootApplication, Goto, Unwind, Reenumerates
  <1>21. CASE RestoreOtbr(p)
    BY <1>21 DEF RestoreOtbr, Leave, Handler, AttemptFails, AttemptsLeft
  <1>22. CASE StartOtbr(p)
    BY <1>22 DEF StartOtbr, Leave, Handler, AttemptFails, AttemptsLeft
  <1>23. CASE AwaitStarted(p)
    BY <1>23 DEF AwaitStarted, Leave, Handler, AttemptFails, AttemptsLeft
  <1>24. CASE RequireOtbrHealthy(p)
    BY <1>24 DEF RequireOtbrHealthy, Goto, Abort, Handler
  <1>25. CASE Commit(p)
    BY <1>25 DEF Commit, Goto, Abort, Handler
  <1>26. CASE ReleaseLock(p)
    BY <1>26 DEF ReleaseLock, Goto
  <1>27. CASE Failed(p)
    BY <1>27 DEF Failed, Goto, NoTx, Forgotten
  <1>28. CASE Rescanned(p)
    BY <1>28 DEF Rescanned, Goto, NoTx, Forgotten
  <1>29. CASE Complete(p)
    BY <1>29 DEF Complete, Goto, NoTx
  <1>30. CASE Crash(p)
    BY <1>30 DEF Crash, NoTx
  <1> QED
    BY <1>1, <1>2, <1>3, <1>4, <1>5, <1>6, <1>7, <1>8, <1>9, <1>10, <1>11,
       <1>12, <1>13, <1>14, <1>15, <1>16, <1>17, <1>18, <1>19, <1>20, <1>21,
       <1>22, <1>23, <1>24, <1>25, <1>26, <1>27, <1>28, <1>29, <1>30 DEF
       Process, Step

\* Each effect is a step of the abstract transaction, or none.
LEMMA EffectImplements ==
  ASSUME TypeOK, NEW p \in Procs, LockOK(p), LockOK(p)', Process(p), Effect(p)
  PROVE [Transaction!Next]_(Transaction!vars)
  <1> DEFINE Seen == [q \in Procs |-> tx[q].result]
             Stage == IF lock = Free THEN "none" ELSE Place(lock)
  <1>0. p # Free /\ lock \in Procs \cup {Free}
    BY ProcsAssumption DEF TypeOK
  <1>1. \A q \in Procs : q # p => tx'[q].result = tx[q].result /\ pc'[q] = pc[q]
    BY FrameStep
  <1>2. Seen' = [Seen EXCEPT ![p] = tx'[p].result]
    BY <1>1
  <1>3. tx'[p].result = tx[p].result => Seen' = Seen
    BY <1>1
  <1>4. Seen[p] = tx[p].result
    OBVIOUS
  <1>5. (lock = p => Stage = Place(p)) /\ (lock = Free => Stage = "none")
    BY <1>0
  <1>6. (lock' = p => Stage' = Place(p)') /\ (lock' = Free => Stage' = "none")
    BY <1>0 DEF Place
  <1>7. lock # p /\ lock' = lock => Stage' = Stage
    BY <1>0, <1>1 DEF Place
  <1> HIDE DEF Seen, Stage
  <1>8. CASE /\ lock # p /\ lock' = lock /\ fw' = fw
             /\ \/ tx'[p].result = tx[p].result /\ disk' = disk
                \/ tx'[p].result = NoVersion /\ disk' \in {disk, tx[p].result, NoVersion}
    BY <1>2, <1>3, <1>4, <1>7, <1>8
       DEF Transaction!Next, Transaction!vars, Transaction!Note, Seen, Stage
  <1>9. CASE /\ lock = Free /\ lock' = p /\ Place(p)' = "open"
             /\ tx[p].result = NoVersion /\ tx'[p].result = NoVersion /\ fw' = fw /\ disk' = disk
    BY <1>3, <1>4, <1>6, <1>9 DEF Transaction!Next, Transaction!Begin, Seen, Stage
  <1>10. CASE /\ lock = p /\ lock' = p /\ tx'[p].result = tx[p].result /\ disk' = disk
              /\ \/ fw' = fw /\ Place(p)' = Place(p)
                 \/ fw' = fw /\ Place(p) = "open" /\ Place(p)' = "borrowed"
                 \/ /\ fw' \in Images /\ Place(p) = "borrowed" /\ Place(p)' = "borrowed"
                    /\ tx[p].result = NoVersion
                 \/ /\ fw' = fw /\ Place(p) = "borrowed" /\ Place(p)' = "returned"
                    /\ tx[p].result # NoVersion
    BY <1>3, <1>4, <1>5, <1>6, <1>10
       DEF Transaction!Next, Transaction!vars, Transaction!In, Transaction!Borrow,
           Transaction!Write, Transaction!GiveBack, Seen, Stage
  <1>11. CASE /\ lock = p /\ lock' = p /\ Place(p) = "borrowed" /\ Place(p)' = "borrowed"
              /\ tx[p].result = NoVersion /\ tx'[p].result = fw /\ fw' = fw /\ disk' = disk
    BY <1>2, <1>4, <1>5, <1>6, <1>11
       DEF Transaction!Next, Transaction!In, Transaction!Read, Seen, Stage
  <1>12. CASE /\ lock = p /\ lock' = p /\ Place(p) = "returned" /\ Place(p)' = "recorded"
              /\ tx'[p].result = tx[p].result /\ disk' = tx[p].result /\ fw' = fw
    BY <1>3, <1>4, <1>5, <1>6, <1>12
       DEF Transaction!Next, Transaction!In, Transaction!Record, Seen, Stage
  <1>13. CASE /\ lock = p /\ lock' = Free /\ Place(p) = "returned"
              /\ tx'[p].result = tx[p].result /\ disk' = tx[p].result /\ fw' = fw
    BY <1>3, <1>4, <1>5, <1>6, <1>13
       DEF Transaction!Next, Transaction!In, Transaction!RecordInDoubt, Seen, Stage
  <1>14. CASE /\ lock = p /\ lock' = Free /\ tx'[p].result \in {tx[p].result, NoVersion}
              /\ fw' = fw /\ disk' = disk
    BY <1>2, <1>3, <1>4, <1>6, <1>14 DEF Transaction!Next, Transaction!End, Seen, Stage
  <1> QED
    BY <1>8, <1>9, <1>10, <1>11, <1>12, <1>13, <1>14 DEF Effect

\* The transaction of the updater, with OTBR, failures, crashes and any number
\* of runs, is the abstract one.
THEOREM TransactionIsImplemented == Spec => ImplementsTransaction
  <1>1. Init => SafeInv /\ (\A p \in Procs : SeenOK(p)) /\ Transaction!Init
    <2> SUFFICES ASSUME Init PROVE (\A p \in Procs : SeenOK(p)) /\ Transaction!Init
      BY SafeInit
    <2>1. \A p \in Procs : tx[p].result = NoVersion
      BY DEF Init, NoTx
    <2> QED
      BY <2>1 DEF Init, SeenOK, Transaction!Init
  <1>2. ASSUME SafeInv, \A p \in Procs : SeenOK(p), [Next]_vars
        PROVE /\ SafeInv' /\ (\A p \in Procs : SeenOK(p))'
              /\ [Transaction!Next]_(Transaction!vars)
    <2>0. TypeOK /\ PlanInv /\ LockInv /\ SafeInv' /\ LockInv'
      BY <1>2, SafeNext DEF SafeInv, TypeInv
    <2>1. CASE Environment \/ UNCHANGED vars
      <3>1. UNCHANGED <<pc, tx, lock, disk, fw>>
        BY <2>0, <2>1, EnvironmentStep DEF Environment, SupervisorSettles, AdministratorActs,
             DongleReenumerates, Reenumerates, radioVars, vars
      <3> QED
        BY <2>0, <3>1, <1>2 DEF SeenOK, Transaction!vars, Place
    <2>2. ASSUME NEW p \in Procs, Process(p)
          PROVE (\A q \in Procs : SeenOK(q))' /\ [Transaction!Next]_(Transaction!vars)
      <3>1. ASSUME NEW q \in Procs PROVE SeenOK(q)'
        <4>1. CASE q = p
          BY <1>2, <2>0, <2>2, <4>1, SeenStep
        <4>2. CASE q # p
          BY <1>2, <2>0, <2>2, <4>2, FrameStep DEF SeenOK
        <4> QED
          BY <4>1, <4>2
      <3>2. Effect(p)
        BY <1>2, <2>0, <2>2, EffectStep DEF PlanInv, LockInv
      <3>3. [Transaction!Next]_(Transaction!vars)
        BY <2>0, <2>2, <3>2, EffectImplements DEF LockInv
      <3> QED
        BY <3>1, <3>3
    <2> QED
      BY <2>0, <2>1, <2>2, <1>2 DEF Next
  <1> QED
    BY <1>1, <1>2, PTL DEF Spec, ImplementsTransaction, Transaction!Spec

=============================================================================
