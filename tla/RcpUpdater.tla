------------------------------ MODULE RcpUpdater ------------------------------
(***************************************************************************)
(* The transaction that every firmware operation goes through              *)
(* (app/updater.py), with the ownership hand-over of app/supervisor.py it  *)
(* wraps around the radio, the lock and the record of app/state.py, and    *)
(* the part of app/main.py that starts an operation and absorbs its        *)
(* outcome.  A process is one run of the add-on: its main thread is the    *)
(* only one that executes operations.  Processes share the add-on OTBR,    *)
(* the dongle, the lock file and the persisted record.                     *)
(*                                                                         *)
(* Every wait of the code polls until a deadline.  It is one step here:    *)
(* the condition was seen, or the deadline passed.  Every call to          *)
(* Supervisor, Spinel and nrfdfu may fail, with or without its effect.     *)
(***************************************************************************)
EXTENDS OtbrAddon, RcpDevice

CONSTANTS
  Procs,      \* runs of the add-on that may overlap
  Configs,    \* option sets a run may be started with
  Free,       \* the lock is not held
  NoVersion,  \* no identity is recorded
  Garbled     \* the record exists and cannot be read

ASSUME ProcsAssumption ==
  /\ Free \notin Procs
  /\ Configs \subseteq [safe_update : BOOLEAN, allow_legacy_rcp : BOOLEAN]
  /\ NoVersion \notin Identities
  /\ Garbled \notin Versions \cup {NoVersion}

VARIABLES
  lock,      \* holder of update.lock
  disk,      \* "installed" in state.json
  settings,  \* options each run was started with
  pc,        \* where each run is
  tx,        \* locals of the operation each run executes
  mem,       \* "installed" in the main loop's copy of the state
  due,       \* next_rescan is not None
  debt,      \* history: an OTBR the updater stopped is still to be restored
  claim      \* history: what the lock holder knows of the radio's ownership

otbrVars  == <<otbr, debt, claim>>
radioVars == <<mode, fw>>
mainVars  == <<settings, mem, due>>
vars == <<otbrVars, radioVars, mainVars, lock, disk, pc, tx>>

Kinds == {"latest", "prepared", "rescan"}

NoTx == [kind |-> "rescan", target |-> NoVersion, selected |-> FALSE,
         otbrWas |-> FALSE, was |-> FALSE, recovery |-> FALSE, retry |-> FALSE,
         attempts |-> 0, result |-> NoVersion, err |-> "none"]

TxType ==
  [kind : Kinds,
   target : Versions \cup {NoVersion},   \* package.ncs_version
   selected : BOOLEAN,                   \* selected_target
   otbrWas : BOOLEAN,                    \* otbr_was_running
   was : BOOLEAN,                        \* was_running
   recovery : BOOLEAN,                   \* before is None
   retry : BOOLEAN,                      \* the final reboot is still allowed
   attempts : 0..2,                      \* failed attempts to restore OTBR
   result : Identities \cup {NoVersion}, \* after / version
   err : {"none", "fault", "unreadable"}]

(***************************************************************************)
(* Regions of the transaction.                                             *)
(***************************************************************************)
HandshakePcs == {"stop", "stopwait"}
RadioPcs     == {"read", "recover", "select", "reset", "flash", "verify", "reboot"}
RestorePcs   == {"restore", "start", "startwait"}
BorrowingPcs == HandshakePcs \cup {"check"} \cup RadioPcs \cup RestorePcs
LockedPcs    == {"missing", "prepare", "quiet", "handover"} \cup BorrowingPcs
                  \cup {"health", "commit", "release"}
MainPcs      == {"down", "idle", "validate", "lock", "failed", "rescanned", "complete"}
Pcs          == LockedPcs \cup MainPcs

-----------------------------------------------------------------------------
(***************************************************************************)
(* Control flow shared by the steps.                                       *)
(***************************************************************************)
Goto(p, from, to) ==
  /\ pc[p] = from
  /\ pc' = [pc EXCEPT ![p] = to]

\* The handler of the main loop that receives what the operation raised.
Handler(p) == IF tx[p].kind = "rescan" THEN "rescanned" ELSE "failed"

\* Raised outside the with-block of temporarily_stop: the lock goes, and an
\* OTBR that was already asked to stop stays as it is.
Abort(p, from) ==
  /\ Goto(p, from, Handler(p))
  /\ tx' = [tx EXCEPT ![p].err = "fault"]
  /\ lock' = Free
  /\ claim' = "none"

\* Raised inside the with-block: its finally clause runs next.
Unwind(p, from, error) ==
  /\ Goto(p, from, "restore")
  /\ tx' = [tx EXCEPT ![p].err = error]

\* The with-block ends; an error found on the way is re-raised.
Leave(p, error) ==
  /\ tx' = [tx EXCEPT ![p].err = error]
  /\ claim' = "none"
  /\ IF tx[p].kind = "rescan" \/ error # "none"
     THEN /\ lock' = Free
          /\ pc' = [pc EXCEPT ![p] = Handler(p)]
     ELSE /\ UNCHANGED lock
          /\ pc' = [pc EXCEPT ![p] =
               IF settings[p].safe_update /\ tx[p].otbrWas THEN "health" ELSE "commit"]

\* A debt ends when OTBR runs again, whoever started it.
Settled(d) == IF otbr' = "started" THEN "none" ELSE d

\* Loading the record in the main loop discards one that cannot be read.
Loaded == IF disk = Garbled THEN NoVersion ELSE disk

-----------------------------------------------------------------------------
(***************************************************************************)
(* The main loop: a run starts, takes an operation, absorbs its outcome.   *)
(***************************************************************************)
Boot(p) ==
  /\ Goto(p, "down", "idle")
  /\ \E c \in Configs : settings' = [settings EXCEPT ![p] = c]
  /\ mem' = [mem EXCEPT ![p] = Loaded]
  /\ due' = [due EXCEPT ![p] = TRUE]
  /\ UNCHANGED <<otbrVars, radioVars, lock, disk, tx>>

\* MUTANT of PolicyTargetIsDowngrade: an unknown record does not fail closed.
UnknownIsDowngrade(target) == Loaded \in Versions => target < Loaded

\* The policy target is selected by itself when it is below the record.
PolicyTargetIsDowngrade(target) == Loaded \in Versions /\ target < Loaded

BeginInstall(p) ==
  /\ Goto(p, "idle", "validate")
  /\ mem' = [mem EXCEPT ![p] = Loaded]
  /\ \E kind \in {"latest", "prepared"}, v \in Versions :
       tx' = [tx EXCEPT ![p] = [NoTx EXCEPT !.kind = kind, !.target = v,
                !.selected = kind = "prepared" \/ PolicyTargetIsDowngrade(v)]]
  /\ UNCHANGED <<otbrVars, radioVars, settings, due, lock, disk>>

BeginRescan(p) ==
  /\ due[p]
  /\ Goto(p, "idle", "lock")
  /\ UNCHANGED <<otbrVars, radioVars, mainVars, lock, disk, tx>>

\* No release, a failed download, or an artifact that changed is rejected
\* before the lock is taken.
Validate(p) ==
  /\ \/ Goto(p, "validate", "lock") /\ UNCHANGED tx
     \/ Goto(p, "validate", "failed") /\ tx' = [tx EXCEPT ![p].err = "fault"]
  /\ UNCHANGED <<otbrVars, radioVars, mainVars, lock, disk>>

\* The periodic refresh of the main loop reads the record again.
Refresh(p) ==
  /\ pc[p] = "idle"
  /\ mem' = [mem EXCEPT ![p] = Loaded]
  /\ UNCHANGED <<otbrVars, radioVars, settings, due, lock, disk, pc, tx>>

\* MUTANT of Forgotten: a failed operation keeps the recorded identity.
Kept(p) == disk

\* The record without its identity; nothing is written when the main loop's
\* copy holds none.  A save that fails here ends the run, as Crash does.
Forgotten(p) == IF mem[p] = NoVersion THEN disk ELSE NoVersion

Failed(p) ==
  /\ Goto(p, "failed", "idle")
  /\ tx' = [tx EXCEPT ![p] = NoTx]
  /\ disk' = Forgotten(p)
  /\ mem' = [mem EXCEPT ![p] = NoVersion]
  /\ due' = [due EXCEPT ![p] = TRUE]
  /\ UNCHANGED <<otbrVars, radioVars, settings, lock>>

Complete(p) ==
  /\ Goto(p, "complete", "idle")
  /\ tx' = [tx EXCEPT ![p] = NoTx]
  /\ mem' = [mem EXCEPT ![p] = Loaded]
  /\ due' = [due EXCEPT ![p] = FALSE]
  /\ UNCHANGED <<otbrVars, radioVars, settings, lock, disk>>

\* RescanDeferred keeps the record and tries again later; SpinelError,
\* StateError or incomplete tags forget it; a complete identity replaces it.
\* The main loop then reads the record again.
Rescanned(p) ==
  /\ Goto(p, "rescanned", "idle")
  /\ tx' = [tx EXCEPT ![p] = NoTx]
  /\ due' = [due EXCEPT ![p] = tx[p].err = "fault"]
  /\ disk' = CASE tx[p].err = "fault" -> disk
               [] tx[p].err = "none" /\ tx[p].result \in Versions -> tx[p].result
               [] OTHER -> Forgotten(p)
  /\ mem' = [mem EXCEPT ![p] = IF disk' = Garbled THEN NoVersion ELSE disk']
  /\ UNCHANGED <<otbrVars, radioVars, settings, lock>>

-----------------------------------------------------------------------------
(***************************************************************************)
(* Before the with-block: the lock, a missing dongle, the safety window.   *)
(***************************************************************************)
\* MUTANT of LockIsFree: the lock is opened and never waited for.
LockIgnored == TRUE

LockIsFree == lock = Free

AcquireLock(p) ==
  \/ /\ LockIsFree
     /\ Goto(p, "lock", IF tx[p].kind = "rescan" THEN "prepare" ELSE "missing")
     /\ lock' = p
     /\ UNCHANGED <<otbrVars, radioVars, mainVars, disk, tx>>
  \/ /\ ~LockIsFree
     /\ Goto(p, "lock", Handler(p))
     /\ tx' = [tx EXCEPT ![p].err = "unreadable"]
     /\ UNCHANGED <<otbrVars, radioVars, mainVars, lock, disk>>

\* Recovery of a dongle found in its bootloader.
RecoveryAllowed(p) == settings[p].allow_legacy_rcp \/ tx[p].selected

CheckMissing(p) ==
  \/ /\ DevicePresent
     /\ Goto(p, "missing", "prepare")
     /\ UNCHANGED <<otbrVars, radioVars, mainVars, lock, disk, tx>>
  \/ /\ ~DevicePresent /\ RecoveryAllowed(p) /\ DfuPresent
     /\ Goto(p, "missing", "prepare")
     /\ tx' = [tx EXCEPT ![p].recovery = TRUE]
     /\ UNCHANGED <<otbrVars, radioVars, mainVars, lock, disk>>
  \/ /\ ~DevicePresent
     /\ Abort(p, "missing")
     /\ UNCHANGED <<otbr, debt, radioVars, mainVars, disk>>

\* A transitional OTBR is refused; a running one must prove quiet.
PrepareSafeUpdate(p) ==
  /\ UNCHANGED <<otbr, debt, radioVars, mainVars, disk>>
  /\ \/ /\ ~settings[p].safe_update \/ Stopped
        /\ Goto(p, "prepare", "handover")
        /\ UNCHANGED <<claim, lock, tx>>
     \/ /\ settings[p].safe_update /\ Running
        /\ Goto(p, "prepare", "quiet")
        /\ UNCHANGED <<claim, lock, tx>>
     \/ settings[p].safe_update /\ Abort(p, "prepare")

\* Two reads of the management actions around the idle window; OTBR answers
\* them only while it runs.
QuietWindow(p) ==
  /\ UNCHANGED <<otbr, debt, radioVars, mainVars, disk>>
  /\ \/ /\ Running
        /\ Goto(p, "quiet", "handover")
        /\ tx' = [tx EXCEPT ![p].otbrWas = TRUE]
        /\ UNCHANGED <<claim, lock>>
     \/ Abort(p, "quiet")

-----------------------------------------------------------------------------
(***************************************************************************)
(* temporarily_stop: the hand-over of the radio and its restoration.       *)
(***************************************************************************)
\* Only a running add-on is asked to stop; any other state passes as stopped.
Handover(p) ==
  /\ UNCHANGED <<otbr, debt, radioVars, mainVars, disk>>
  /\ \/ /\ Goto(p, "handover", IF Running THEN "stop" ELSE "check")
        /\ tx' = [tx EXCEPT ![p].was = Running]
        /\ claim' = IF Running THEN "none" ELSE IF Stopped THEN "held" ELSE "transitional"
        /\ UNCHANGED lock
     \/ Abort(p, "handover")

\* The request may be honoured and its answer lost.
StopOtbr(p) ==
  /\ UNCHANGED <<radioVars, mainVars, disk>>
  /\ \/ /\ StopTakesEffect
        /\ Goto(p, "stop", "stopwait")
        /\ debt' = "owed"
        /\ UNCHANGED <<claim, lock, tx>>
     \/ /\ otbr \notin {"startup", "started"}
        /\ Goto(p, "stop", "stopwait")
        /\ UNCHANGED <<otbrVars, lock, tx>>
     \/ /\ StopTakesEffect
        /\ Abort(p, "stop")
        /\ debt' = "handshake"
     \/ /\ Abort(p, "stop")
        /\ UNCHANGED <<otbr, debt>>

\* MUTANT of StopConfirmed: an add-on that no longer runs counts as stopped.
NotRunning == ~Running

StopConfirmed == Stopped

AwaitStopped(p) ==
  /\ UNCHANGED <<otbr, radioVars, mainVars, disk>>
  /\ \/ /\ StopConfirmed
        /\ Goto(p, "stopwait", "check")
        /\ claim' = "held"
        /\ UNCHANGED <<debt, lock, tx>>
     \/ /\ Abort(p, "stopwait")
        /\ debt' = IF debt = "owed" THEN "handshake" ELSE debt

CheckUnchanged(p) ==
  /\ UNCHANGED <<otbrVars, radioVars, mainVars, lock, disk>>
  /\ IF settings[p].safe_update /\ tx[p].was # tx[p].otbrWas
     THEN Unwind(p, "check", "fault")
     ELSE /\ Goto(p, "check", IF tx[p].recovery THEN "flash" ELSE "read")
          /\ UNCHANGED tx

\* MUTANT of AttemptsLeft: one attempt too many.
OneMoreAttempt(p) == tx[p].attempts <= 2

AttemptsLeft(p) == tx[p].attempts < 2

\* One of three attempts is over; after the third the failure is raised, or
\* noted on the error that is already on its way.
AttemptFails(p) ==
  IF AttemptsLeft(p)
  THEN /\ pc' = [pc EXCEPT ![p] = "restore"]
       /\ tx' = [tx EXCEPT ![p].attempts = @ + 1]
       /\ UNCHANGED <<lock, claim>>
  ELSE Leave(p, IF tx[p].err = "none" THEN "fault" ELSE tx[p].err)

\* What is owed when the attempts are used up stays owed.
Defaulted(p, d) == IF ~AttemptsLeft(p) /\ d = "owed" THEN "restore" ELSE d

\* MUTANT of MustRestore: OTBR is restored only after a success.
RestoreOnSuccess(p) == tx[p].was /\ tx[p].err = "none"

MustRestore(p) == tx[p].was

RestoreOtbr(p) ==
  /\ pc[p] = "restore"
  /\ UNCHANGED <<otbr, radioVars, mainVars, disk>>
  /\ \/ /\ ~MustRestore(p) \/ Running
        /\ Leave(p, tx[p].err)
        /\ UNCHANGED debt
     \/ /\ MustRestore(p) /\ ~Running
        /\ pc' = [pc EXCEPT ![p] = "start"]
        /\ UNCHANGED <<debt, claim, lock, tx>>
     \/ /\ MustRestore(p)
        /\ AttemptFails(p)
        /\ debt' = Defaulted(p, debt)

StartOtbr(p) ==
  /\ pc[p] = "start"
  /\ UNCHANGED <<radioVars, mainVars, disk>>
  /\ \/ StartTakesEffect \/ UNCHANGED otbr
  /\ \/ /\ pc' = [pc EXCEPT ![p] = "startwait"]
        /\ debt' = Settled(debt)
        /\ UNCHANGED <<claim, lock, tx>>
     \/ /\ AttemptFails(p)
        /\ debt' = Defaulted(p, Settled(debt))

AwaitStarted(p) ==
  /\ pc[p] = "startwait"
  /\ UNCHANGED <<otbr, radioVars, mainVars, disk>>
  /\ \/ Running /\ Leave(p, tx[p].err) /\ UNCHANGED debt
     \/ AttemptFails(p) /\ debt' = Defaulted(p, debt)

-----------------------------------------------------------------------------
(***************************************************************************)
(* Inside the with-block: the radio belongs to the updater.                *)
(***************************************************************************)
\* What _validate_current_ncp refuses to replace.
Rejected(p, identity) ==
  \/ identity = Unsupported
  \/ identity = Legacy /\ ~settings[p].allow_legacy_rcp
  \/ identity \in Versions /\ tx[p].target < identity /\ ~tx[p].selected

\* get_ncp_version answers only while the application is up, and may fail.
ReadVersion(p) ==
  /\ UNCHANGED <<otbrVars, radioVars, mainVars, lock, disk>>
  /\ \/ /\ tx[p].kind = "rescan"
        /\ \/ /\ DevicePresent
              /\ Goto(p, "read", "restore")
              /\ tx' = [tx EXCEPT ![p].result = fw]
           \/ Unwind(p, "read", "unreadable")
     \/ /\ tx[p].kind # "rescan"
        /\ \/ /\ DevicePresent /\ Rejected(p, fw)
              /\ Unwind(p, "read", "fault")
           \/ /\ DevicePresent /\ ~Rejected(p, fw) /\ fw = tx[p].target
              /\ Goto(p, "read", "restore")
              /\ tx' = [tx EXCEPT ![p].result = fw]
           \/ /\ DevicePresent /\ ~Rejected(p, fw) /\ fw # tx[p].target
              /\ Goto(p, "read", "select")
              /\ UNCHANGED tx
           \/ /\ Goto(p, "read", "recover")
              /\ UNCHANGED tx

\* The RCP did not answer: only a bootloader on the selected path will do.
RecoverBootloader(p) ==
  /\ UNCHANGED <<otbrVars, radioVars, mainVars, lock, disk>>
  /\ \/ /\ RecoveryAllowed(p) /\ DfuPresent
        /\ Goto(p, "recover", "flash")
        /\ tx' = [tx EXCEPT ![p].recovery = TRUE]
     \/ Unwind(p, "recover", "fault")

\* Binds the bootloader to come to the USB path of the running application.
SelectTarget(p) ==
  /\ UNCHANGED <<otbrVars, radioVars, mainVars, lock, disk>>
  /\ \/ /\ DevicePresent
        /\ Goto(p, "select", "reset")
        /\ UNCHANGED tx
     \/ Unwind(p, "select", "fault")

ResetBootloader(p) ==
  /\ UNCHANGED <<otbrVars, mainVars, lock, disk>>
  /\ \/ /\ Goto(p, "reset", "flash")
        /\ Reenumerates
        /\ UNCHANGED tx
     \/ Unwind(p, "reset", "unreadable") /\ UNCHANGED radioVars

\* A finished transfer is verified whatever nrfdfu returned; one that never
\* started or was killed at its deadline fails the operation.
Flash(p) ==
  /\ UNCHANGED <<otbrVars, mainVars, lock, disk>>
  /\ \/ /\ DfuPresent /\ Transfer(tx[p].target)
        /\ Goto(p, "flash", "verify")
        /\ tx' = [tx EXCEPT ![p].retry = TRUE]
     \/ /\ \/ UNCHANGED radioVars
           \/ DfuPresent /\ Transfer(tx[p].target)
        /\ Unwind(p, "flash", "fault")

\* MUTANT of VerifyRelease: the exit status of nrfdfu is taken for evidence.
TrustExitStatus(p) ==
  /\ UNCHANGED <<otbrVars, radioVars, mainVars, lock, disk>>
  /\ Goto(p, "verify", "restore")
  /\ tx' = [tx EXCEPT ![p].result = tx[p].target]

\* Polls for the requested identity; at the deadline a target that is still
\* in its bootloader is rebooted once.
VerifyRelease(p) ==
  /\ UNCHANGED <<otbrVars, radioVars, mainVars, lock, disk>>
  /\ \/ /\ DevicePresent /\ fw = tx[p].target
        /\ Goto(p, "verify", "restore")
        /\ tx' = [tx EXCEPT ![p].result = fw]
     \/ /\ tx[p].retry /\ DfuPresent
        /\ Goto(p, "verify", "reboot")
        /\ UNCHANGED tx
     \/ Unwind(p, "verify", "fault")

\* MUTANT of RebootApplication: the reboot may be asked for again and again.
RebootAgain(p) ==
  /\ UNCHANGED <<otbrVars, mainVars, lock, disk>>
  /\ \/ /\ Goto(p, "reboot", "verify")
        /\ Reenumerates
        /\ UNCHANGED tx
     \/ /\ Unwind(p, "reboot", "fault")
        /\ Reenumerates

RebootApplication(p) ==
  /\ UNCHANGED <<otbrVars, mainVars, lock, disk>>
  /\ \/ /\ Goto(p, "reboot", "verify")
        /\ Reenumerates
        /\ tx' = [tx EXCEPT ![p].retry = FALSE]
     \/ /\ Unwind(p, "reboot", "fault")
        /\ Reenumerates

-----------------------------------------------------------------------------
(***************************************************************************)
(* After the with-block: OTBR health and the durable record.               *)
(***************************************************************************)
RequireOtbrHealthy(p) ==
  /\ UNCHANGED <<otbr, debt, radioVars, mainVars, disk>>
  /\ \/ /\ Running
        /\ Goto(p, "health", "commit")
        /\ UNCHANGED <<claim, lock, tx>>
     \/ Abort(p, "health")

\* The record is loaded before it is updated: one that cannot be read fails
\* the operation, and so does a save that raises, before it has replaced the
\* file or, when the directory cannot be synchronized, after.
Commit(p) ==
  /\ UNCHANGED <<otbr, debt, radioVars, mainVars>>
  /\ \/ /\ disk # Garbled
        /\ Goto(p, "commit", "release")
        /\ disk' = tx[p].result
        /\ UNCHANGED <<claim, lock, tx>>
     \/ /\ Abort(p, "commit")
        /\ \/ UNCHANGED disk
           \/ disk # Garbled /\ disk' = tx[p].result

ReleaseLock(p) ==
  /\ Goto(p, "release", "complete")
  /\ lock' = Free
  /\ UNCHANGED <<otbrVars, radioVars, mainVars, disk, tx>>

-----------------------------------------------------------------------------
(***************************************************************************)
(* What happens around the code.                                           *)
(***************************************************************************)
\* A run is killed or dies: the kernel drops its lock, memory is lost.
Crash(p) ==
  /\ pc[p] # "down"
  /\ pc' = [pc EXCEPT ![p] = "down"]
  /\ tx' = [tx EXCEPT ![p] = NoTx]
  /\ mem' = [mem EXCEPT ![p] = NoVersion]
  /\ due' = [due EXCEPT ![p] = FALSE]
  /\ lock' = IF lock = p THEN Free ELSE lock
  /\ claim' = IF lock = p THEN "none" ELSE claim
  /\ debt' = IF lock = p /\ debt = "owed" THEN "crash" ELSE debt
  /\ UNCHANGED <<otbr, radioVars, settings, disk>>

\* Supervisor completes a start or stop.
SupervisorSettles ==
  /\ OtbrSettles
  /\ debt' = Settled(debt)
  /\ UNCHANGED <<claim, radioVars, mainVars, lock, disk, pc, tx>>

\* An administrator starts or stops OTBR in Home Assistant.
AdministratorActs ==
  /\ \/ /\ StartTakesEffect
        /\ debt' = Settled(debt)
        /\ claim' = IF claim = "held" THEN "lost" ELSE claim
     \/ StopTakesEffect /\ UNCHANGED <<debt, claim>>
  /\ UNCHANGED <<radioVars, mainVars, lock, disk, pc, tx>>

\* The dongle is replugged, resets itself or leaves its bootloader.
DongleReenumerates ==
  /\ Reenumerates
  /\ UNCHANGED <<otbrVars, mainVars, lock, disk, pc, tx>>

-----------------------------------------------------------------------------
Init ==
  /\ otbr \in OtbrStates \ {"stopping"}
  /\ mode \in Modes /\ fw \in Images /\ RadioOK
  /\ disk \in ({fw} \cap Versions) \cup {NoVersion, Garbled}
  /\ lock = Free /\ debt = "none" /\ claim = "none"
  /\ settings \in [Procs -> Configs]
  /\ pc = [p \in Procs |-> "down"]
  /\ tx = [p \in Procs |-> NoTx]
  /\ mem = [p \in Procs |-> NoVersion]
  /\ due = [p \in Procs |-> FALSE]

\* The steps of an operation that has begun.
Step(p) ==
  \/ Validate(p) \/ AcquireLock(p) \/ CheckMissing(p)
  \/ PrepareSafeUpdate(p) \/ QuietWindow(p)
  \/ Handover(p) \/ StopOtbr(p) \/ AwaitStopped(p) \/ CheckUnchanged(p)
  \/ ReadVersion(p) \/ RecoverBootloader(p) \/ SelectTarget(p) \/ ResetBootloader(p)
  \/ Flash(p) \/ VerifyRelease(p) \/ RebootApplication(p)
  \/ RestoreOtbr(p) \/ StartOtbr(p) \/ AwaitStarted(p)
  \/ RequireOtbrHealthy(p) \/ Commit(p) \/ ReleaseLock(p)
  \/ Failed(p) \/ Rescanned(p) \/ Complete(p)

Process(p) == Boot(p) \/ BeginInstall(p) \/ BeginRescan(p) \/ Refresh(p) \/ Step(p) \/ Crash(p)

Environment == SupervisorSettles \/ AdministratorActs \/ DongleReenumerates

Next == Environment \/ \E p \in Procs : Process(p)

\* The main thread runs whenever it is not waiting, and every wait of an
\* operation has a deadline; nothing is assumed of anybody else.
Fairness == \A p \in Procs : WF_vars(Step(p))

Spec == Init /\ [][Next]_vars /\ Fairness

-----------------------------------------------------------------------------
(***************************************************************************)
(* Properties.                                                             *)
(***************************************************************************)
\* Every variable stays in its range; a broken image never runs.
TypeOK ==
  /\ otbr \in OtbrStates
  /\ RadioOK
  /\ lock \in Procs \cup {Free}
  /\ disk \in Versions \cup {NoVersion, Garbled}
  /\ settings \in [Procs -> Configs]
  /\ pc \in [Procs -> Pcs]
  /\ tx \in [Procs -> TxType]
  /\ mem \in [Procs -> Versions \cup {NoVersion}]
  /\ due \in [Procs -> BOOLEAN]
  /\ debt \in {"none", "owed", "handshake", "restore", "crash"}
  /\ claim \in {"none", "held", "transitional", "lost"}

\* Two runs of the add-on are never both inside the transaction, crashes and
\* restarts included (update_lock spans preflight to durable record).
OneTransaction ==
  \A p, q \in Procs : pc[p] \in LockedPcs /\ pc[q] \in LockedPcs => p = q

\* While the updater talks to the dongle, OTBR, which owns the same serial
\* port, is stopped; the exceptions are an administrator who starts it in the
\* meantime ("lost") and an add-on that was starting or in error when
\* temporarily_stop looked at it ("transitional").
RadioOwnership ==
  \A p \in Procs : pc[p] \in RadioPcs => claim # "none" /\ (claim = "held" => Stopped)

\* An OTBR that the updater stopped is either still borrowed by a
\* transaction, running again, or accounted for: the stop was never
\* confirmed, three attempts to restore it failed, or the run was killed.
NoForgottenOutage ==
  debt = "owed" => \E p \in Procs : pc[p] \in BorrowingPcs

\* With one run of the add-on, a recorded version that is not what the dongle
\* holds is on its way out: the transaction that changed the dongle has not
\* ended, or a rescan is due, or the add-on is down and its next start
\* schedules one.
RecordCurrent ==
  disk \in Versions /\ disk # fw =>
    \E p \in Procs :
      \/ pc[p] \in {"down", "verify", "reboot", "health", "commit", "failed"} \cup RestorePcs
      \/ due[p]

\* An install records only the identity the dongle runs at that moment, and
\* only after the OTBR it stopped was given back.
RecordedIsVerified ==
  [][\A p \in Procs : pc[p] = "commit" /\ pc'[p] = "release" => disk' = fw /\ debt # "owed"]_vars

Authorized(p) ==
  \/ tx[p].kind = "prepared"
  \/ mem[p] \in Versions /\ tx[p].target < mem[p]
  \/ tx[p].recovery /\ settings[p].allow_legacy_rcp

\* The native update entity never lowers the version in the dongle unless the
\* record the operation started from was above the target, or legacy recovery
\* was enabled and the dongle was found in its bootloader.
NativeDowngradeNeedsRecord ==
  [][\A p \in Procs :
       pc[p] = "flash" /\ {fw, fw'} \subseteq Versions /\ fw' < fw => Authorized(p)]_vars

\* Every operation ends: all its waits have deadlines and its retries bounds.
OperationsEnd ==
  \A p \in Procs : pc[p] \notin {"idle", "down"} ~> pc[p] \in {"idle", "down"}

\* How far a run that holds the lock is.
Place(p) ==
  CASE pc[p] \in {"check"} \cup RadioPcs \cup RestorePcs -> "borrowed"
    [] pc[p] \in {"health", "commit"} -> "returned"
    [] pc[p] = "release" -> "recorded"
    [] OTHER -> "open"

\* Seen from outside, all of it is one run at a time that borrows the radio,
\* writes, reads, gives back and records what it has read.
Transaction == INSTANCE FirmwareTransaction WITH
  Unknown <- NoVersion, holder <- lock, image <- fw, record <- disk,
  stage <- IF lock = Free THEN "none" ELSE Place(lock),
  seen <- [p \in Procs |-> tx[p].result]

ImplementsTransaction == Transaction!Spec

(***************************************************************************)
(* Promises of the repository that the code does not keep.  Each is        *)
(* checked by a run of its own that finds the counterexample.              *)
(***************************************************************************)
\* supervisor.py:55, "Stop OTBR once and restore it exactly once even when
\* flashing fails": no OTBR stays down because its stop went unconfirmed.
StoppedIsRestored == debt # "handshake"

\* updater.py:668, "Confirm OTBR is safely idle, or already offline for
\* maintenance": with safe_update the dongle is never touched while OTBR was
\* starting or in error when it was handed over.
HandoverIsStable ==
  \A p \in Procs :
    settings[p].safe_update /\ pc[p] \in RadioPcs => claim # "transitional"

=============================================================================
