------------------------------- MODULE Ingress -------------------------------
(***************************************************************************)
(* The Ingress API of app/ingress.py: handler threads validate firmware    *)
(* into temporary files, a registry owns those files until one flash       *)
(* request consumes them, a reaper expires the abandoned ones, and the     *)
(* main thread (app/main.py) flashes and discards what was accepted.       *)
(*                                                                         *)
(* The controller between them is the single slot of OperationSlot, which  *)
(* OperationController implements.  The registry holds its lock from the   *)
(* beginning to the end of a method, so that a method is one step; a       *)
(* handler is interrupted between any two of them.                         *)
(***************************************************************************)
EXTENDS Naturals, FiniteSets

CONSTANTS
  Uploads,   \* artifacts with a temporary file: an upload or a download
  Natives,   \* artifacts of the release list, which have no temporary file
  Requests,  \* POST /api/flash requests, each with the identifier of submit
  Installs,  \* MQTT install commands
  NoOp,      \* no command
  NoArtifact,
  MaxStaged  \* _MAX_STAGED_ARTIFACTS

ASSUME ArtifactAssumption ==
  /\ Uploads \cap Natives = {} /\ Requests \cap Installs = {}
  /\ NoArtifact \notin Uploads \cup Natives
  /\ NoOp \notin Requests \cup Installs
ASSUME LimitAssumption == MaxStaged \in Nat \ {0}

VARIABLES
  slot, phase, executed,  \* the controller
  validation,  \* where the handler that validates an artifact is
  request,     \* where the handler of a flash request is
  artifactOf,  \* the artifact a flash request has claimed
  entry,       \* _entries: absent, staged, or claimed
  old,         \* artifacts whose staging window is over
  files,       \* temporary files
  worker,      \* where the main thread is with an operation
  hands,       \* the operation the main thread has taken
  life,        \* how far the run has come to its end
  tty,         \* the dongle shows its serial device, not its bootloader
  endpoint     \* who has the bootloader's endpoint open

slotVars == <<slot, phase, executed>>
registryVars == <<entry, old, files>>
requestVars == <<request, artifactOf>>
workerVars == <<worker, hands>>
radioVars == <<tty, endpoint>>
vars == <<slotVars, registryVars, requestVars, workerVars, radioVars, validation, life>>

Artifacts == Uploads \cup Natives
Ops == Requests \cup Installs
Slot == INSTANCE OperationSlot

\* Requests reach a handler until the server is shut down.
Serving == life \in {"on", "signalled", "left"}
Alive == life # "ended"

-----------------------------------------------------------------------------
(***************************************************************************)
(* The registry.                                                           *)
(***************************************************************************)
\* MUTANT of Expired: a claim does not hold the entry.
ExpiredThoughClaimed(e) == {a \in Artifacts : e[a] # "absent" /\ a \in old}

Expired(e) == {a \in Artifacts : e[a] = "staged" /\ a \in old}

\* Every look at the registry but release_claim and consume begins with this.
Swept == [a \in Artifacts |-> IF a \in Expired(entry) THEN "absent" ELSE entry[a]]

Registered(e) == {a \in Artifacts : e[a] # "absent"}

\* MUTANT of Full: one too many.
OverFull(e) == Cardinality(Registered(e)) > MaxStaged

Full(e) == Cardinality(Registered(e)) >= MaxStaged

\* The reaper thread, and every GET of the API.
Expire ==
  /\ Alive /\ Expired(entry) # {}
  /\ entry' = Swept
  /\ files' = files \ Expired(entry)
  /\ UNCHANGED <<slotVars, requestVars, workerVars, radioVars, validation, life, old>>

\* Fifteen minutes after stage; claim and release_claim leave the time alone.
Age(a) ==
  /\ Alive /\ entry[a] # "absent" /\ a \notin old
  /\ old' = old \cup {a}
  /\ UNCHANGED <<slotVars, requestVars, workerVars, radioVars, validation, life, entry, files>>

-----------------------------------------------------------------------------
(***************************************************************************)
(* A handler that validates an artifact.                                   *)
(***************************************************************************)
ValidationGoes(a, from, to) ==
  Alive /\ validation[a] = from /\ validation' = [validation EXCEPT ![a] = to]

\* _require_idle looks once, at the beginning.
Validate(a) ==
  /\ Serving /\ slot = NoOp
  /\ ValidationGoes(a, "none", "checked")
  /\ UNCHANGED <<slotVars, registryVars, requestVars, workerVars, radioVars, life>>

\* The body or the download is complete and the ELF is sound, or what was
\* written is removed.
Store(a) ==
  /\ \/ ValidationGoes(a, "checked", "stored") /\ files' = files \cup ({a} \cap Uploads)
     \/ ValidationGoes(a, "checked", "over") /\ UNCHANGED files
  /\ UNCHANGED <<slotVars, requestVars, workerVars, radioVars, life, entry, old>>

\* preflight without the serial device opens the bootloader, with nrfdfu.
Probe(a) ==
  /\ ValidationGoes(a, "stored", "probing")
  /\ ~tty /\ endpoint = "free" /\ endpoint' = "preflight"
  /\ UNCHANGED <<slotVars, registryVars, requestVars, workerVars, life, tty>>

\* The other checks, and a serial device that came or an endpoint that is
\* taken.  The file of what is not ready is removed.
Preflight(a) ==
  /\ \/ validation[a] = "probing" /\ endpoint' = "free"
     \/ validation[a] = "stored" /\ UNCHANGED endpoint
  /\ \/ /\ validation[a] = "probing" \/ tty
        /\ ValidationGoes(a, validation[a], "ready")
        /\ UNCHANGED files
     \/ /\ ValidationGoes(a, validation[a], "over")
        /\ files' = files \ {a}
  /\ UNCHANGED <<slotVars, requestVars, workerVars, life, entry, old, tty>>

\* stage; the file of an artifact for which there is no place is removed.
Stage(a) ==
  /\ ValidationGoes(a, "ready", "over")
  /\ IF Full(Swept)
     THEN /\ entry' = Swept
          /\ files' = files \ (Expired(entry) \cup {a})
     ELSE /\ entry' = [Swept EXCEPT ![a] = "staged"]
          /\ files' = files \ Expired(entry)
  /\ UNCHANGED <<slotVars, requestVars, workerVars, radioVars, life, old>>

-----------------------------------------------------------------------------
(***************************************************************************)
(* A handler of POST /api/flash: claim, submit, then consume or            *)
(* release_claim.                                                          *)
(***************************************************************************)
RequestGoes(r, from, to) ==
  Alive /\ request[r] = from /\ request' = [request EXCEPT ![r] = to]

\* MUTANT of Claimable: an artifact that is being flashed can be claimed.
RegisteredIsClaimable(a) == Swept[a] # "absent"

Claimable(a) == Swept[a] = "staged"

Claim(r, a) ==
  /\ Serving
  /\ IF Claimable(a)
     THEN /\ RequestGoes(r, "new", "claimed")
          /\ entry' = [Swept EXCEPT ![a] = "claimed"]
          /\ artifactOf' = [artifactOf EXCEPT ![r] = a]
     ELSE /\ RequestGoes(r, "new", "over")
          /\ entry' = Swept
          /\ UNCHANGED artifactOf
  /\ files' = files \ Expired(entry)
  /\ UNCHANGED <<slotVars, workerVars, radioVars, validation, life, old>>

\* The token of wake may refuse a command after a signal.
SubmitClaimed(r) ==
  /\ \/ RequestGoes(r, "claimed", "accepted") /\ Slot!Accept(r)
     \/ RequestGoes(r, "claimed", "refused") /\ slot # NoOp /\ UNCHANGED slotVars
     \/ RequestGoes(r, "claimed", "refused") /\ life # "on" /\ Slot!Forget
  /\ UNCHANGED <<registryVars, artifactOf, workerVars, radioVars, validation, life>>

\* MUTANT of ReleaseClaim: a refused command keeps its claim.
KeepClaim(r) ==
  /\ RequestGoes(r, "refused", "over")
  /\ UNCHANGED <<slotVars, registryVars, artifactOf, workerVars, radioVars, validation, life>>

ReleaseClaim(r) ==
  /\ RequestGoes(r, "refused", "over")
  /\ entry' = [a \in Artifacts |->
                IF a = artifactOf[r] /\ entry[a] = "claimed" THEN "staged" ELSE entry[a]]
  /\ UNCHANGED <<slotVars, artifactOf, workerVars, radioVars, validation, life, old, files>>

\* The file now belongs to the command.
Consume(r) ==
  /\ RequestGoes(r, "accepted", "over")
  /\ entry' = [entry EXCEPT ![artifactOf[r]] = "absent"]
  /\ UNCHANGED <<slotVars, artifactOf, workerVars, radioVars, validation, life, old, files>>

\* The other way to the slot.
Install(i) ==
  /\ Alive /\ Slot!Accept(i)
  /\ UNCHANGED <<registryVars, requestVars, workerVars, radioVars, validation, life>>

-----------------------------------------------------------------------------
(***************************************************************************)
(* The main thread.                                                        *)
(***************************************************************************)
WorkerGoes(from, to) == Alive /\ worker = from /\ worker' = to

Begin ==
  /\ life = "on" /\ WorkerGoes("loop", "run")
  /\ Slot!Execute /\ hands' = slot
  /\ UNCHANGED <<registryVars, requestVars, radioVars, validation, life>>

\* The updater sends the dongle to its bootloader, or finds it there.
EnterDfu ==
  /\ WorkerGoes("run", "dfu")
  /\ tty' = FALSE
  /\ UNCHANGED <<slotVars, registryVars, requestVars, validation, life, hands, endpoint>>

\* nrfdfu takes the endpoint for itself, and fails when it cannot.
\* _wait_for_dfu_target probes until a probe is answered; those that are not
\* change nothing, and are not steps.
ProbeTarget ==
  /\ WorkerGoes("dfu", "probing")
  /\ endpoint = "free" /\ endpoint' = "probe"
  /\ UNCHANGED <<slotVars, registryVars, requestVars, validation, life, hands, tty>>

ProbeEnds ==
  /\ WorkerGoes("probing", "probed")
  /\ endpoint' = "free"
  /\ UNCHANGED <<slotVars, registryVars, requestVars, validation, life, hands, tty>>

\* One attempt, at the endpoint that answered the probe.
Transfer ==
  /\ IF endpoint = "free"
     THEN WorkerGoes("probed", "transfer") /\ endpoint' = "transfer"
     ELSE WorkerGoes("probed", "refused") /\ UNCHANGED endpoint
  /\ UNCHANGED <<slotVars, registryVars, requestVars, validation, life, hands, tty>>

TransferEnds ==
  /\ WorkerGoes("transfer", "flashed")
  /\ endpoint' = "free"
  /\ tty' \in BOOLEAN
  /\ UNCHANGED <<slotVars, registryVars, requestVars, validation, life, hands>>

\* complete or fail.  The deadline of the probes and an nrfdfu that does not
\* start end the operation; after a refused transfer the dongle may be told to
\* reboot, and may have had the firmware before.
Settle ==
  /\ \/ worker \in {"run", "flashed"} /\ (Slot!Succeed \/ Slot!Fail) /\ UNCHANGED tty
     \/ worker \in {"dfu", "probed"} /\ Slot!Fail /\ tty' \in BOOLEAN
     \/ worker = "refused" /\ (Slot!Succeed \/ Slot!Fail) /\ tty' \in BOOLEAN
  /\ WorkerGoes(worker, "discard")
  /\ UNCHANGED <<registryVars, requestVars, validation, life, hands, endpoint>>

\* discard_operation_artifact
Discarded == IF hands \in Requests THEN {artifactOf[hands]} ELSE {}

\* MUTANT of Discard: the file of a flashed artifact is left.
LeaveFile ==
  /\ WorkerGoes("discard", "loop")
  /\ hands' = NoOp
  /\ UNCHANGED <<slotVars, registryVars, requestVars, radioVars, validation, life>>

Discard ==
  /\ WorkerGoes("discard", "loop")
  /\ files' = files \ Discarded
  /\ hands' = NoOp
  /\ UNCHANGED <<slotVars, requestVars, radioVars, validation, life, entry, old>>

\* A command that next returns after the signal.
CancelQueued ==
  /\ life = "signalled" /\ phase = "queued" /\ WorkerGoes("loop", "cancelled")
  /\ Slot!Fail /\ hands' = slot
  /\ UNCHANGED <<registryVars, requestVars, radioVars, validation, life>>

\* break, after the file of the cancelled command was discarded.
LeaveCancelled ==
  /\ WorkerGoes("cancelled", "loop")
  /\ files' = files \ Discarded
  /\ hands' = NoOp /\ life' = "left"
  /\ UNCHANGED <<slotVars, requestVars, radioVars, validation, entry, old>>

LeaveLoop ==
  /\ life = "signalled" /\ WorkerGoes("loop", "loop")
  /\ life' = "left"
  /\ UNCHANGED <<slotVars, registryVars, requestVars, radioVars, validation, hands>>

\* An error nothing in the loop catches: of the idle chores, or of the save
\* that records a failed operation, whose file is discarded all the same.
Fail ==
  /\ life \in {"on", "signalled"}
  /\ worker \in {"loop", "run", "dfu", "probed", "refused", "flashed"} /\ worker' = "loop"
  /\ life' = "left"
  /\ files' = files \ Discarded
  /\ hands' = NoOp
  /\ UNCHANGED <<slotVars, requestVars, radioVars, validation, entry, old>>

Signal ==
  /\ life = "on" /\ life' = "signalled"
  /\ UNCHANGED <<slotVars, registryVars, requestVars, workerVars, radioVars, validation>>

\* IngressServer.stop: no more requests; handlers are not waited for.
Shutdown ==
  /\ life = "left" /\ life' = "shutting"
  /\ UNCHANGED <<slotVars, registryVars, requestVars, workerVars, radioVars, validation>>

Close ==
  /\ life = "shutting" /\ life' = "closed"
  /\ entry' = [a \in Artifacts |-> "absent"]
  /\ files' = files \ Registered(entry)
  /\ UNCHANGED <<slotVars, requestVars, workerVars, radioVars, validation, old>>

End ==
  /\ life = "closed" /\ life' = "ended"
  /\ UNCHANGED <<slotVars, registryVars, requestVars, workerVars, radioVars, validation>>

-----------------------------------------------------------------------------
Init ==
  /\ Slot!Init
  /\ validation = [a \in Artifacts |-> "none"]
  /\ request = [r \in Requests |-> "new"]
  /\ artifactOf = [r \in Requests |-> NoArtifact]
  /\ entry = [a \in Artifacts |-> "absent"] /\ old = {} /\ files = {}
  /\ worker = "loop" /\ hands = NoOp /\ life = "on"
  /\ tty \in BOOLEAN /\ endpoint = "free"

Validating(a) == Store(a) \/ Probe(a) \/ Preflight(a) \/ Stage(a)

Answering(r) == SubmitClaimed(r) \/ ReleaseClaim(r) \/ Consume(r)

Working ==
  \/ Begin \/ EnterDfu \/ ProbeTarget \/ ProbeEnds \/ Transfer \/ TransferEnds
  \/ Settle \/ Discard
  \/ CancelQueued \/ LeaveCancelled \/ LeaveLoop \/ Shutdown \/ Close \/ End

Next ==
  \/ \E a \in Artifacts : Validate(a) \/ Validating(a) \/ Age(a)
  \/ \E r \in Requests : (\E a \in Artifacts : Claim(r, a)) \/ Answering(r)
  \/ \E i \in Installs : Install(i)
  \/ Expire \/ Working \/ Fail \/ Signal

\* Handlers go on: their sockets, downloads and helpers have time limits.  The
\* main thread goes on, the reaper wakes every 30 seconds and time passes.
Fairness ==
  /\ \A a \in Artifacts : WF_vars(Validating(a)) /\ WF_vars(Age(a))
  /\ \A r \in Requests : WF_vars(Answering(r))
  /\ WF_vars(Working) /\ WF_vars(Expire)

Spec == Init /\ [][Next]_vars /\ Fairness

-----------------------------------------------------------------------------
(***************************************************************************)
(* Properties.                                                             *)
(***************************************************************************)
\* The range of every variable.
RangesOK ==
  /\ slot \in Ops \cup {NoOp} /\ executed \subseteq Ops
  /\ phase \in {"idle", "queued", "running", "complete", "failed"}
  /\ validation \in
       [Artifacts -> {"none", "checked", "stored", "probing", "ready", "over"}]
  /\ request \in [Requests -> {"new", "claimed", "accepted", "refused", "over"}]
  /\ artifactOf \in [Requests -> Artifacts \cup {NoArtifact}]
  /\ entry \in [Artifacts -> {"absent", "staged", "claimed"}]
  /\ old \subseteq Artifacts /\ files \subseteq Uploads
  /\ worker \in {"loop", "run", "dfu", "probing", "probed", "transfer", "refused",
                 "flashed", "discard", "cancelled"}
  /\ hands \in Ops \cup {NoOp}
  /\ life \in {"on", "signalled", "left", "shutting", "closed", "ended"}
  /\ tty \in BOOLEAN /\ endpoint \in {"free", "preflight", "probe", "transfer"}

\* Every variable stays in its range, only uploads have files, and the
\* registry (_MAX_STAGED_ARTIFACTS in stage) never owns more than its limit.
TypeOK == RangesOK /\ Cardinality(Registered(entry)) <= MaxStaged

\* The main thread serves its loop.
InLoop == life \in {"on", "signalled"}

\* A command that waits or runs still has the file it is to flash, whatever
\* the reaper, other requests and their handlers did since it was claimed.
PendingHasFile ==
  InLoop /\ slot \in Requests /\ artifactOf[slot] \in Uploads
    => artifactOf[slot] \in files

\* One validation is good for one flash: no two commands that reached the
\* hardware were made from the same artifact.
OneFlashPerArtifact ==
  \A r, s \in executed \cap Requests : artifactOf[r] = artifactOf[s] => r = s

\* A temporary file always has somebody who will remove it: the handler that
\* validates it, the registry, or the command it was accepted for.
FileIsOwned ==
  InLoop =>
    \A a \in files :
      \/ validation[a] \in {"stored", "probing", "ready"}
      \/ entry[a] # "absent"
      \/ \E r \in {slot, hands} \cap Requests : artifactOf[r] = a

\* Uploaded and downloaded files are short-lived: each is removed even when
\* no browser comes back for it.
FilesGo == \A a \in Uploads : a \in files ~> a \notin files \/ life = "ended"

(***************************************************************************)
(* A promise of the repository that the code does not keep.                *)
(***************************************************************************)
\* updater.py:119, "Return only checks that can be performed without
\* disrupting the RCP": no transfer is refused the bootloader's endpoint.
PreflightIsHarmless == worker # "refused"

=============================================================================
